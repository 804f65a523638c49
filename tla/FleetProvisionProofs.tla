-------------------------- MODULE FleetProvisionProofs --------------------------
(***************************************************************************)
(* Theorems about FleetProvision, for any masters, scripts and fleets.     *)
(***************************************************************************)
EXTENDS FleetProvision, SumTheorems, SequenceTheorems

(* What the scripts know of a fleet when they send funds to it.            *)
Fleet(e) == [i \in 1..Size |-> DeployedAt(UniqueNonce(e.master, e.nonce), i - 1)]

OwnsBrackets(e) == \A i \in DOMAIN e.brackets : chain.owner[e.brackets[i]] = e.master

ProvType ==
    [pc : {"idle", "check", "deploy", "send", "done"}, kind : AllKinds, master : Masters,
     nonce : Nonces, brackets : Seq(Addresses), step : {1, 2}]

(* What the run of a script has done so far.                               *)
Unsent(p, k) == status[<<p, k>>] = "none"

ProvOK(p, e) ==
    /\ e.pc \in {"idle", "check", "deploy"} => e.step = 1 /\ Unsent(p, 1) /\ Unsent(p, 2)
    /\ e.pc = "send" => Unsent(p, e.step) /\ Unsent(p, 2)
    /\ e.kind \notin {"complete", "reuse"} => e.step = 1 /\ Unsent(p, 2)
    /\ e.pc = "idle" => e.kind = "single" /\ e.brackets = <<>>
    /\ e.kind = "single" => e.pc \in {"idle", "send", "done"}
    /\ e.kind = "single" /\ e.pc # "idle" => e.brackets = Fleet(e)
    /\ e.pc = "check" => e.kind \in {"reuse", "fund"}
    /\ e.pc = "deploy" => e.kind = "complete" /\ e.brackets = <<>>
    /\ e.kind \in {"complete", "reuse", "fund"} /\ (e.pc = "send" \/ ~Unsent(p, 1) \/ ~Unsent(p, 2))
         => OwnsBrackets(e)

(* Where a master has its funds: in its own wallet and, for its brackets,  *)
(* in their wallets and on the exchange.                                   *)
Holdings(c, m) == [a \in Addresses |-> IF c.owner[a] = m THEN c.wallet[a] + c.exch[a] ELSE 0]

Solvent(c) == \A m \in Masters : c.funds[m] + SumFunctionOnSet(Holdings(c, m), Addresses) = Funds

NothingNowhere(c) == \A a \in Addresses : c.owner[a] = NoOwner => c.wallet[a] = 0 /\ c.exch[a] = 0

(* The factory's fleets, one per run at most.                              *)
WithFleet == {p \in Provisions : prov[p].kind = "complete" /\ prov[p].brackets # <<>>}

FactoryOK ==
    /\ chain.created = Size * Cardinality(WithFleet)
    /\ \A a \in Addresses : a[1] = Factory /\ a[2] >= chain.created => chain.owner[a] = NoOwner

(* The fleets of single transactions.                                      *)
DeployedBy(q, a) ==
    /\ prov[q].kind = "single" /\ status[<<q, 1>>] = "ok"
    /\ prov[q].master = a[1] /\ prov[q].nonce = a[2]

FleetsOK ==
    \A a \in Addresses : a[1] # Factory /\ chain.owner[a] # NoOwner =>
        chain.owner[a] = a[1] /\ \E q \in Provisions : DeployedBy(q, a)

ChainOK ==
    /\ Solvent(chain) /\ NothingNowhere(chain)
    /\ \A a \in Addresses : chain.wallet[a] = 0
    /\ FactoryOK /\ FleetsOK

(* What can only grow, and what a transaction spends.                      *)
Larger(c, d) ==
    /\ \A a \in Addresses :
          /\ c.owner[a] # NoOwner => d.owner[a] = c.owner[a]
          /\ c.orders[a] \subseteq d.orders[a]
          /\ c.exch[a] <= d.exch[a]
    /\ \A m \in Masters : d.funds[m] <= c.funds[m]

Grows(c, d) == Larger(c, d) /\ d.created = c.created

(* A transaction of m with the calls C, after n of them: c is the chain    *)
(* before, w the copy it works on.  The transfer that was made last is not *)
(* deposited yet; Safes without an owner got one by a creation only.       *)
OnTheWay(C, n, a) == IF n > 0 /\ C[n] = [op |-> "transfer", to |-> a] THEN 1 ELSE 0

NewOwners(c, w, C, n, m) ==
    \A a \in Addresses : c.owner[a] = NoOwner /\ w.owner[a] # NoOwner =>
        w.owner[a] = m /\ \E i \in 1..n : C[i] = [op |-> "create", to |-> a]

Progress(c, w, C, n, m) ==
    /\ Grows(c, w)
    /\ Solvent(w) /\ NothingNowhere(w)
    /\ \A a \in Addresses : w.wallet[a] = OnTheWay(C, n, a)
    /\ NewOwners(c, w, C, n, m)

(* A provision in a single transaction, call by call.                      *)
Transfers(n) == IF n <= 2 * Size THEN 0 ELSE (n - 2 * Size + 1) \div 2

SingleOK(c, w, C, n, m, p) ==
    /\ \A i \in 1..n :
          /\ w.owner[C[i].to] = m
          /\ C[i].op = "orders" => p \in w.orders[C[i].to]
          /\ C[i].op = "deposit" => w.exch[C[i].to] > 0
    /\ c.funds[m] = w.funds[m] + Transfers(n)

Rest(calls, C, n) == Len(calls) = Len(C) - n /\ \A i \in 1..Len(calls) : calls[i] = C[n + i]

(* The transaction that runs, with the calls C: n of them were made.       *)
Running(C, n, p) ==
    /\ Rest(vm.calls, C, n)
    /\ Progress(chain, vm.work, C, n, prov[p].master)
    /\ prov[p].kind = "single" => SingleOK(chain, vm.work, C, n, prov[p].master, p)

VMOK ==
    /\ vm.mode = "idle" => vm = IdleVM(chain)
    /\ vm.mode = "estimate" => vm.tx = <<vm.tx[1], prov[vm.tx[1]].step>> /\ prov[vm.tx[1]].pc = "send"
    /\ vm.mode = "execute" => status[vm.tx] = "pending"
    /\ vm.mode # "idle" =>
          \E n \in 0..Len(CallsOf(vm.tx)) : Running(CallsOf(vm.tx), n, vm.tx[1])

ProvsOK == \A p \in Provisions : ProvOK(p, prov[p])

(* The inductive invariant.                                                *)
IInv == TypeOK /\ ProvsOK /\ ChainOK /\ VMOK /\ ProvisionIsWhole /\ FailsByOwnDoingOnly
-----------------------------------------------------------------------------
(***************************************************************************)
(* Addresses.                                                              *)
(***************************************************************************)
LEMMA AddressesAreFinite == IsFiniteSet(Addresses)
<1> DEFINE N == Cardinality(Provisions) * Size - 1
           Pairs == (Masters \X Nonces) \X (0..(Size - 1))
           Computed == Masters \X Nonces \X (0..(Size - 1))
           New == {Fresh(k) : k \in 0..N}
           f == [x \in Pairs |-> <<x[1][1], x[1][2], x[2]>>]
           g == [k \in 0..N |-> Fresh(k)]
<1>1. Cardinality(Provisions) \in Nat /\ Size \in Nat
  BY FS_CardinalityType, ProvisionAssumption
<1>2. N \in Int
  BY <1>1
<1>3. IsFiniteSet(0..(Size - 1)) /\ IsFiniteSet(0..N)
  <2> HIDE DEF N
  <2>1. QED
    BY <1>1, <1>2, FS_Interval
<1>4. IsFiniteSet(Computed)
  <2>1. IsFiniteSet(Masters \X Nonces)
    BY FS_Product, ProvisionAssumption
  <2>2. IsFiniteSet(Pairs)
    BY <1>3, <2>1, FS_Product
  <2>3. f \in [Pairs -> Computed]
    OBVIOUS
  <2>4. ASSUME NEW a \in Computed
        PROVE  \E x \in Pairs : f[x] = a
    <3>1. PICK m \in Masters, n \in Nonces, i \in 0..(Size - 1) : a = <<m, n, i>>
      OBVIOUS
    <3>2. <<<<m, n>>, i>> \in Pairs
      OBVIOUS
    <3>3. f[<<<<m, n>>, i>>] = a
      BY <3>1, <3>2
    <3>4. QED
      BY <3>2, <3>3
  <2> HIDE DEF Pairs, Computed, f
  <2>5. f \in Surjection(Pairs, Computed)
    BY <2>3, <2>4 DEF Surjection
  <2>6. QED
    BY <2>2, <2>5, FS_Surjection, Zenon
<1>5. IsFiniteSet(New)
  <2>1. g \in [0..N -> New]
    OBVIOUS
  <2>2. \A a \in New : \E k \in 0..N : g[k] = a
    OBVIOUS
  <2> HIDE DEF N, New, g
  <2>3. g \in Surjection(0..N, New)
    BY <2>1, <2>2 DEF Surjection
  <2>4. QED
    BY <1>3, <2>3, FS_Surjection, Zenon
<1>6. Addresses = Computed \cup New
  BY DEF Addresses
<1> HIDE DEF Computed, New
<1>7. QED
  BY <1>4, <1>5, <1>6, FS_Union

LEMMA AddressKinds ==
    ASSUME NEW a \in Addresses
    PROVE  \/ a[1] \in Masters /\ a[2] \in Nonces /\ a[1] # Factory
           \/ a[1] = Factory /\ a[2] \in Nat /\ a = Fresh(a[2])
BY ProvisionAssumption DEF Addresses, Fresh

IsOfFleet(a, m, n) == a \in Addresses /\ a[1] = m /\ a[2] = n

LEMMA FleetAddress ==
    ASSUME NEW m \in Masters, NEW n \in Nonces, NEW i \in 1..Size
    PROVE  IsOfFleet(DeployedAt(UniqueNonce(m, n), i - 1), m, n)
<1>1. i - 1 \in 0..(Size - 1)
  BY ProvisionAssumption
<1>2. QED
  BY <1>1 DEF DeployedAt, UniqueNonce, Addresses, IsOfFleet

(* Addresses of a fleet differ.                                            *)
LEMMA FleetIsInjective ==
    ASSUME NEW m, NEW n, NEW i \in 1..Size, NEW j \in 1..Size,
           DeployedAt(UniqueNonce(m, n), i - 1) = DeployedAt(UniqueNonce(m, n), j - 1)
    PROVE  i = j
<1>1. i - 1 = j - 1
  BY DEF DeployedAt
<1>2. QED
  BY <1>1, ProvisionAssumption
-----------------------------------------------------------------------------
(***************************************************************************)
(* Sequences of calls.                                                     *)
(***************************************************************************)
(* The shapes of sequences of calls.                                       *)
OrdersOf(C, b) ==
    C \in Seq(Calls) /\ Len(C) = Len(b) /\ \A i \in 1..Len(b) : C[i] = [op |-> "orders", to |-> b[i]]

MovesAfter(C, n, b) ==
    \A x \in 1..Len(b) : /\ C[n + (2 * x - 1)] = [op |-> "transfer", to |-> b[x]]
                         /\ C[n + 2 * x] = [op |-> "deposit", to |-> b[x]]

MovesOf(C, b) == C \in Seq(Calls) /\ Len(C) = 2 * Len(b) /\ MovesAfter(C, 0, b)

Single(C, b) ==
    /\ C \in Seq(Calls) /\ Len(C) = 4 * Size
    /\ \A x \in 1..Size :
          /\ C[x] = [op |-> "create", to |-> b[x]]
          /\ C[Size + x] = [op |-> "orders", to |-> b[x]]
          /\ C[2 * Size + (2 * x - 1)] = [op |-> "transfer", to |-> b[x]]
          /\ C[2 * Size + 2 * x] = [op |-> "deposit", to |-> b[x]]

LEMMA FunctionIsSequence ==
    ASSUME NEW S, NEW n \in Nat, NEW f \in [1..n -> S]
    PROVE  f \in Seq(S) /\ Len(f) = n
OBVIOUS

LEMMA PlaceOrdersCalls ==
    ASSUME NEW p \in Provisions, prov[p] \in ProvType, NEW b, b = prov[p].brackets
    PROVE  Len(b) \in Nat /\ OrdersOf(PlaceOrders(p), b)
<1>1. b \in Seq(Addresses)
  BY DEF ProvType
<1>2. Len(b) \in Nat /\ DOMAIN b = 1..Len(b) /\ \A i \in 1..Len(b) : b[i] \in Addresses
  BY <1>1, LenProperties, ElementOfSeq
<1>3. PlaceOrders(p) = [i \in 1..Len(b) |-> [op |-> "orders", to |-> b[i]]]
  BY <1>2 DEF PlaceOrders
<1>4. PlaceOrders(p) \in [1..Len(b) -> Calls]
  BY <1>2, <1>3 DEF Calls
<1>5. PlaceOrders(p) \in Seq(Calls) /\ Len(PlaceOrders(p)) = Len(b)
  BY <1>2, <1>4, FunctionIsSequence
<1>6. \A i \in 1..Len(b) : PlaceOrders(p)[i] = [op |-> "orders", to |-> b[i]]
  BY <1>3
<1>7. QED
  BY <1>2, <1>5, <1>6 DEF OrdersOf

LEMMA MoveFundsCalls ==
    ASSUME NEW p \in Provisions, prov[p] \in ProvType, NEW b, b = prov[p].brackets
    PROVE  MovesOf(MoveFunds(p), b)
<1>1. b \in Seq(Addresses)
  BY DEF ProvType
<1>2. Len(b) \in Nat /\ \A i \in 1..Len(b) : b[i] \in Addresses
  BY <1>1, LenProperties, ElementOfSeq
<1>3. MoveFunds(p) = [k \in 1..(2 * Len(b)) |->
                        [op |-> IF k % 2 = 1 THEN "transfer" ELSE "deposit",
                         to |-> b[(k + 1) \div 2]]]
  BY DEF MoveFunds
<1>4. ASSUME NEW k \in 1..(2 * Len(b))
      PROVE  (k + 1) \div 2 \in 1..Len(b)
  BY <1>2
<1>5. MoveFunds(p) \in [1..(2 * Len(b)) -> Calls]
  BY <1>2, <1>3, <1>4 DEF Calls
<1>6. 2 * Len(b) \in Nat
  BY <1>2
<1>7. MoveFunds(p) \in Seq(Calls) /\ Len(MoveFunds(p)) = 2 * Len(b)
  BY <1>5, <1>6, FunctionIsSequence
<1>8. ASSUME NEW x \in 1..Len(b)
      PROVE  /\ MoveFunds(p)[2 * x - 1] = [op |-> "transfer", to |-> b[x]]
             /\ MoveFunds(p)[2 * x] = [op |-> "deposit", to |-> b[x]]
  <2>1. /\ 2 * x - 1 \in 1..(2 * Len(b)) /\ (2 * x - 1) % 2 = 1 /\ (2 * x - 1 + 1) \div 2 = x
        /\ 2 * x \in 1..(2 * Len(b)) /\ (2 * x) % 2 # 1 /\ (2 * x + 1) \div 2 = x
    BY <1>2
  <2>2. QED
    BY <1>3, <2>1
<1>9. \A x \in 1..Len(b) : 0 + (2 * x - 1) = 2 * x - 1 /\ 0 + 2 * x = 2 * x
  BY <1>2
<1>10. QED
  BY <1>7, <1>8, <1>9 DEF MovesOf, MovesAfter

LEMMA CreationsCalls ==
    ASSUME NEW p \in Provisions, prov[p] \in ProvType
    PROVE  /\ Creations(p) \in Seq(Calls) /\ Len(Creations(p)) = Size
           /\ \A i \in 1..Size : Creations(p)[i] = [op |-> "create", to |-> Fleet(prov[p])[i]]
<1>1. Size \in Nat
  BY ProvisionAssumption
<1>2. prov[p].master \in Masters /\ prov[p].nonce \in Nonces
  BY DEF ProvType
<1>3. ASSUME NEW i \in 1..Size
      PROVE  Fleet(prov[p])[i] \in Addresses
  <2>1. IsOfFleet(DeployedAt(UniqueNonce(prov[p].master, prov[p].nonce), i - 1),
                  prov[p].master, prov[p].nonce)
    BY <1>2, FleetAddress, Zenon
  <2>2. QED
    BY <2>1 DEF Fleet, IsOfFleet
<1>4. Creations(p) = [i \in 1..Size |-> [op |-> "create", to |-> Fleet(prov[p])[i]]]
  BY DEF Creations, Fleet, SaltOf
<1>5. Creations(p) \in [1..Size -> Calls]
  BY <1>3, <1>4 DEF Calls
<1>6. QED
  BY <1>1, <1>4, <1>5

AreParts(C, A, O, M) ==
    /\ Len(C) = Len(A) + Len(O) + Len(M)
    /\ \A i \in 1..Len(A) : C[i] = A[i]
    /\ \A i \in 1..Len(O) : C[Len(A) + i] = O[i]
    /\ \A i \in 1..Len(M) : C[Len(A) + Len(O) + i] = M[i]

LEMMA ThreeParts ==
    ASSUME NEW S, NEW A \in Seq(S), NEW O \in Seq(S), NEW M \in Seq(S)
    PROVE  (A \o O) \o M \in Seq(S) /\ AreParts((A \o O) \o M, A, O, M)
<1> DEFINE T == A \o O
           C == (A \o O) \o M
<1>1. Len(A) \in Nat /\ Len(O) \in Nat /\ Len(M) \in Nat
  BY LenProperties
<1>2. /\ T \in Seq(S) /\ Len(T) = Len(A) + Len(O)
      /\ \A i \in 1..Len(A) + Len(O) : T[i] = IF i <= Len(A) THEN A[i] ELSE O[i - Len(A)]
  BY ConcatProperties
<1> HIDE DEF T, C
<1>9. T \in Seq(S)
  BY <1>2
<1>3. /\ T \o M \in Seq(S) /\ Len(T \o M) = Len(T) + Len(M)
      /\ \A i \in 1..Len(T) + Len(M) : (T \o M)[i] = IF i <= Len(T) THEN T[i] ELSE M[i - Len(T)]
  BY <1>9, ConcatProperties
<1>4. C = T \o M
  BY DEF T, C
<1>5. ASSUME NEW i \in 1..Len(A)
      PROVE  C[i] = A[i]
  <2>1. /\ i \in 1..Len(A) + Len(O) /\ i \in 1..Len(T) + Len(M) /\ i <= Len(A) /\ i <= Len(T)
    BY <1>1, <1>2
  <2>2. QED
    BY <1>2, <1>3, <1>4, <2>1
<1>6. ASSUME NEW i \in 1..Len(O)
      PROVE  C[Len(A) + i] = O[i]
  <2> DEFINE j == Len(A) + i
  <2>1. /\ j \in 1..Len(A) + Len(O) /\ j \in 1..Len(T) + Len(M) /\ ~(j <= Len(A)) /\ j <= Len(T)
        /\ j - Len(A) = i
    BY <1>1, <1>2
  <2> HIDE DEF j
  <2>2. C[j] = O[i]
    BY <1>2, <1>3, <1>4, <2>1
  <2>3. QED
    BY <2>2 DEF j
<1>7. ASSUME NEW i \in 1..Len(M)
      PROVE  C[Len(A) + Len(O) + i] = M[i]
  <2> DEFINE j == Len(A) + Len(O) + i
  <2>1. j \in 1..Len(T) + Len(M) /\ ~(j <= Len(T)) /\ j - Len(T) = i
    BY <1>1, <1>2
  <2> HIDE DEF j
  <2>2. C[j] = M[i]
    BY <1>3, <1>4, <2>1
  <2>3. QED
    BY <2>2 DEF j
<1>8. QED
  BY <1>2, <1>3, <1>4, <1>5, <1>6, <1>7 DEF C, AreParts

(* The calls of a provision in a single transaction.                       *)
LEMMA SingleCalls ==
    ASSUME NEW p \in Provisions, prov[p] \in ProvType, NEW k \in {1, 2},
           prov[p].kind = "single", NEW b, b = prov[p].brackets, b = Fleet(prov[p]),
           NEW C, C = CallsOf(<<p, k>>)
    PROVE  Single(C, b)
<1> DEFINE A == Creations(p)
           O == PlaceOrders(p)
           M == MoveFunds(p)
<1>1. C = (A \o O) \o M
  BY DEF CallsOf
<1>2. Size \in Nat /\ b \in Seq(Addresses)
  BY ProvisionAssumption DEF ProvType
<1>3. Len(b) = Size
  BY <1>2 DEF Fleet
<1>4. A \in Seq(Calls) /\ Len(A) = Size /\ \A i \in 1..Size : A[i] = [op |-> "create", to |-> b[i]]
  BY CreationsCalls
<1>5. O \in Seq(Calls) /\ Len(O) = Size /\ \A i \in 1..Size : O[i] = [op |-> "orders", to |-> b[i]]
  BY <1>3, PlaceOrdersCalls DEF OrdersOf
<1>6. /\ M \in Seq(Calls) /\ Len(M) = 2 * Size
      /\ \A x \in 1..Size : /\ M[2 * x - 1] = [op |-> "transfer", to |-> b[x]]
                            /\ M[2 * x] = [op |-> "deposit", to |-> b[x]]
  <2>1. MovesOf(M, b)
    BY MoveFundsCalls
  <2> HIDE DEF M
  <2>2. \A x \in 1..Size : 0 + (2 * x - 1) = 2 * x - 1 /\ 0 + 2 * x = 2 * x
    BY <1>2
  <2>3. QED
    BY <1>3, <2>1, <2>2 DEF MovesOf, MovesAfter
<1> HIDE DEF A, O, M
<1>7. /\ C \in Seq(Calls) /\ Len(C) = Size + Size + 2 * Size
      /\ \A i \in 1..Size : C[i] = A[i]
      /\ \A i \in 1..Size : C[Size + i] = O[i]
      /\ \A i \in 1..(2 * Size) : C[Size + Size + i] = M[i]
  <2>1. /\ C \in Seq(Calls) /\ Len(C) = Len(A) + Len(O) + Len(M)
        /\ \A i \in 1..Len(A) : C[i] = A[i]
        /\ \A i \in 1..Len(O) : C[Len(A) + i] = O[i]
        /\ \A i \in 1..Len(M) : C[Len(A) + Len(O) + i] = M[i]
    <3>1. A \in Seq(Calls) /\ O \in Seq(Calls) /\ M \in Seq(Calls)
      BY <1>4, <1>5, <1>6
    <3>2. C \in Seq(Calls) /\ AreParts(C, A, O, M)
      BY <1>1, <3>1, ThreeParts, Zenon
    <3>3. QED
      BY <3>2 DEF AreParts
  <2>2. QED
    BY <1>4, <1>5, <1>6, <2>1
<1>8. ASSUME NEW x \in 1..Size
      PROVE  /\ C[x] = [op |-> "create", to |-> b[x]]
             /\ C[Size + x] = [op |-> "orders", to |-> b[x]]
             /\ C[2 * Size + (2 * x - 1)] = [op |-> "transfer", to |-> b[x]]
             /\ C[2 * Size + 2 * x] = [op |-> "deposit", to |-> b[x]]
  <2>1. 2 * x - 1 \in 1..(2 * Size) /\ 2 * x \in 1..(2 * Size) /\ Size + Size = 2 * Size
    BY <1>2
  <2>2. /\ C[2 * Size + (2 * x - 1)] = M[2 * x - 1]
        /\ C[2 * Size + 2 * x] = M[2 * x]
    BY <1>7, <2>1
  <2>3. QED
    BY <1>4, <1>5, <1>6, <1>7, <2>2
<1>9. Len(C) = 4 * Size
  BY <1>2, <1>7
<1>10. QED
  BY <1>7, <1>8, <1>9 DEF Single

(* Each transfer is followed by the deposit of what was transferred.       *)
Paired(C) ==
    \A i \in 1..Len(C) :
        /\ C[i].op = "transfer" => i < Len(C) /\ C[i + 1] = [op |-> "deposit", to |-> C[i].to]
        /\ C[i].op = "deposit" => i > 1 /\ C[i - 1] = [op |-> "transfer", to |-> C[i].to]

LEMMA OddOrEven ==
    ASSUME NEW l \in Nat, NEW i \in 1..(2 * l)
    PROVE  \E x \in 1..l : i = 2 * x - 1 \/ i = 2 * x
<1> DEFINE x == (i + 1) \div 2
<1>1. x \in 1..l /\ (i = 2 * x - 1 \/ i = 2 * x)
  OBVIOUS
<1>2. QED
  BY <1>1

LEMMA MovesArePaired ==
    ASSUME NEW n \in Nat, NEW b, Len(b) \in Nat, NEW C, Len(C) = n + 2 * Len(b),
           \A i \in 1..n : C[i].op \notin {"transfer", "deposit"},
           MovesAfter(C, n, b)
    PROVE  Paired(C)
<1>1. ASSUME NEW i \in (n + 1)..Len(C)
      PROVE  \E x \in 1..Len(b) : i = n + (2 * x - 1) \/ i = n + 2 * x
  <2>1. i - n \in 1..(2 * Len(b))
    OBVIOUS
  <2>2. PICK x \in 1..Len(b) : i - n = 2 * x - 1 \/ i - n = 2 * x
    BY <2>1, OddOrEven
  <2>3. QED
    BY <2>2
<1>2. ASSUME NEW i \in 1..Len(C), C[i].op = "transfer"
      PROVE  i < Len(C) /\ C[i + 1] = [op |-> "deposit", to |-> C[i].to]
  <2>1. i \in (n + 1)..Len(C)
    BY <1>2
  <2>2. PICK x \in 1..Len(b) : i = n + (2 * x - 1) \/ i = n + 2 * x
    BY <1>1, <2>1
  <2>3. /\ C[n + (2 * x - 1)] = [op |-> "transfer", to |-> b[x]]
        /\ C[n + 2 * x] = [op |-> "deposit", to |-> b[x]]
    BY DEF MovesAfter
  <2>4. i = n + (2 * x - 1)
    <3>1. C[n + 2 * x].op = "deposit"
      BY <2>3
    <3>2. QED
      BY <1>2, <2>2, <3>1
  <2>5. i + 1 = n + 2 * x /\ i < Len(C)
    BY <2>4
  <2>6. QED
    BY <2>3, <2>4, <2>5
<1>3. ASSUME NEW i \in 1..Len(C), C[i].op = "deposit"
      PROVE  i > 1 /\ C[i - 1] = [op |-> "transfer", to |-> C[i].to]
  <2>1. i \in (n + 1)..Len(C)
    BY <1>3
  <2>2. PICK x \in 1..Len(b) : i = n + (2 * x - 1) \/ i = n + 2 * x
    BY <1>1, <2>1
  <2>3. /\ C[n + (2 * x - 1)] = [op |-> "transfer", to |-> b[x]]
        /\ C[n + 2 * x] = [op |-> "deposit", to |-> b[x]]
    BY DEF MovesAfter
  <2>4. i = n + 2 * x
    <3>1. C[n + (2 * x - 1)].op = "transfer"
      BY <2>3
    <3>2. QED
      BY <1>3, <2>2, <3>1
  <2>5. i - 1 = n + (2 * x - 1) /\ i > 1
    BY <2>4
  <2>6. QED
    BY <2>3, <2>4, <2>5
<1>4. QED
  BY <1>2, <1>3 DEF Paired

(* What the calls of a transaction are, for a script that sent it or is    *)
(* about to send it.                                                       *)
Foreign(e, C) ==
    \A i \in 1..Len(C) :
        /\ C[i].op # "create"
        /\ C[i].op # "orders" => e.kind \in {"complete", "reuse", "fund"}
        /\ \E x \in DOMAIN e.brackets : C[i].to = e.brackets[x]

CallsOK(e, C) ==
    /\ C \in Seq(Calls)
    /\ Paired(C)
    /\ e.kind # "single" => Foreign(e, C)
    /\ e.kind = "single" => Single(C, e.brackets) /\ e.brackets = Fleet(e)

LEMMA SingleOrders ==
    ASSUME NEW b, NEW C, Single(C, b), NEW i \in 1..(2 * Size)
    PROVE  C[i].op \notin {"transfer", "deposit"}
<1>1. i \in 1..Size \/ (i - Size \in 1..Size /\ Size + (i - Size) = i)
  BY ProvisionAssumption
<1>2. CASE i \in 1..Size
  <2>1. C[i] = [op |-> "create", to |-> b[i]]
    BY <1>2 DEF Single
  <2>2. QED
    BY <2>1
<1>3. CASE i - Size \in 1..Size /\ Size + (i - Size) = i
  <2> DEFINE x == i - Size
  <2>1. x \in 1..Size /\ Size + x = i
    BY <1>3
  <2> HIDE DEF x
  <2>2. C[Size + x] = [op |-> "orders", to |-> b[x]]
    BY <2>1 DEF Single
  <2>3. QED
    BY <2>1, <2>2
<1>4. QED
  BY <1>1, <1>2, <1>3

LEMMA SingleIsOK ==
    ASSUME NEW e, NEW C, e.kind = "single", Single(C, e.brackets), e.brackets = Fleet(e),
           Len(e.brackets) = Size
    PROVE  CallsOK(e, C)
<1>1. \A i \in 1..(2 * Size) : C[i].op \notin {"transfer", "deposit"}
  BY SingleOrders
<1>2. 2 * Size \in Nat /\ Len(C) = 2 * Size + 2 * Len(e.brackets) /\ Len(e.brackets) \in Nat
  BY ProvisionAssumption DEF Single
<1>3. MovesAfter(C, 2 * Size, e.brackets)
  BY DEF Single, MovesAfter
<1>4. Paired(C)
  BY <1>1, <1>2, <1>3, MovesArePaired
<1>5. QED
  BY <1>4 DEF CallsOK, Single

LEMMA OrdersAreOK ==
    ASSUME NEW e, NEW C, e.kind # "single", e.brackets \in Seq(Addresses), OrdersOf(C, e.brackets)
    PROVE  CallsOK(e, C)
<1>1. Len(e.brackets) \in Nat /\ DOMAIN e.brackets = 1..Len(e.brackets)
  BY LenProperties
<1>2. ASSUME NEW i \in 1..Len(C)
      PROVE  i \in DOMAIN e.brackets /\ C[i].op = "orders" /\ C[i].to = e.brackets[i]
  <2>1. i \in 1..Len(e.brackets)
    BY DEF OrdersOf
  <2>2. C[i] = [op |-> "orders", to |-> e.brackets[i]]
    BY <2>1 DEF OrdersOf
  <2>3. QED
    BY <1>1, <2>1, <2>2
<1>3. Paired(C)
  BY <1>2 DEF Paired
<1>4. Foreign(e, C)
  BY <1>1, <1>2 DEF Foreign
<1>5. QED
  BY <1>3, <1>4 DEF CallsOK, OrdersOf

LEMMA MovesAreOK ==
    ASSUME NEW e, NEW C, e.kind \in {"complete", "reuse", "fund"}, e.brackets \in Seq(Addresses),
           MovesOf(C, e.brackets)
    PROVE  CallsOK(e, C)
<1> DEFINE b == e.brackets
<1>1. Len(b) \in Nat /\ DOMAIN b = 1..Len(b)
  BY LenProperties
<1>2. Len(C) = 0 + 2 * Len(b) /\ MovesAfter(C, 0, b) /\ Len(C) = 2 * Len(b)
  BY <1>1 DEF MovesOf
<1>3. Paired(C)
  <2>1. \A i \in 1..0 : C[i].op \notin {"transfer", "deposit"}
    OBVIOUS
  <2> HIDE DEF b
  <2>2. QED
    BY <1>1, <1>2, <2>1, MovesArePaired
<1>4. ASSUME NEW i \in 1..Len(C)
      PROVE  C[i].op # "create" /\ \E x \in DOMAIN b : C[i].to = b[x]
  <2> HIDE DEF b
  <2>1. i \in 1..(2 * Len(b))
    BY <1>2
  <2>2. PICK x \in 1..Len(b) : i = 2 * x - 1 \/ i = 2 * x
    BY <1>1, <2>1, OddOrEven
  <2>3. 0 + (2 * x - 1) = 2 * x - 1 /\ 0 + 2 * x = 2 * x
    BY <1>1
  <2>4. C[2 * x - 1] = [op |-> "transfer", to |-> b[x]] /\ C[2 * x] = [op |-> "deposit", to |-> b[x]]
    BY <1>2, <2>3 DEF MovesAfter
  <2>5. C[i].op # "create" /\ C[i].to = b[x]
    BY <2>2, <2>4
  <2>6. QED
    BY <1>1, <2>5
<1>5. Foreign(e, C)
  BY <1>4 DEF Foreign
<1>6. QED
  BY <1>3, <1>5 DEF CallsOK, MovesOf

LEMMA AllCallsOK ==
    ASSUME NEW p \in Provisions, prov[p] \in ProvType, ProvOK(p, prov[p]), prov[p].pc # "idle",
           NEW k \in {1, 2}
    PROVE  CallsOK(prov[p], CallsOf(<<p, k>>))
<1>1. prov[p].brackets \in Seq(Addresses) /\ prov[p].kind \in AllKinds /\ Size \in Nat
  BY ProvisionAssumption DEF ProvType
<1>2. CASE prov[p].kind = "single"
  <2>1. prov[p].brackets = Fleet(prov[p])
    BY <1>2 DEF ProvOK
  <2>2. Len(prov[p].brackets) = Size
    BY <1>1, <2>1 DEF Fleet
  <2>3. Single(CallsOf(<<p, k>>), prov[p].brackets)
    BY <1>2, <2>1, SingleCalls
  <2>4. QED
    BY <1>2, <2>1, <2>2, <2>3, SingleIsOK
<1>3. CASE prov[p].kind # "single" /\ CallsOf(<<p, k>>) = PlaceOrders(p)
  <2>1. OrdersOf(CallsOf(<<p, k>>), prov[p].brackets)
    BY <1>3, PlaceOrdersCalls
  <2>2. QED
    BY <1>1, <1>3, <2>1, OrdersAreOK
<1>4. CASE prov[p].kind \in {"complete", "reuse", "fund"} /\ CallsOf(<<p, k>>) = MoveFunds(p)
  <2>1. MovesOf(CallsOf(<<p, k>>), prov[p].brackets)
    BY <1>4, MoveFundsCalls
  <2>2. QED
    BY <1>1, <1>4, <2>1, MovesAreOK
<1>5. QED
  BY <1>1, <1>2, <1>3, <1>4 DEF CallsOf, AllKinds
-----------------------------------------------------------------------------
(***************************************************************************)
(* What a call does to the chain.                                          *)
(***************************************************************************)
LEMMA ChainTypes ==
    ASSUME NEW c \in Chains
    PROVE  /\ c.owner \in [Addresses -> Masters \cup {NoOwner}]
           /\ c.orders \in [Addresses -> SUBSET Provisions]
           /\ c.wallet \in [Addresses -> Nat] /\ c.exch \in [Addresses -> Nat]
           /\ c.funds \in [Masters -> Nat] /\ c.created \in Nat
BY DEF Chains

(* The chain d after one unit went from m's wallet to that of a bracket,   *)
(* and after it went on to the exchange.                                   *)
Transferred(c, m, to, x, y, d) ==
    /\ d \in Chains /\ d.owner = c.owner /\ d.orders = c.orders /\ d.exch = c.exch
    /\ d.created = c.created
    /\ d.funds = [c.funds EXCEPT ![m] = x]
    /\ d.wallet = [c.wallet EXCEPT ![to] = y]

LEMMA TransferType ==
    ASSUME NEW c \in Chains, NEW to \in Addresses, NEW m \in Masters, NEW x \in Nat, NEW y \in Nat
    PROVE  Transferred(c, m, to, x, y, [c EXCEPT !.funds[m] = x, !.wallet[to] = y])
BY DEF Chains, Transferred

Deposited(c, to, x, y, d) ==
    /\ d \in Chains /\ d.owner = c.owner /\ d.orders = c.orders /\ d.funds = c.funds
    /\ d.created = c.created
    /\ d.wallet = [c.wallet EXCEPT ![to] = x]
    /\ d.exch = [c.exch EXCEPT ![to] = y]

LEMMA DepositType ==
    ASSUME NEW c \in Chains, NEW to \in Addresses, NEW x \in Nat, NEW y \in Nat
    PROVE  Deposited(c, to, x, y, [c EXCEPT !.wallet[to] = x, !.exch[to] = y])
BY DEF Chains, Deposited

LEMMA HoldingsType ==
    ASSUME NEW c \in Chains, NEW m, NEW a \in Addresses
    PROVE  Holdings(c, m)[a] \in Nat
           /\ Holdings(c, m)[a] = IF c.owner[a] = m THEN c.wallet[a] + c.exch[a] ELSE 0
<1>1. c.wallet[a] \in Nat /\ c.exch[a] \in Nat
  BY ChainTypes
<1>2. QED
  BY <1>1 DEF Holdings

LEMMA SameHoldings ==
    ASSUME NEW c \in Chains, NEW d \in Chains, Solvent(c), d.funds = c.funds,
           \A m \in Masters, a \in Addresses : Holdings(d, m)[a] = Holdings(c, m)[a]
    PROVE  Solvent(d)
<1>1. ASSUME NEW m \in Masters
      PROVE  SumFunctionOnSet(Holdings(c, m), Addresses) = SumFunctionOnSet(Holdings(d, m), Addresses)
  BY AddressesAreFinite, SumSame
<1>2. QED
  BY <1>1 DEF Solvent

(* What is known of a chain while a transaction of m runs, and of the call *)
(* that comes next.                                                        *)
CallAllowed(call, m, c) ==
    /\ call \in Calls
    /\ CallSucceeds(call, m, c)
    /\ call.op \in {"transfer", "deposit"} => c.owner[call.to] = m
    /\ call.op = "deposit" => c.wallet[call.to] > 0

(* What the effect of a call is on all that the properties are about.      *)
EffectOK(call, m, p, c, d) ==
    /\ d \in Chains
    /\ Grows(c, d) /\ Solvent(d) /\ NothingNowhere(d)
    /\ \A a \in Addresses :
          /\ d.owner[a] = IF call = [op |-> "create", to |-> a] THEN m ELSE c.owner[a]
          /\ d.wallet[a] = c.wallet[a] + (IF call = [op |-> "transfer", to |-> a] THEN 1 ELSE 0)
                                       - (IF call = [op |-> "deposit", to |-> a] THEN 1 ELSE 0)
    /\ d.funds[m] = c.funds[m] - (IF call.op = "transfer" THEN 1 ELSE 0)
    /\ call.op = "orders" /\ c.owner[call.to] # NoOwner => p \in d.orders[call.to]
    /\ call.op = "deposit" => d.exch[call.to] > 0

LEMMA CreateOK ==
    ASSUME NEW p \in Provisions, NEW m \in Masters, prov[p].master = m, NEW c \in Chains,
           Solvent(c), NothingNowhere(c), NEW call, CallAllowed(call, m, c), call.op = "create",
           NEW d, d = CallEffect(call, p, c)
    PROVE  EffectOK(call, m, p, c, d)
<1> DEFINE to == call.to
<1>1. to \in Addresses /\ c.owner[to] = NoOwner /\ NoOwner \notin Masters
  BY ProvisionAssumption DEF CallAllowed, CallSucceeds, Calls
<1>2. d = [c EXCEPT !.owner[to] = prov[p].master] /\ prov[p].master = m
  BY DEF CallEffect
<1>3. /\ d \in Chains /\ d.owner = [c.owner EXCEPT ![to] = m] /\ d.orders = c.orders
      /\ d.wallet = c.wallet /\ d.exch = c.exch /\ d.funds = c.funds /\ d.created = c.created
  BY <1>1, <1>2 DEF Chains
<1>4. \A a \in Addresses : call = [op |-> "create", to |-> a] <=> a = to
  BY DEF CallAllowed, Calls
<1> HIDE DEF to
<1>5. \A a \in Addresses : d.owner[a] = IF a = to THEN m ELSE c.owner[a]
  BY <1>1, <1>3, ChainTypes
<1>6. NothingNowhere(d)
  BY <1>1, <1>3, <1>5 DEF NothingNowhere
<1>7. c.wallet[to] = 0 /\ c.exch[to] = 0
  BY <1>1 DEF NothingNowhere
<1>8. ASSUME NEW n \in Masters, NEW a \in Addresses
      PROVE  Holdings(d, n)[a] = Holdings(c, n)[a]
  <2>1. /\ Holdings(d, n)[a] = IF d.owner[a] = n THEN d.wallet[a] + d.exch[a] ELSE 0
        /\ Holdings(c, n)[a] = IF c.owner[a] = n THEN c.wallet[a] + c.exch[a] ELSE 0
    BY DEF Holdings
  <2>2. QED
    BY <1>1, <1>3, <1>5, <1>7, <2>1
<1>9. Solvent(d)
  BY <1>3, <1>8, SameHoldings
<1>10. Grows(c, d)
  BY <1>1, <1>3, <1>5, ChainTypes DEF Grows, Larger
<1>11. c.funds[m] \in Nat /\ \A a \in Addresses : c.wallet[a] \in Nat
  BY ChainTypes
<1>12. QED
  BY <1>3, <1>4, <1>5, <1>6, <1>9, <1>10, <1>11 DEF EffectOK

LEMMA TransferOK ==
    ASSUME NEW p \in Provisions, NEW m \in Masters, prov[p].master = m, NEW c \in Chains,
           Solvent(c), NothingNowhere(c), NEW call, CallAllowed(call, m, c), call.op = "transfer",
           NEW d, d = CallEffect(call, p, c)
    PROVE  EffectOK(call, m, p, c, d)
<1> DEFINE to == call.to
<1>1. to \in Addresses /\ c.owner[to] = m /\ NoOwner \notin Masters /\ c.funds[m] > 0
  BY ProvisionAssumption DEF CallAllowed, CallSucceeds, Calls
<1>2. d = [c EXCEPT !.funds[m] = c.funds[m] - 1, !.wallet[to] = c.wallet[to] + 1]
  <2>1. \E n : n = m /\ d = [c EXCEPT !.funds[n] = @ - 1, !.wallet[to] = @ + 1]
    BY DEF CallEffect
  <2>2. QED
    BY <2>1
<1>3. c.funds[m] - 1 \in Nat /\ c.wallet[to] + 1 \in Nat
  BY <1>1, ChainTypes
<1>4. /\ d \in Chains /\ d.owner = c.owner /\ d.orders = c.orders
      /\ d.wallet = [c.wallet EXCEPT ![to] = c.wallet[to] + 1] /\ d.exch = c.exch
      /\ d.funds = [c.funds EXCEPT ![m] = c.funds[m] - 1] /\ d.created = c.created
  <2>1. PICK x \in Nat : x = c.funds[m] - 1
    BY <1>3
  <2>2. PICK y \in Nat : y = c.wallet[to] + 1
    BY <1>3
  <2>3. d = [c EXCEPT !.funds[m] = x, !.wallet[to] = y]
    BY <1>2, <2>1, <2>2
  <2> HIDE DEF to
  <2>4. to \in Addresses
    BY <1>1
  <2>5. Transferred(c, m, to, x, y, [c EXCEPT !.funds[m] = x, !.wallet[to] = y])
    BY <2>4, TransferType, Zenon
  <2>6. Transferred(c, m, to, x, y, d)
    BY <2>3, <2>5, Zenon
  <2>7. QED
    BY <2>1, <2>2, <2>6 DEF Transferred
<1>5. \A a \in Addresses : call = [op |-> "transfer", to |-> a] <=> a = to
  BY DEF CallAllowed, Calls
<1> HIDE DEF to
<1>6. \A a \in Addresses : c.wallet[a] \in Nat /\ c.exch[a] \in Nat
  BY ChainTypes
<1>7. \A a \in Addresses : d.wallet[a] = IF a = to THEN c.wallet[a] + 1 ELSE c.wallet[a]
  BY <1>1, <1>4, ChainTypes
<1>8. \A n \in Masters : c.funds[n] \in Nat /\ d.funds[n] = IF n = m THEN c.funds[n] - 1 ELSE c.funds[n]
  BY <1>4, ChainTypes
<1>9. NothingNowhere(d)
  BY <1>1, <1>4, <1>7 DEF NothingNowhere
<1>10. Solvent(d)
  <2>1. ASSUME NEW n \in Masters
        PROVE  d.funds[n] + SumFunctionOnSet(Holdings(d, n), Addresses) = Funds
    <3>1. c.funds[n] + SumFunctionOnSet(Holdings(c, n), Addresses) = Funds
      BY DEF Solvent
    <3>2. \A a \in Addresses : Holdings(c, n)[a] \in Int /\ Holdings(d, n)[a] \in Int
      BY <1>4, HoldingsType
    <3>3. SumFunctionOnSet(Holdings(c, n), Addresses) \in Int
      BY <3>2, AddressesAreFinite, SumInteger
    <3>4. CASE n = m
      <4>1. \A a \in Addresses \ {to} : Holdings(d, n)[a] = Holdings(c, n)[a]
        <5>1. ASSUME NEW a \in Addresses \ {to}
              PROVE  Holdings(d, n)[a] = Holdings(c, n)[a]
          <6>1. /\ Holdings(d, n)[a] = IF d.owner[a] = n THEN d.wallet[a] + d.exch[a] ELSE 0
                /\ Holdings(c, n)[a] = IF c.owner[a] = n THEN c.wallet[a] + c.exch[a] ELSE 0
            BY DEF Holdings
          <6>2. QED
            BY <1>4, <1>7, <6>1
        <5>2. QED
          BY <5>1
      <4>2. Holdings(d, n)[to] - Holdings(c, n)[to] = 1
        BY <1>1, <1>4, <1>6, <1>7, <3>4, HoldingsType
      <4>3. SumFunctionOnSet(Holdings(d, n), Addresses)
              = SumFunctionOnSet(Holdings(c, n), Addresses) + (Holdings(d, n)[to] - Holdings(c, n)[to])
        BY <1>1, <3>2, <4>1, AddressesAreFinite, SumChange
      <4>4. QED
        BY <1>8, <3>1, <3>3, <3>4, <4>2, <4>3
    <3>5. CASE n # m
      <4>1. \A a \in Addresses : Holdings(d, n)[a] = Holdings(c, n)[a]
        <5>1. ASSUME NEW a \in Addresses
              PROVE  Holdings(d, n)[a] = Holdings(c, n)[a]
          <6>1. /\ Holdings(d, n)[a] = IF d.owner[a] = n THEN d.wallet[a] + d.exch[a] ELSE 0
                /\ Holdings(c, n)[a] = IF c.owner[a] = n THEN c.wallet[a] + c.exch[a] ELSE 0
            BY DEF Holdings
          <6>2. QED
            BY <1>1, <1>4, <1>7, <3>5, <6>1
        <5>2. QED
          BY <5>1
      <4>2. SumFunctionOnSet(Holdings(d, n), Addresses) = SumFunctionOnSet(Holdings(c, n), Addresses)
        BY <4>1, AddressesAreFinite, SumSame
      <4>3. QED
        BY <1>8, <3>1, <3>5, <4>2
    <3>6. QED
      BY <3>4, <3>5
  <2>2. QED
    BY <2>1 DEF Solvent
<1>11. Grows(c, d)
  BY <1>4, <1>6, <1>8 DEF Grows, Larger
<1>12. QED
  BY <1>4, <1>5, <1>6, <1>7, <1>8, <1>9, <1>10, <1>11 DEF EffectOK

LEMMA DepositOK ==
    ASSUME NEW p \in Provisions, NEW m \in Masters, prov[p].master = m, NEW c \in Chains,
           Solvent(c), NothingNowhere(c), NEW call, CallAllowed(call, m, c), call.op = "deposit",
           NEW d, d = CallEffect(call, p, c)
    PROVE  EffectOK(call, m, p, c, d)
<1> DEFINE to == call.to
<1>1. to \in Addresses /\ c.owner[to] = m /\ m # NoOwner /\ c.wallet[to] > 0
  BY ProvisionAssumption DEF CallAllowed, CallSucceeds, Calls
<1>2. d = [c EXCEPT !.wallet[to] = @ - 1, !.exch[to] = @ + 1]
  BY <1>1 DEF CallEffect
<1>3. c.wallet[to] - 1 \in Nat /\ c.exch[to] + 1 \in Nat
  BY <1>1, ChainTypes
<1>4. /\ d \in Chains /\ d.owner = c.owner /\ d.orders = c.orders
      /\ d.wallet = [c.wallet EXCEPT ![to] = c.wallet[to] - 1]
      /\ d.exch = [c.exch EXCEPT ![to] = c.exch[to] + 1]
      /\ d.funds = c.funds /\ d.created = c.created
  <2>1. PICK x \in Nat : x = c.wallet[to] - 1
    BY <1>3
  <2>2. PICK y \in Nat : y = c.exch[to] + 1
    BY <1>3
  <2>3. d = [c EXCEPT !.wallet[to] = x, !.exch[to] = y]
    BY <1>2, <2>1, <2>2
  <2> HIDE DEF to
  <2>4. to \in Addresses
    BY <1>1
  <2>5. Deposited(c, to, x, y, [c EXCEPT !.wallet[to] = x, !.exch[to] = y])
    BY <2>4, DepositType, Zenon
  <2>6. Deposited(c, to, x, y, d)
    BY <2>3, <2>5, Zenon
  <2>7. QED
    BY <2>1, <2>2, <2>6 DEF Deposited
<1>5. \A a \in Addresses : call = [op |-> "deposit", to |-> a] <=> a = to
  BY DEF CallAllowed, Calls
<1> HIDE DEF to
<1>6. \A a \in Addresses : c.wallet[a] \in Nat /\ c.exch[a] \in Nat
  BY ChainTypes
<1>7. \A a \in Addresses : /\ d.wallet[a] = IF a = to THEN c.wallet[a] - 1 ELSE c.wallet[a]
                           /\ d.exch[a] = IF a = to THEN c.exch[a] + 1 ELSE c.exch[a]
  BY <1>1, <1>4, ChainTypes
<1>8. NothingNowhere(d)
  BY <1>1, <1>4, <1>7 DEF NothingNowhere
<1>9. ASSUME NEW n \in Masters, NEW a \in Addresses
      PROVE  Holdings(d, n)[a] = Holdings(c, n)[a]
  <2>1. /\ Holdings(d, n)[a] = IF d.owner[a] = n THEN d.wallet[a] + d.exch[a] ELSE 0
        /\ Holdings(c, n)[a] = IF c.owner[a] = n THEN c.wallet[a] + c.exch[a] ELSE 0
    BY DEF Holdings
  <2>2. QED
    BY <1>4, <1>6, <1>7, <2>1
<1>10. Solvent(d)
  BY <1>4, <1>9, SameHoldings
<1>11. c.funds[m] \in Nat /\ \A n \in Masters : c.funds[n] \in Nat
  BY ChainTypes
<1>12. Grows(c, d)
  BY <1>4, <1>6, <1>7, <1>11 DEF Grows, Larger
<1>13. d.exch[call.to] > 0
  BY <1>1, <1>6, <1>7 DEF to
<1>14. QED
  BY <1>4, <1>5, <1>6, <1>7, <1>8, <1>10, <1>11, <1>12, <1>13 DEF EffectOK

LEMMA OrdersOK ==
    ASSUME NEW p \in Provisions, NEW m \in Masters, prov[p].master = m, NEW c \in Chains,
           Solvent(c), NothingNowhere(c), NEW call, CallAllowed(call, m, c), call.op = "orders",
           NEW d, d = CallEffect(call, p, c)
    PROVE  EffectOK(call, m, p, c, d)
<1> DEFINE to == call.to
<1>1. to \in Addresses
  BY DEF CallAllowed, Calls
<1>2. /\ c.owner[to] = NoOwner => d = c
      /\ c.owner[to] # NoOwner => d = [c EXCEPT !.orders[to] = @ \cup {p}]
  BY DEF CallEffect
<1>3. /\ d \in Chains /\ d.owner = c.owner /\ d.wallet = c.wallet /\ d.exch = c.exch
      /\ d.funds = c.funds /\ d.created = c.created
      /\ \A a \in Addresses : c.orders[a] \subseteq d.orders[a]
      /\ c.owner[to] # NoOwner => p \in d.orders[to]
  BY <1>1, <1>2 DEF Chains
<1> HIDE DEF to
<1>4. \A a \in Addresses : c.wallet[a] \in Nat /\ c.exch[a] \in Nat
  BY ChainTypes
<1>5. NothingNowhere(d)
  BY <1>3 DEF NothingNowhere
<1>6. ASSUME NEW n \in Masters, NEW a \in Addresses
      PROVE  Holdings(d, n)[a] = Holdings(c, n)[a]
  <2>1. /\ Holdings(d, n)[a] = IF d.owner[a] = n THEN d.wallet[a] + d.exch[a] ELSE 0
        /\ Holdings(c, n)[a] = IF c.owner[a] = n THEN c.wallet[a] + c.exch[a] ELSE 0
    BY DEF Holdings
  <2>2. QED
    BY <1>3, <2>1
<1>7. Solvent(d)
  BY <1>3, <1>6, SameHoldings
<1>8. c.funds[m] \in Nat /\ \A n \in Masters : c.funds[n] \in Nat
  BY ChainTypes
<1>9. Grows(c, d)
  BY <1>3, <1>4, <1>8 DEF Grows, Larger
<1>10. \A a \in Addresses, op \in {"create", "transfer", "deposit"} : call # [op |-> op, to |-> a]
  OBVIOUS
<1>11. QED
  BY <1>3, <1>4, <1>5, <1>7, <1>8, <1>9, <1>10 DEF EffectOK, to

LEMMA CallsAreOK ==
    ASSUME NEW p \in Provisions, NEW m \in Masters, prov[p].master = m, NEW c \in Chains,
           Solvent(c), NothingNowhere(c), NEW call, CallAllowed(call, m, c),
           NEW d, d = CallEffect(call, p, c)
    PROVE  EffectOK(call, m, p, c, d)
<1>1. call.op \in {"create", "orders", "transfer", "deposit"}
  BY DEF CallAllowed, Calls
<1>2. QED
  BY <1>1, CreateOK, TransferOK, DepositOK, OrdersOK
-----------------------------------------------------------------------------
(***************************************************************************)
(* A transaction, call by call.                                            *)
(***************************************************************************)
LEMMA GrowsFurther ==
    ASSUME NEW c \in Chains, NEW w \in Chains, NEW d \in Chains, Grows(c, w), Grows(w, d)
    PROVE  Grows(c, d)
<1>1. \A a \in Addresses : c.exch[a] \in Nat /\ w.exch[a] \in Nat /\ d.exch[a] \in Nat
  BY ChainTypes
<1>2. \A m \in Masters : c.funds[m] \in Nat /\ w.funds[m] \in Nat /\ d.funds[m] \in Nat
  BY ChainTypes
<1>3. d.created = c.created
  BY DEF Grows
<1>4. \A a \in Addresses : c.owner[a] # NoOwner => d.owner[a] = c.owner[a]
  BY DEF Grows, Larger
<1>5. \A a \in Addresses : c.orders[a] \subseteq d.orders[a]
  BY DEF Grows, Larger
<1>6. \A a \in Addresses : c.exch[a] <= d.exch[a]
  BY <1>1 DEF Grows, Larger
<1>7. \A m \in Masters : d.funds[m] <= c.funds[m]
  BY <1>2 DEF Grows, Larger
<1>8. QED
  BY <1>3, <1>4, <1>5, <1>6, <1>7 DEF Grows, Larger

(* Which bracket the call with index i is to.                              *)
SingleCall(C, b, i, x) ==
    \/ i = x /\ C[i] = [op |-> "create", to |-> b[x]]
    \/ i = Size + x /\ C[i] = [op |-> "orders", to |-> b[x]]
    \/ i = 2 * Size + (2 * x - 1) /\ C[i] = [op |-> "transfer", to |-> b[x]]
    \/ i = 2 * Size + 2 * x /\ C[i] = [op |-> "deposit", to |-> b[x]]

LEMMA SingleTo ==
    ASSUME NEW b, NEW C, Single(C, b), NEW i \in 1..(4 * Size)
    PROVE  \E x \in 1..Size : SingleCall(C, b, i, x)
<1>1. Size \in Nat
  BY ProvisionAssumption
<1>2. CASE i <= Size
  <2>1. i \in 1..Size
    BY <1>2
  <2>2. C[i] = [op |-> "create", to |-> b[i]]
    BY <2>1 DEF Single
  <2>3. QED
    BY <2>1, <2>2 DEF SingleCall
<1>3. CASE Size < i /\ i <= 2 * Size
  <2>1. PICK x \in 1..Size : i = Size + x
    <3>1. i - Size \in 1..Size /\ i = Size + (i - Size)
      BY <1>1, <1>3
    <3>2. QED
      BY <3>1
  <2>2. C[Size + x] = [op |-> "orders", to |-> b[x]]
    BY DEF Single
  <2>3. QED
    BY <2>1, <2>2 DEF SingleCall
<1>4. CASE 2 * Size < i
  <2>1. i - 2 * Size \in 1..(2 * Size)
    BY <1>1, <1>4
  <2>2. PICK x \in 1..Size : i - 2 * Size = 2 * x - 1 \/ i - 2 * Size = 2 * x
    BY <1>1, <2>1, OddOrEven
  <2>3. i = 2 * Size + (2 * x - 1) \/ i = 2 * Size + 2 * x
    BY <1>1, <2>2
  <2>4. /\ C[2 * Size + (2 * x - 1)] = [op |-> "transfer", to |-> b[x]]
        /\ C[2 * Size + 2 * x] = [op |-> "deposit", to |-> b[x]]
    BY DEF Single
  <2>5. QED
    BY <2>3, <2>4 DEF SingleCall
<1>5. i <= Size \/ (Size < i /\ i <= 2 * Size) \/ 2 * Size < i
  BY <1>1
<1>6. QED
  BY <1>2, <1>3, <1>4, <1>5

Owned(w, C, i, m) == w.owner[C[i].to] = m

LEMMA SingleOwned ==
    ASSUME NEW b, NEW C, Single(C, b), NEW n \in 0..(4 * Size - 1), NEW w, NEW m,
           \A i \in 1..n : Owned(w, C, i, m),
           C[n + 1].op # "create"
    PROVE  Owned(w, C, n + 1, m)
<1>1. Size \in Nat /\ n + 1 \in 1..(4 * Size)
  BY ProvisionAssumption
<1>2. PICK x \in 1..Size : SingleCall(C, b, n + 1, x)
  BY <1>1, SingleTo, Zenon
<1>3. C[n + 1].to = b[x] /\ x \in 1..n
  BY <1>1, <1>2 DEF SingleCall
<1>4. C[x] = [op |-> "create", to |-> b[x]]
  BY DEF Single
<1>5. QED
  BY <1>3, <1>4 DEF Owned

LEMMA SingleTransfers ==
    ASSUME NEW b, NEW C, Single(C, b), NEW n \in 0..(4 * Size - 1)
    PROVE  Transfers(n + 1) = Transfers(n) + (IF C[n + 1].op = "transfer" THEN 1 ELSE 0)
<1>1. Size \in Nat /\ n + 1 \in 1..(4 * Size)
  BY ProvisionAssumption
<1>2. PICK x \in 1..Size : SingleCall(C, b, n + 1, x)
  BY <1>1, SingleTo, Zenon
<1>3. CASE n + 1 <= 2 * Size
  BY <1>1, <1>2, <1>3 DEF Transfers, SingleCall
<1>4. CASE n + 1 = 2 * Size + (2 * x - 1)
  <2>1. Transfers(n + 1) = x
    BY <1>1, <1>4 DEF Transfers
  <2>2. Transfers(n) = x - 1
    BY <1>1, <1>4 DEF Transfers
  <2>3. C[n + 1].op = "transfer"
    BY <1>1, <1>2, <1>4 DEF SingleCall
  <2>4. QED
    BY <2>1, <2>2, <2>3
<1>5. CASE n + 1 = 2 * Size + 2 * x
  <2>1. Transfers(n + 1) = x
    BY <1>1, <1>5 DEF Transfers
  <2>2. Transfers(n) = x
    BY <1>1, <1>5 DEF Transfers
  <2>3. C[n + 1].op = "deposit"
    BY <1>1, <1>2, <1>5 DEF SingleCall
  <2>4. QED
    BY <2>1, <2>2, <2>3
<1>6. QED
  BY <1>1, <1>2, <1>3, <1>4, <1>5 DEF SingleCall

(* The transaction of e's script, whose brackets its master owns.          *)
BracketsOwned(e, c) ==
    e.kind \in {"complete", "reuse", "fund"} =>
        \A x \in DOMAIN e.brackets : e.brackets[x] \in Addresses /\ c.owner[e.brackets[x]] = e.master

LEMMA NextCall ==
    ASSUME NEW e \in ProvType, NEW C, CallsOK(e, C), NEW c \in Chains, NEW w \in Chains,
           BracketsOwned(e, c), NEW m, m = e.master, NEW p,
           NEW n \in 0..(Len(C) - 1), Progress(c, w, C, n, m),
           e.kind = "single" => SingleOK(c, w, C, n, m, p),
           CallSucceeds(C[n + 1], m, w)
    PROVE  CallAllowed(C[n + 1], m, w)
<1>1. C \in Seq(Calls) /\ Len(C) \in Nat /\ n + 1 \in 1..Len(C) /\ Paired(C)
  BY LenProperties DEF CallsOK
<1>2. C[n + 1] \in Calls
  BY <1>1, ElementOfSeq
<1>3. ASSUME C[n + 1].op \in {"transfer", "deposit"}
      PROVE  w.owner[C[n + 1].to] = m
  <2>1. CASE e.kind = "single"
    <3>1. Single(C, e.brackets) /\ Len(C) = 4 * Size
      BY <2>1 DEF CallsOK, Single
    <3>2. \A i \in 1..n : Owned(w, C, i, m)
      BY <2>1 DEF SingleOK, Owned
    <3>3. n \in 0..(4 * Size - 1)
      BY <3>1
    <3>4. C[n + 1].op # "create"
      BY <1>3
    <3>5. Owned(w, C, n + 1, m)
      BY <3>1, <3>2, <3>3, <3>4, SingleOwned, Zenon
    <3>6. QED
      BY <3>5 DEF Owned
  <2>2. CASE e.kind # "single"
    <3>1. /\ C[n + 1].op # "orders" => e.kind \in {"complete", "reuse", "fund"}
          /\ \E x \in DOMAIN e.brackets : C[n + 1].to = e.brackets[x]
      BY <1>1, <2>2 DEF CallsOK, Foreign
    <3>2. C[n + 1].to \in Addresses /\ c.owner[C[n + 1].to] = m
      BY <1>3, <3>1 DEF BracketsOwned
    <3>3. m # NoOwner
      BY ProvisionAssumption DEF ProvType
    <3>4. QED
      BY <3>2, <3>3 DEF Progress, Grows, Larger
  <2>3. QED
    BY <2>1, <2>2
<1>4. ASSUME C[n + 1].op = "deposit"
      PROVE  w.wallet[C[n + 1].to] > 0
  <2>1. n + 1 > 1 /\ C[(n + 1) - 1] = [op |-> "transfer", to |-> C[n + 1].to]
    BY <1>1, <1>4 DEF Paired
  <2>2. n > 0 /\ C[n] = [op |-> "transfer", to |-> C[n + 1].to]
    BY <2>1
  <2>3. C[n + 1].to \in Addresses
    BY <1>2 DEF Calls
  <2>4. w.wallet[C[n + 1].to] = OnTheWay(C, n, C[n + 1].to)
    BY <2>3 DEF Progress
  <2>5. QED
    BY <2>2, <2>4 DEF OnTheWay
<1>5. QED
  BY <1>2, <1>3, <1>4 DEF CallAllowed

LEMMA WalletsFollow ==
    ASSUME NEW C \in Seq(Calls), Paired(C), NEW n \in 0..(Len(C) - 1), NEW a \in Addresses
    PROVE  OnTheWay(C, n + 1, a) = OnTheWay(C, n, a)
             + (IF C[n + 1] = [op |-> "transfer", to |-> a] THEN 1 ELSE 0)
             - (IF C[n + 1] = [op |-> "deposit", to |-> a] THEN 1 ELSE 0)
<1>1. Len(C) \in Nat /\ n + 1 \in 1..Len(C) /\ (n > 0 => n \in 1..Len(C))
  BY LenProperties
<1>2. OnTheWay(C, n + 1, a) = IF C[n + 1] = [op |-> "transfer", to |-> a] THEN 1 ELSE 0
  BY <1>1 DEF OnTheWay
<1>3. OnTheWay(C, n, a) = IF C[n + 1] = [op |-> "deposit", to |-> a] THEN 1 ELSE 0
  <2>1. CASE C[n + 1] = [op |-> "deposit", to |-> a]
    <3>1. C[n + 1].op = "deposit" /\ C[n + 1].to = a
      BY <2>1
    <3>2. n + 1 > 1 /\ C[(n + 1) - 1] = [op |-> "transfer", to |-> a]
      BY <1>1, <3>1 DEF Paired
    <3>3. n > 0 /\ C[n] = [op |-> "transfer", to |-> a]
      BY <3>2
    <3>4. QED
      BY <2>1, <3>3 DEF OnTheWay
  <2>2. CASE C[n + 1] # [op |-> "deposit", to |-> a]
    <3>1. ASSUME n > 0, C[n] = [op |-> "transfer", to |-> a]
          PROVE  FALSE
      <4>1. C[n].op = "transfer" /\ C[n].to = a
        BY <3>1
      <4>2. C[n + 1] = [op |-> "deposit", to |-> a]
        BY <1>1, <3>1, <4>1 DEF Paired
      <4>3. QED
        BY <2>2, <4>2
    <3>2. QED
      BY <2>2, <3>1 DEF OnTheWay
  <2>3. QED
    BY <2>1, <2>2
<1>4. C[n + 1] = [op |-> "transfer", to |-> a] => C[n + 1] # [op |-> "deposit", to |-> a]
  OBVIOUS
<1>5. QED
  BY <1>2, <1>3, <1>4

LEMMA Proceeds ==
    ASSUME NEW C, C \in Seq(Calls), Paired(C), NEW c \in Chains, NEW w \in Chains, NEW d,
           NEW m \in Masters, NEW p,
           NEW n \in 0..(Len(C) - 1), Progress(c, w, C, n, m),
           EffectOK(C[n + 1], m, p, w, d)
    PROVE  Progress(c, d, C, n + 1, m)
<1>1. d \in Chains /\ Grows(w, d) /\ Solvent(d) /\ NothingNowhere(d)
  BY DEF EffectOK
<1>2. Grows(c, d)
  BY <1>1, GrowsFurther DEF Progress
<1>3. ASSUME NEW a \in Addresses
      PROVE  d.wallet[a] = OnTheWay(C, n + 1, a)
  <2>1. w.wallet[a] = OnTheWay(C, n, a)
    BY DEF Progress
  <2>2. OnTheWay(C, n + 1, a) = OnTheWay(C, n, a)
             + (IF C[n + 1] = [op |-> "transfer", to |-> a] THEN 1 ELSE 0)
             - (IF C[n + 1] = [op |-> "deposit", to |-> a] THEN 1 ELSE 0)
    BY WalletsFollow
  <2>3. d.wallet[a] = w.wallet[a]
             + (IF C[n + 1] = [op |-> "transfer", to |-> a] THEN 1 ELSE 0)
             - (IF C[n + 1] = [op |-> "deposit", to |-> a] THEN 1 ELSE 0)
    BY DEF EffectOK
  <2>4. QED
    BY <2>1, <2>2, <2>3
<1>4. ASSUME NEW a \in Addresses, c.owner[a] = NoOwner, d.owner[a] # NoOwner
      PROVE  d.owner[a] = m /\ \E i \in 1..(n + 1) : C[i] = [op |-> "create", to |-> a]
  <2>1. d.owner[a] = IF C[n + 1] = [op |-> "create", to |-> a] THEN m ELSE w.owner[a]
    BY DEF EffectOK
  <2>2. CASE C[n + 1] = [op |-> "create", to |-> a]
    BY <2>1, <2>2
  <2>3. CASE C[n + 1] # [op |-> "create", to |-> a]
    <3>1. w.owner[a] = m /\ \E i \in 1..n : C[i] = [op |-> "create", to |-> a]
      BY <1>4, <2>1, <2>3 DEF Progress, NewOwners
    <3>2. QED
      BY <2>1, <2>3, <3>1
  <2>4. QED
    BY <2>2, <2>3
<1>5. NewOwners(c, d, C, n + 1, m)
  BY <1>4 DEF NewOwners
<1>6. QED
  BY <1>1, <1>2, <1>3, <1>5 DEF Progress

LEMMA SingleProceeds ==
    ASSUME NEW b, NEW C, Single(C, b), NEW c \in Chains, NEW w \in Chains, NEW d,
           NEW m \in Masters, NEW p,
           NEW n \in 0..(Len(C) - 1), Progress(c, w, C, n, m), SingleOK(c, w, C, n, m, p),
           C[n + 1] \in Calls, EffectOK(C[n + 1], m, p, w, d)
    PROVE  SingleOK(c, d, C, n + 1, m, p)
<1>1. Size \in Nat /\ Len(C) = 4 * Size /\ C \in Seq(Calls) /\ n \in 0..(4 * Size - 1)
  BY ProvisionAssumption DEF Single
<1>2. \A i \in 1..n : C[i] \in Calls
  BY <1>1, ElementOfSeq
<1>3. m # NoOwner /\ d \in Chains /\ Grows(w, d)
  BY ProvisionAssumption DEF EffectOK
<1>4. ASSUME NEW i \in 1..n
      PROVE  /\ d.owner[C[i].to] = m
             /\ C[i].op = "orders" => p \in d.orders[C[i].to]
             /\ C[i].op = "deposit" => d.exch[C[i].to] > 0
  <2>1. /\ w.owner[C[i].to] = m
        /\ C[i].op = "orders" => p \in w.orders[C[i].to]
        /\ C[i].op = "deposit" => w.exch[C[i].to] > 0
    BY DEF SingleOK
  <2>2. C[i].to \in Addresses
    BY <1>2 DEF Calls
  <2>3. w.exch[C[i].to] \in Nat /\ d.exch[C[i].to] \in Nat
    BY <1>3, <2>2, ChainTypes
  <2>4. /\ d.owner[C[i].to] = w.owner[C[i].to]
        /\ w.orders[C[i].to] \subseteq d.orders[C[i].to]
        /\ w.exch[C[i].to] <= d.exch[C[i].to]
    BY <1>3, <2>1, <2>2 DEF Grows, Larger
  <2>5. QED
    BY <2>1, <2>3, <2>4
<1>5. C[n + 1].to \in Addresses
  BY DEF Calls
<1>6. ASSUME C[n + 1].op # "create"
      PROVE  w.owner[C[n + 1].to] = m
  <2>1. \A i \in 1..n : Owned(w, C, i, m)
    BY DEF SingleOK, Owned
  <2>2. Owned(w, C, n + 1, m)
    BY <1>1, <1>6, <2>1, SingleOwned, Zenon
  <2>3. QED
    BY <2>2 DEF Owned
<1>7. d.owner[C[n + 1].to] = m
  <2>1. CASE C[n + 1].op = "create"
    <3>1. C[n + 1] = [op |-> "create", to |-> C[n + 1].to]
      BY <2>1 DEF Calls
    <3>2. QED
      BY <1>5, <3>1 DEF EffectOK
  <2>2. CASE C[n + 1].op # "create"
    <3>1. w.owner[C[n + 1].to] = m
      BY <1>6, <2>2
    <3>2. QED
      BY <1>3, <1>5, <3>1 DEF Grows, Larger
  <2>3. QED
    BY <2>1, <2>2
<1>8. C[n + 1].op = "orders" => p \in d.orders[C[n + 1].to]
  <2>1. ASSUME C[n + 1].op = "orders"
        PROVE  w.owner[C[n + 1].to] = m
    BY <1>6, <2>1
  <2>2. QED
    BY <1>3, <2>1 DEF EffectOK
<1>9. C[n + 1].op = "deposit" => d.exch[C[n + 1].to] > 0
  BY DEF EffectOK
<1>10. \A i \in 1..(n + 1) : i \in 1..n \/ i = n + 1
  OBVIOUS
<1>11. c.funds[m] = d.funds[m] + Transfers(n + 1)
  <2>1. Transfers(n + 1) = Transfers(n) + (IF C[n + 1].op = "transfer" THEN 1 ELSE 0)
    BY <1>1, SingleTransfers
  <2>2. d.funds[m] = w.funds[m] - (IF C[n + 1].op = "transfer" THEN 1 ELSE 0)
    BY DEF EffectOK
  <2>3. c.funds[m] = w.funds[m] + Transfers(n)
    BY DEF SingleOK
  <2>4. w.funds[m] \in Nat
    BY ChainTypes
  <2>5. Transfers(n) \in Int
    BY <1>1 DEF Transfers
  <2>6. QED
    BY <2>1, <2>2, <2>3, <2>4, <2>5
<1>12. QED
  BY <1>4, <1>7, <1>8, <1>9, <1>10, <1>11 DEF SingleOK
-----------------------------------------------------------------------------
(***************************************************************************)
(* The transaction that runs.                                              *)
(***************************************************************************)
LEMMA VMTypes ==
    ASSUME TypeOK
    PROVE  /\ vm.mode \in {"idle", "estimate", "execute"}
           /\ vm.tx \in Transactions /\ vm.tx[1] \in Provisions /\ vm.tx[2] \in {1, 2}
           /\ vm.tx = <<vm.tx[1], vm.tx[2]>>
           /\ vm.calls \in Seq(Calls) /\ vm.work \in Chains /\ chain \in Chains
           /\ prov[vm.tx[1]] \in ProvType
BY DEF TypeOK, Transactions, ProvType

LEMMA RunningFacts ==
    ASSUME IInv, vm.mode # "idle", NEW p, p = vm.tx[1]
    PROVE  /\ prov[p].pc # "idle" /\ ProvOK(p, prov[p])
           /\ CallsOK(prov[p], CallsOf(vm.tx)) /\ BracketsOwned(prov[p], chain)
           /\ prov[p].kind = "single" => vm.tx = <<p, 1>>
<1>1. /\ vm.mode \in {"estimate", "execute"} /\ p \in Provisions /\ vm.tx[2] \in {1, 2}
      /\ vm.tx = <<p, vm.tx[2]>> /\ prov[p] \in ProvType
  BY VMTypes DEF IInv
<1>2. ProvOK(p, prov[p])
  BY <1>1 DEF IInv, ProvsOK
<1>3. \/ vm.tx[2] = prov[p].step /\ prov[p].pc = "send"
      \/ status[<<p, vm.tx[2]>>] = "pending"
  <2>1. vm.mode = "estimate" => vm.tx = <<p, prov[p].step>> /\ prov[p].pc = "send"
    BY DEF IInv, VMOK
  <2>2. vm.mode = "execute" => status[vm.tx] = "pending"
    BY DEF IInv, VMOK
  <2>3. vm.tx = <<p, prov[p].step>> => vm.tx[2] = prov[p].step
    OBVIOUS
  <2>4. QED
    BY <1>1, <2>1, <2>2, <2>3
<1>4. prov[p].pc = "send" \/ ~Unsent(p, 1) \/ ~Unsent(p, 2)
  BY <1>1, <1>3 DEF Unsent
<1>5. prov[p].pc # "idle"
  BY <1>2, <1>4 DEF ProvOK
<1>6. CallsOK(prov[p], CallsOf(<<p, vm.tx[2]>>))
  BY <1>1, <1>2, <1>5, AllCallsOK
<1>7. BracketsOwned(prov[p], chain)
  <2>1. ASSUME NEW x \in DOMAIN prov[p].brackets
        PROVE  prov[p].brackets[x] \in Addresses
    <3>1. prov[p].brackets \in Seq(Addresses)
      BY <1>1 DEF ProvType
    <3>2. QED
      BY <3>1
  <2>2. prov[p].kind \in {"complete", "reuse", "fund"} => OwnsBrackets(prov[p])
    BY <1>2, <1>4 DEF ProvOK
  <2>3. QED
    BY <2>1, <2>2 DEF BracketsOwned, OwnsBrackets
<1>8. prov[p].kind = "single" => vm.tx[2] = 1
  BY <1>1, <1>2, <1>3 DEF ProvOK, Unsent
<1>9. QED
  BY <1>1, <1>2, <1>5, <1>6, <1>7, <1>8

(* What only the transaction that runs can change.                         *)
LEMMA OnlyTheVM ==
    ASSUME IInv, UNCHANGED <<prov, status, chain>>, TypeOK', VMOK'
    PROVE  IInv'
<1>1. ProvsOK'
  <2>1. ASSUME NEW p \in Provisions
        PROVE  ProvOK(p, prov[p])'
    <3>1. ProvOK(p, prov[p])
      BY DEF IInv, ProvsOK
    <3>2. OwnsBrackets(prov[p])' <=> OwnsBrackets(prov[p])
      BY DEF OwnsBrackets
    <3>3. Fleet(prov[p])' = Fleet(prov[p])
      BY DEF Fleet
    <3>4. /\ Unsent(p, 1)' <=> Unsent(p, 1)
          /\ Unsent(p, 2)' <=> Unsent(p, 2)
          /\ Unsent(p, prov[p].step)' <=> Unsent(p, prov[p].step)
      BY DEF Unsent
    <3>5. QED
      BY <3>1, <3>2, <3>3, <3>4 DEF ProvOK
  <2>2. QED
    BY <2>1 DEF ProvsOK
<1>2. ChainOK'
  <2>1. ChainOK
    BY DEF IInv
  <2>2. FactoryOK'
    BY <2>1 DEF ChainOK, FactoryOK, WithFleet
  <2>3. FleetsOK'
    BY <2>1 DEF ChainOK, FleetsOK, DeployedBy
  <2>4. QED
    BY <2>1, <2>2, <2>3 DEF ChainOK
<1>3. ProvisionIsWhole'
  <2>1. ProvisionIsWhole
    BY DEF IInv
  <2>2. QED
    BY <2>1 DEF ProvisionIsWhole
<1>4. FailsByOwnDoingOnly'
  <2>1. FailsByOwnDoingOnly
    BY DEF IInv
  <2>2. QED
    BY <2>1 DEF FailsByOwnDoingOnly
<1>5. QED
  BY <1>1, <1>2, <1>3, <1>4 DEF IInv

LEMMA CallsStay ==
    ASSUME prov' = prov, vm'.tx = vm.tx
    PROVE  CallsOf(vm.tx)' = CallsOf(vm.tx)
BY DEF CallsOf, Creations, PlaceOrders, MoveFunds, SaltOf

LEMMA RunCallKeepsIInv ==
    ASSUME IInv, RunCall
    PROVE  IInv'
<1>1. PICK p : p = vm.tx[1]
  OBVIOUS
<1>2. PICK C : C = CallsOf(vm.tx)
  OBVIOUS
<1>3. PICK m : m = prov[p].master
  OBVIOUS
<1>4. /\ p \in Provisions /\ m \in Masters /\ vm.calls \in Seq(Calls) /\ vm.work \in Chains
      /\ chain \in Chains /\ prov[p] \in ProvType
  BY <1>1, <1>3, VMTypes DEF IInv, ProvType
<1>5. vm.mode # "idle" /\ vm.calls # <<>>
  BY DEF RunCall
<1>6. CallsOK(prov[p], C) /\ BracketsOwned(prov[p], chain)
  BY <1>1, <1>2, <1>5, RunningFacts
<1>7. C \in Seq(Calls) /\ Len(C) \in Nat /\ Paired(C)
  BY <1>6, LenProperties DEF CallsOK
<1>8. PICK n \in 0..Len(C) : Running(C, n, p)
  BY <1>1, <1>2, <1>5 DEF IInv, VMOK
<1>9. /\ Rest(vm.calls, C, n) /\ Progress(chain, vm.work, C, n, m)
      /\ prov[p].kind = "single" => SingleOK(chain, vm.work, C, n, m, p)
  BY <1>3, <1>8 DEF Running
<1>10. n \in 0..(Len(C) - 1) /\ Head(vm.calls) = C[n + 1] /\ C[n + 1] \in Calls
  <2>1. Len(vm.calls) \in Nat /\ Len(vm.calls) > 0 /\ Head(vm.calls) = vm.calls[1]
    BY <1>4, <1>5, LenProperties, EmptySeq, HeadTailProperties
  <2>2. Len(vm.calls) = Len(C) - n /\ \A i \in 1..Len(vm.calls) : vm.calls[i] = C[n + i]
    BY <1>9 DEF Rest
  <2>3. n \in 0..(Len(C) - 1) /\ n + 1 \in 1..Len(C) /\ 1 \in 1..Len(vm.calls)
    BY <1>7, <2>1, <2>2
  <2>4. QED
    BY <1>7, <2>1, <2>2, <2>3, ElementOfSeq
<1>11. PICK d : d = CallEffect(C[n + 1], p, vm.work)
  OBVIOUS
<1>12. CallSucceeds(C[n + 1], m, vm.work)
  BY <1>1, <1>3, <1>10 DEF RunCall, Master
<1>13. CallAllowed(C[n + 1], m, vm.work)
  BY <1>3, <1>4, <1>6, <1>9, <1>10, <1>12, NextCall
<1>14. Solvent(vm.work) /\ NothingNowhere(vm.work)
  BY <1>9 DEF Progress
<1>15. EffectOK(C[n + 1], m, p, vm.work, d)
  BY <1>3, <1>4, <1>11, <1>13, <1>14, CallsAreOK
<1>16. Progress(chain, d, C, n + 1, m)
  BY <1>4, <1>7, <1>9, <1>10, <1>15, Proceeds
<1>17. prov[p].kind = "single" => SingleOK(chain, d, C, n + 1, m, p)
  BY <1>4, <1>6, <1>9, <1>10, <1>15, SingleProceeds DEF CallsOK
<1>18. d \in Chains
  BY <1>15 DEF EffectOK
<1>19. /\ vm'.mode = vm.mode /\ vm'.tx = vm.tx /\ vm'.calls = Tail(vm.calls) /\ vm'.work = d
       /\ TypeOK'
  <2>1. Tail(vm.calls) \in Seq(Calls)
    BY <1>4, <1>5
  <2>2. vm' = [vm EXCEPT !.calls = Tail(vm.calls), !.work = d]
    BY <1>1, <1>10, <1>11 DEF RunCall
  <2>3. QED
    BY <1>18, <2>1, <2>2 DEF IInv, TypeOK, RunCall
<1>20. Rest(Tail(vm.calls), C, n + 1)
  <2>1. /\ Len(vm.calls) = Len(C) - n /\ \A i \in 1..Len(vm.calls) : vm.calls[i] = C[n + i]
    BY <1>9 DEF Rest
  <2>2. /\ Len(Tail(vm.calls)) = Len(vm.calls) - 1
        /\ \A i \in 1..Len(Tail(vm.calls)) : Tail(vm.calls)[i] = vm.calls[i + 1]
    BY <1>4, <1>5, HeadTailProperties
  <2>3. ASSUME NEW i \in 1..Len(Tail(vm.calls))
        PROVE  Tail(vm.calls)[i] = C[n + 1 + i]
    <3>1. i + 1 \in 1..Len(vm.calls) /\ n + (i + 1) = n + 1 + i
      BY <1>7, <1>10, <2>1, <2>2
    <3>2. QED
      BY <2>1, <2>2, <3>1
  <2>4. Len(Tail(vm.calls)) = Len(C) - (n + 1)
    BY <1>7, <1>10, <2>1, <2>2
  <2>5. QED
    BY <2>3, <2>4 DEF Rest
<1>21. UNCHANGED <<prov, status, chain>>
  BY DEF RunCall
<1>22. Running(C, n + 1, p)'
  BY <1>3, <1>16, <1>17, <1>19, <1>20, <1>21 DEF Running
<1>23. CallsOf(vm.tx)' = C
  BY <1>2, <1>19, <1>21, CallsStay
<1>24. VMOK'
  <2>1. n + 1 \in 0..Len(C)
    BY <1>7, <1>10
  <2>2. vm'.mode # "idle" /\ vm'.tx[1] = p
    BY <1>1, <1>5, <1>19
  <2>3. \E k \in 0..Len(CallsOf(vm.tx)') : Running(CallsOf(vm.tx), k, vm.tx[1])'
    BY <1>22, <1>23, <2>1, <2>2
  <2>4. vm'.mode = "estimate" =>
           vm'.tx = <<vm'.tx[1], prov'[vm'.tx[1]].step>> /\ prov'[vm'.tx[1]].pc = "send"
    BY <1>19, <1>21 DEF IInv, VMOK
  <2>5. vm'.mode = "execute" => status'[vm'.tx] = "pending"
    BY <1>19, <1>21 DEF IInv, VMOK
  <2>6. QED
    BY <2>2, <2>3, <2>4, <2>5 DEF VMOK
<1>25. QED
  BY <1>19, <1>21, <1>24, OnlyTheVM

LEMMA LoadKeepsIInv ==
    ASSUME IInv, NEW mode \in {"estimate", "execute"}, NEW p \in Provisions, NEW k \in {1, 2},
           Load(mode, <<p, k>>), prov[p].pc # "idle",
           mode = "estimate" => k = prov[p].step /\ prov[p].pc = "send",
           mode = "execute" => status[<<p, k>>] = "pending"
    PROVE  IInv'
<1>1. prov[p] \in ProvType /\ chain \in Chains /\ ProvOK(p, prov[p]) /\ prov[p].master \in Masters
  BY DEF IInv, TypeOK, ProvType, ProvsOK
<1>2. PICK C : C = CallsOf(<<p, k>>)
  OBVIOUS
<1>3. C \in Seq(Calls) /\ Len(C) \in Nat
  BY <1>1, <1>2, AllCallsOK, LenProperties DEF CallsOK
<1>4. /\ vm'.mode = mode /\ vm'.tx = <<p, k>> /\ vm'.calls = C /\ vm'.work = chain
      /\ UNCHANGED <<prov, status, chain>>
  BY <1>2 DEF Load
<1>5. TypeOK'
  <2>1. <<p, k>> \in Transactions
    BY DEF Transactions
  <2>2. vm' \in [mode : {"idle", "estimate", "execute"}, tx : Transactions,
                 calls : Seq(Calls), work : Chains]
    BY <1>1, <1>2, <1>3, <2>1 DEF Load
  <2>3. QED
    BY <1>4, <2>2 DEF IInv, TypeOK
<1>6. Rest(C, C, 0)
  BY <1>3 DEF Rest
<1>7. Progress(chain, chain, C, 0, prov[p].master)
  <2>1. /\ Solvent(chain) /\ NothingNowhere(chain) /\ \A a \in Addresses : chain.wallet[a] = 0
    BY DEF IInv, ChainOK
  <2>2. /\ \A a \in Addresses : chain.exch[a] \in Nat
        /\ \A m \in Masters : chain.funds[m] \in Nat
    BY <1>1, ChainTypes
  <2>3. Grows(chain, chain)
    BY <2>2 DEF Grows, Larger
  <2>4. NewOwners(chain, chain, C, 0, prov[p].master)
    BY DEF NewOwners
  <2>5. \A a \in Addresses : OnTheWay(C, 0, a) = 0
    BY DEF OnTheWay
  <2>6. QED
    BY <2>1, <2>3, <2>4, <2>5 DEF Progress
<1>8. SingleOK(chain, chain, C, 0, prov[p].master, p)
  <2>1. chain.funds[prov[p].master] \in Nat /\ Size \in Nat
    BY <1>1, ChainTypes, ProvisionAssumption
  <2>2. Transfers(0) = 0
    BY <2>1 DEF Transfers
  <2>3. QED
    BY <2>1, <2>2 DEF SingleOK
<1>9. Running(C, 0, p)'
  BY <1>4, <1>6, <1>7, <1>8 DEF Running
<1>10. CallsOf(vm.tx)' = C
  <2>1. CallsOf(<<p, k>>)' = CallsOf(<<p, k>>)
    BY <1>4 DEF CallsOf, Creations, PlaceOrders, MoveFunds, SaltOf
  <2>2. QED
    BY <1>2, <1>4, <2>1
<1>11. VMOK'
  <2>1. \E n \in 0..Len(CallsOf(vm.tx)') : Running(CallsOf(vm.tx), n, vm.tx[1])'
    <3>1. 0 \in 0..Len(C) /\ vm'.tx[1] = p
      BY <1>3, <1>4
    <3>2. QED
      BY <1>9, <1>10, <3>1
  <2>2. vm'.mode = "estimate" =>
           vm'.tx = <<vm'.tx[1], prov'[vm'.tx[1]].step>> /\ prov'[vm'.tx[1]].pc = "send"
    BY <1>4
  <2>3. vm'.mode = "execute" => status'[vm'.tx] = "pending"
    BY <1>4
  <2>4. QED
    BY <1>4, <2>1, <2>2, <2>3 DEF VMOK
<1>12. QED
  BY <1>4, <1>5, <1>11, OnlyTheVM

LEMMA StartEstimateKeepsIInv ==
    ASSUME IInv, NEW p \in Provisions, StartEstimate(p)
    PROVE  IInv'
<1>1. prov[p].step \in {1, 2} /\ prov[p].pc = "send" /\ Load("estimate", <<p, prov[p].step>>)
  BY DEF StartEstimate, IInv, TypeOK
<1>2. QED
  BY <1>1, LoadKeepsIInv

LEMMA StartExecuteKeepsIInv ==
    ASSUME IInv, NEW tx \in Transactions, StartExecute(tx)
    PROVE  IInv'
<1>1. PICK p \in Provisions, k \in {1, 2} : tx = <<p, k>>
  BY DEF Transactions
<1>2. status[<<p, k>>] = "pending" /\ Load("execute", <<p, k>>)
  BY <1>1 DEF StartExecute
<1>3. ProvOK(p, prov[p])
  BY DEF IInv, ProvsOK
<1>4. prov[p].pc # "idle"
  BY <1>2, <1>3 DEF ProvOK, Unsent
<1>5. QED
  BY <1>2, <1>4, LoadKeepsIInv
-----------------------------------------------------------------------------
(***************************************************************************)
(* The steps after which nothing runs.                                     *)
(***************************************************************************)
SameArgs(d, e) ==
    d.kind = e.kind /\ d.master = e.master /\ d.nonce = e.nonce /\ d.brackets = e.brackets

Settled(q) == status[<<q, 1>>] \in {"ok", "failed"}

Kept(q) == Settled(q) => status'[<<q, 1>>] = status[<<q, 1>>] /\ SameArgs(prov[q], prov'[q])

(* The two properties of a provision, for one run of a script.             *)
Whole(q) ==
    prov[q].kind = "single" /\ status[<<q, 1>>] = "ok" =>
        \A i \in DOMAIN prov[q].brackets :
            LET a == prov[q].brackets[i]
            IN  chain.owner[a] = prov[q].master /\ q \in chain.orders[a] /\ chain.exch[a] > 0

OwnDoing(p) ==
    prov[p].kind = "single" /\ status[<<p, 1>>] = "failed" =>
        \/ chain.funds[prov[p].master] < Size
        \/ \E q \in Provisions \ {p} :
              /\ prov[q].kind = "single" /\ status[<<q, 1>>] = "ok"
              /\ prov[q].master = prov[p].master /\ prov[q].nonce = prov[p].nonce

LEMMA WholeKept ==
    ASSUME TypeOK, TypeOK', NEW q \in Provisions, Whole(q), Settled(q), Kept(q), Larger(chain, chain')
    PROVE  Whole(q)'
<1>1. status'[<<q, 1>>] = status[<<q, 1>>] /\ SameArgs(prov[q], prov'[q])
  BY DEF Kept
<1>2. ASSUME prov'[q].kind = "single", status'[<<q, 1>>] = "ok", NEW i \in DOMAIN prov'[q].brackets,
             NEW a, a = prov'[q].brackets[i]
      PROVE  chain'.owner[a] = prov'[q].master /\ q \in chain'.orders[a] /\ chain'.exch[a] > 0
  <2>1. /\ prov[q].kind = "single" /\ status[<<q, 1>>] = "ok" /\ i \in DOMAIN prov[q].brackets
        /\ a = prov[q].brackets[i] /\ prov[q].master = prov'[q].master
    BY <1>1, <1>2 DEF SameArgs
  <2>2. chain.owner[a] = prov[q].master /\ q \in chain.orders[a] /\ chain.exch[a] > 0
    BY <2>1 DEF Whole
  <2>3. prov[q].brackets \in Seq(Addresses) /\ prov[q].master \in Masters
    BY DEF TypeOK
  <2>4. a \in Addresses /\ prov[q].master # NoOwner
    BY <2>1, <2>3, ProvisionAssumption
  <2>5. chain.exch[a] \in Nat /\ chain'.exch[a] \in Nat
    BY <2>4 DEF TypeOK, Chains
  <2>6. QED
    BY <2>1, <2>2, <2>4, <2>5 DEF Larger
<1>3. QED
  BY <1>2 DEF Whole

LEMMA OwnDoingKept ==
    ASSUME TypeOK, TypeOK', NEW p \in Provisions, OwnDoing(p), Settled(p), Larger(chain, chain'),
           \A q \in Provisions : Kept(q)
    PROVE  OwnDoing(p)'
<1>1. status'[<<p, 1>>] = status[<<p, 1>>] /\ SameArgs(prov[p], prov'[p])
  BY DEF Kept
<1>2. ASSUME prov'[p].kind = "single", status'[<<p, 1>>] = "failed"
      PROVE  \/ chain'.funds[prov'[p].master] < Size
             \/ \E q \in Provisions \ {p} :
                  /\ prov'[q].kind = "single" /\ status'[<<q, 1>>] = "ok"
                  /\ prov'[q].master = prov'[p].master /\ prov'[q].nonce = prov'[p].nonce
  <2>1. /\ prov[p].kind = "single" /\ status[<<p, 1>>] = "failed"
        /\ prov[p].master = prov'[p].master /\ prov[p].nonce = prov'[p].nonce
        /\ prov[p].master \in Masters /\ Size \in Nat
    BY <1>1, <1>2, ProvisionAssumption DEF SameArgs, TypeOK
  <2>2. CASE chain.funds[prov[p].master] < Size
    <3>1. chain.funds[prov[p].master] \in Nat /\ chain'.funds[prov[p].master] \in Nat
      BY <2>1 DEF TypeOK, Chains
    <3>2. chain'.funds[prov[p].master] <= chain.funds[prov[p].master]
      BY <2>1 DEF Larger
    <3>3. QED
      BY <2>1, <2>2, <3>1, <3>2
  <2>3. ASSUME NEW q \in Provisions \ {p},
               prov[q].kind = "single", status[<<q, 1>>] = "ok",
               prov[q].master = prov[p].master, prov[q].nonce = prov[p].nonce
        PROVE  /\ prov'[q].kind = "single" /\ status'[<<q, 1>>] = "ok"
               /\ prov'[q].master = prov'[p].master /\ prov'[q].nonce = prov'[p].nonce
    BY <2>1, <2>3 DEF Kept, Settled, SameArgs
  <2>4. QED
    BY <2>1, <2>2, <2>3 DEF OwnDoing
<1>3. QED
  BY <1>2 DEF OwnDoing

LEMMA NothingRuns ==
    ASSUME IInv, TypeOK', ProvsOK', ChainOK', vm' = IdleVM(chain'), Larger(chain, chain'),
           \A q \in Provisions : Kept(q),
           \A q \in Provisions : Settled(q)' => Settled(q) \/ (Whole(q)' /\ OwnDoing(q)')
    PROVE  IInv'
<1>1. VMOK'
  BY DEF VMOK, IdleVM
<1>2. ASSUME NEW q \in Provisions
      PROVE  Whole(q)' /\ OwnDoing(q)'
  <2>1. CASE ~Settled(q)'
    BY <2>1 DEF Settled, Whole, OwnDoing
  <2>2. CASE Settled(q)
    <3>1. Whole(q) /\ OwnDoing(q)
      BY DEF IInv, ProvisionIsWhole, FailsByOwnDoingOnly, Whole, OwnDoing
    <3>2. QED
      BY <2>2, <3>1, WholeKept, OwnDoingKept DEF IInv
  <2>3. QED
    BY <2>1, <2>2
<1>3. ProvisionIsWhole' /\ FailsByOwnDoingOnly'
  BY <1>2 DEF ProvisionIsWhole, FailsByOwnDoingOnly, Whole, OwnDoing
<1>4. QED
  BY <1>1, <1>3 DEF IInv

(* The chain does not change: what is known of it does not either.         *)
LEMMA ChainKept ==
    ASSUME IInv, UNCHANGED chain, \A q \in Provisions : Kept(q), WithFleet' = WithFleet
    PROVE  ChainOK' /\ Larger(chain, chain')
<1>1. ChainOK /\ chain \in Chains
  BY DEF IInv, TypeOK
<1>2. FactoryOK'
  BY <1>1 DEF ChainOK, FactoryOK
<1>3. ASSUME NEW q \in Provisions, NEW a \in Addresses, DeployedBy(q, a)
      PROVE  DeployedBy(q, a)'
  BY <1>3 DEF DeployedBy, Kept, Settled, SameArgs
<1>4. FleetsOK'
  BY <1>1, <1>3 DEF ChainOK, FleetsOK
<1>5. Larger(chain, chain)
  BY <1>1, ChainTypes DEF Larger
<1>6. QED
  BY <1>1, <1>2, <1>4, <1>5 DEF ChainOK

LEMMA ProvKept ==
    ASSUME NEW p \in Provisions, NEW e, e.master \in Masters, ProvOK(p, e), Larger(chain, chain'),
           e.brackets \in Seq(Addresses),
           Unsent(p, 1)' <=> Unsent(p, 1), Unsent(p, 2)' <=> Unsent(p, 2), e.step \in {1, 2}
    PROVE  ProvOK(p, e)'
<1>1. e.master # NoOwner /\ \A i \in DOMAIN e.brackets : e.brackets[i] \in Addresses
  BY ProvisionAssumption
<1>2. OwnsBrackets(e) => OwnsBrackets(e)'
  BY <1>1 DEF OwnsBrackets, Larger
<1>3. Unsent(p, e.step)' <=> Unsent(p, e.step)
  OBVIOUS
<1>4. QED
  BY <1>2, <1>3 DEF ProvOK, Fleet

LEMMA IdleVMType ==
    ASSUME NEW c \in Chains
    PROVE  IdleVM(c) \in [mode : {"idle", "estimate", "execute"}, tx : Transactions,
                          calls : Seq(Calls), work : Chains]
<1>1. \E tx \in Transactions : TRUE
  <2>1. PICK p \in Provisions : TRUE
    BY ProvisionAssumption
  <2>2. <<p, 1>> \in Transactions
    BY DEF Transactions
  <2>3. QED
    BY <2>2
<1>2. (CHOOSE tx \in Transactions : TRUE) \in Transactions
  BY <1>1
<1>3. <<>> \in Seq(Calls)
  BY EmptySeq
<1>4. QED
  BY <1>2, <1>3 DEF IdleVM

(* A step of a script that changes neither the chain nor a transaction.    *)
LEMMA ScriptStep ==
    ASSUME IInv, NEW p \in Provisions, NEW e \in ProvType, ProvOK(p, e),
           prov' = [prov EXCEPT ![p] = e], UNCHANGED <<status, chain>>, vm' = IdleVM(chain),
           \/ SameArgs(prov[p], e)
           \/ Unsent(p, 1) /\ prov[p].kind = "single" /\ (e.kind = "complete" => e.brackets = <<>>)
    PROVE  IInv'
<1>1. TypeOK /\ ProvsOK /\ chain \in Chains
  BY DEF IInv, TypeOK
<1>2. prov \in [Provisions -> ProvType]
  BY <1>1 DEF TypeOK, ProvType
<1>3. \A q \in Provisions : prov'[q] = IF q = p THEN e ELSE prov[q]
  BY <1>2
<1>4. TypeOK'
  <2>1. prov' \in [Provisions -> ProvType]
    BY <1>2
  <2>2. QED
    BY <1>1, <2>1, IdleVMType DEF TypeOK, ProvType
<1>5. \A q \in Provisions : Kept(q)
  <2>1. ASSUME NEW q \in Provisions, Settled(q)
        PROVE  SameArgs(prov[q], prov'[q])
    BY <1>3, <2>1 DEF Settled, Unsent, SameArgs
  <2>2. QED
    BY <2>1 DEF Kept
<1>6. WithFleet' = WithFleet
  <2>1. (e.kind = "complete" /\ e.brackets # <<>>)
          <=> (prov[p].kind = "complete" /\ prov[p].brackets # <<>>)
    BY DEF SameArgs
  <2>2. ASSUME NEW q \in Provisions
        PROVE  (prov'[q].kind = "complete" /\ prov'[q].brackets # <<>>)
          <=> (prov[q].kind = "complete" /\ prov[q].brackets # <<>>)
    BY <1>3, <2>1
  <2>3. QED
    BY <2>2 DEF WithFleet
<1>7. ChainOK' /\ Larger(chain, chain')
  BY <1>5, <1>6, ChainKept
<1>8. ProvsOK'
  <2>1. ASSUME NEW q \in Provisions, NEW f, f = prov'[q]
        PROVE  ProvOK(q, f)'
    <3>1. ProvOK(q, f) /\ f \in ProvType
      BY <1>1, <1>2, <1>3, <2>1 DEF ProvsOK
    <3>2. f.master \in Masters /\ f.brackets \in Seq(Addresses) /\ f.step \in {1, 2}
      BY <3>1 DEF ProvType
    <3>3. Unsent(q, 1)' = Unsent(q, 1) /\ Unsent(q, 2)' = Unsent(q, 2)
      BY DEF Unsent
    <3>4. QED
      BY <1>7, <3>1, <3>2, <3>3, ProvKept
  <2>2. QED
    BY <2>1 DEF ProvsOK
<1>9. \A q \in Provisions : Settled(q)' => Settled(q)
  BY DEF Settled
<1>10. QED
  BY <1>4, <1>5, <1>7, <1>8, <1>9, NothingRuns

LEMMA BeginKeepsIInv ==
    ASSUME IInv, NEW p \in Provisions, NEW kind \in AllKinds, NEW m \in Masters, NEW n \in Nonces,
           NEW brackets \in Seq(Addresses), NEW pc \in {"check", "deploy", "send"},
           Begin(p, kind, m, n, brackets, pc),
           kind = "single" => /\ pc = "send"
                              /\ brackets = [i \in 1..Size |-> DeployedAt(UniqueNonce(m, n), i - 1)],
           kind = "complete" => pc = "deploy" /\ brackets = <<>>,
           kind \in {"reuse", "fund"} => pc = "check",
           kind = "orders" => pc = "send"
    PROVE  IInv'
<1>1. prov \in [Provisions -> ProvType] /\ prov[p].pc = "idle" /\ ProvOK(p, prov[p])
      /\ vm = IdleVM(chain)
  BY DEF IInv, TypeOK, ProvType, ProvsOK, Begin, VMOK
<1>2. prov[p].step = 1 /\ prov[p].kind = "single" /\ Unsent(p, 1) /\ Unsent(p, 2)
  BY <1>1 DEF ProvOK
<1>3. PICK e : e = [prov[p] EXCEPT !.pc = pc, !.kind = kind, !.master = m, !.nonce = n,
                                   !.brackets = brackets]
  OBVIOUS
<1>4. /\ e \in ProvType /\ e.pc = pc /\ e.kind = kind /\ e.master = m
      /\ e.nonce = n /\ e.brackets = brackets /\ e.step = 1
  <2>1. prov[p] \in ProvType
    BY <1>1
  <2>2. QED
    BY <1>2, <1>3, <2>1 DEF ProvType
<1>5. prov' = [prov EXCEPT ![p] = e]
  BY <1>3 DEF Begin
<1>6. ProvOK(p, e)
  BY <1>2, <1>4 DEF ProvOK, Fleet, AllKinds
<1>7. UNCHANGED <<status, chain>> /\ vm' = IdleVM(chain)
  BY <1>1 DEF Begin
<1>8. e.kind = "complete" => e.brackets = <<>>
  BY <1>4
<1>9. QED
  BY <1>2, <1>4, <1>5, <1>6, <1>7, <1>8, ScriptStep

LEMMA CheckKeepsIInv ==
    ASSUME IInv, NEW p \in Provisions, Check(p)
    PROVE  IInv'
<1>1. prov \in [Provisions -> ProvType] /\ prov[p].pc = "check" /\ ProvOK(p, prov[p])
      /\ vm = IdleVM(chain)
  BY DEF IInv, TypeOK, ProvType, ProvsOK, Check, VMOK
<1>2. PICK e : e = [prov[p] EXCEPT !.pc = "send"]
  OBVIOUS
<1>3. prov[p] \in ProvType
  BY <1>1
<1>4. /\ e \in ProvType /\ e.pc = "send" /\ e.kind = prov[p].kind /\ e.master = prov[p].master
      /\ e.nonce = prov[p].nonce /\ e.brackets = prov[p].brackets /\ e.step = prov[p].step
  BY <1>2, <1>3 DEF ProvType
<1>5. OwnsBrackets(e)
  BY <1>4 DEF Check, OnlyFleetOwner, OwnsBrackets
<1>6. ProvOK(p, e)
  BY <1>1, <1>4, <1>5 DEF ProvOK, Fleet
<1>7. /\ UNCHANGED <<status, chain>> /\ vm' = IdleVM(chain) /\ prov' = [prov EXCEPT ![p] = e]
  BY <1>1, <1>2 DEF Check
<1>8. SameArgs(prov[p], e)
  BY <1>4 DEF SameArgs
<1>9. QED
  BY <1>4, <1>6, <1>7, <1>8, ScriptStep

(* A script that ends, for whatever reason.                                *)
LEMMA EndKeepsIInv ==
    ASSUME IInv, NEW p \in Provisions, prov[p].pc \in {"check", "deploy", "send"},
           prov' = [prov EXCEPT ![p].pc = "done"], UNCHANGED <<status, chain>>,
           vm' = IdleVM(chain)
    PROVE  IInv'
<1>1. prov \in [Provisions -> ProvType] /\ ProvOK(p, prov[p])
  BY DEF IInv, TypeOK, ProvType, ProvsOK
<1>2. PICK e : e = [prov[p] EXCEPT !.pc = "done"]
  OBVIOUS
<1>3. prov[p] \in ProvType
  BY <1>1
<1>4. /\ e \in ProvType /\ e.pc = "done" /\ e.kind = prov[p].kind /\ e.master = prov[p].master
      /\ e.nonce = prov[p].nonce /\ e.brackets = prov[p].brackets /\ e.step = prov[p].step
  BY <1>2, <1>3 DEF ProvType
<1>5. OwnsBrackets(e) <=> OwnsBrackets(prov[p])
  BY <1>4 DEF OwnsBrackets
<1>6. ProvOK(p, e)
  BY <1>1, <1>4, <1>5 DEF ProvOK, Fleet
<1>7. prov' = [prov EXCEPT ![p] = e]
  BY <1>2
<1>8. SameArgs(prov[p], e)
  BY <1>4 DEF SameArgs
<1>9. QED
  BY <1>4, <1>6, <1>7, <1>8, ScriptStep

LEMMA GiveUpKeepsIInv ==
    ASSUME IInv, NEW p \in Provisions, GiveUp(p)
    PROVE  IInv'
<1>1. vm = IdleVM(chain)
  BY DEF IInv, VMOK, GiveUp
<1>2. QED
  BY <1>1, EndKeepsIInv DEF GiveUp

LEMMA InitIInv ==
    ASSUME Init
    PROVE  IInv
<1>1. Masters # {} /\ Nonces # {} /\ Funds \in Nat /\ NoOwner \notin Masters /\ Size \in Nat
  BY ProvisionAssumption
<1>2. (CHOOSE m \in Masters : TRUE) \in Masters /\ (CHOOSE n \in Nonces : TRUE) \in Nonces
  BY <1>1
<1>3. chain \in Chains
  BY <1>1 DEF Init, Chains
<1>4. TypeOK
  <2>1. <<>> \in Seq(Addresses)
    BY EmptySeq
  <2>2. prov \in [Provisions -> [pc : {"idle", "check", "deploy", "send", "done"},
                                kind : AllKinds, master : Masters, nonce : Nonces,
                                brackets : Seq(Addresses), step : {1, 2}]]
    BY <1>2, <2>1 DEF Init, AllKinds
  <2>3. status \in [Transactions -> {"none", "pending", "ok", "failed"}]
    BY DEF Init
  <2>4. QED
    BY <1>3, <2>2, <2>3, IdleVMType DEF Init, TypeOK
<1>5. ProvsOK
  BY DEF Init, ProvsOK, ProvOK, Unsent, Transactions
<1>6. WithFleet = {}
  BY DEF Init, WithFleet
<1>7. ChainOK
  <2>1. ASSUME NEW m \in Masters
        PROVE  chain.funds[m] + SumFunctionOnSet(Holdings(chain, m), Addresses) = Funds
    <3>1. \A a \in Addresses : Holdings(chain, m)[a] = 0
      BY DEF Init, Holdings
    <3>2. SumFunctionOnSet(Holdings(chain, m), Addresses) = 0
      BY <3>1, AddressesAreFinite, SumZero
    <3>3. chain.funds[m] = Funds
      BY DEF Init
    <3>4. QED
      BY <1>1, <3>2, <3>3
  <2>2. FactoryOK
    BY <1>1, <1>6, FS_EmptySet DEF Init, FactoryOK
  <2>3. FleetsOK
    BY DEF Init, FleetsOK
  <2>4. QED
    BY <2>1, <2>2, <2>3 DEF Init, ChainOK, Solvent, NothingNowhere
<1>8. VMOK
  BY DEF Init, VMOK, IdleVM
<1>9. ProvisionIsWhole /\ FailsByOwnDoingOnly
  BY DEF Init, ProvisionIsWhole, FailsByOwnDoingOnly, Transactions
<1>10. QED
  BY <1>4, <1>5, <1>7, <1>8, <1>9 DEF IInv

(* The factory's next fleet has addresses where nothing was.               *)
LEMMA FactoryFleet ==
    ASSUME IInv, NEW p \in Provisions, p \notin WithFleet, NEW i \in 1..Size
    PROVE  LET a == Fresh(chain.created + i - 1)
           IN  /\ a \in Addresses /\ chain.owner[a] = NoOwner
               /\ a[1] = Factory /\ chain.created <= a[2] /\ a[2] < chain.created + Size
<1> DEFINE d == Cardinality(WithFleet)
           N == Cardinality(Provisions)
           k == chain.created + i - 1
<1>1. FactoryOK /\ Size \in Nat \ {0} /\ IsFiniteSet(Provisions)
  BY ProvisionAssumption DEF IInv, ChainOK
<1>2. d \in Nat /\ N \in Nat /\ d + 1 <= N
  <2>1. WithFleet \subseteq Provisions
    BY DEF WithFleet
  <2>2. IsFiniteSet(WithFleet)
    BY <1>1, <2>1, FS_Subset
  <2>3. Cardinality(WithFleet \cup {p}) = d + 1 /\ IsFiniteSet(WithFleet \cup {p})
    BY <2>2, FS_AddElement
  <2>4. WithFleet \cup {p} \subseteq Provisions
    BY <2>1
  <2>5. Cardinality(WithFleet \cup {p}) <= N
    BY <1>1, <2>4, FS_Subset
  <2>6. QED
    BY <1>1, <2>2, <2>3, <2>5, FS_CardinalityType
<1>3. chain.created = Size * d
  BY <1>1 DEF FactoryOK
<1> HIDE DEF d, N
<1>4. chain.created \in Nat /\ chain.created + Size <= N * Size
  <2>1. PICK x \in Nat : N = d + 1 + x
    <3>1. N - (d + 1) \in Nat /\ N = d + 1 + (N - (d + 1))
      BY <1>2
    <3>2. QED
      BY <3>1
  <2>2. N * Size = Size * d + Size + Size * x
    BY <1>1, <1>2, <2>1
  <2>3. Size * x \in Nat /\ Size * d \in Nat
    BY <1>1, <1>2
  <2>4. QED
    BY <1>1, <1>3, <2>2, <2>3
<1>5. k \in 0..(N * Size - 1) /\ chain.created <= k /\ k < chain.created + Size
  BY <1>1, <1>2, <1>4
<1> HIDE DEF k
<1>6. Fresh(k) \in Addresses
  BY <1>5 DEF Addresses, N
<1>7. Fresh(k)[1] = Factory /\ Fresh(k)[2] = k
  BY DEF Fresh
<1>8. chain.owner[Fresh(k)] = NoOwner
  BY <1>1, <1>5, <1>6, <1>7 DEF FactoryOK
<1>9. QED
  BY <1>5, <1>6, <1>7, <1>8 DEF k

LEMMA DeployFleetKeepsIInv ==
    ASSUME IInv, NEW p \in Provisions, DeployFleet(p)
    PROVE  IInv'
<1> DEFINE New(a) == \E i \in 1..Size : Fresh(chain.created + i - 1) = a
<1>1. /\ TypeOK /\ ProvsOK /\ ChainOK /\ chain \in Chains /\ prov \in [Provisions -> ProvType]
      /\ prov[p].pc = "deploy" /\ vm = IdleVM(chain) /\ ProvOK(p, prov[p])
  BY DEF IInv, TypeOK, ProvType, ProvsOK, DeployFleet, VMOK
<1>2. PICK f : f = [i \in 1..Size |-> Fresh(chain.created + i - 1)]
  OBVIOUS
<1>3. PICK m : m = prov[p].master
  OBVIOUS
<1>4. PICK e : e = [prov[p] EXCEPT !.pc = "send", !.brackets = f]
  OBVIOUS
<1>5. /\ prov[p].step = 1 /\ Unsent(p, 1) /\ Unsent(p, 2) /\ prov[p].kind = "complete"
      /\ prov[p].brackets = <<>> /\ p \notin WithFleet
  BY <1>1 DEF ProvOK, WithFleet
<1>6. Size \in Nat \ {0} /\ m \in Masters /\ m # NoOwner /\ prov[p] \in ProvType
  BY <1>1, <1>3, ProvisionAssumption DEF ProvType
<1>7. ASSUME NEW i \in 1..Size
      PROVE  LET a == Fresh(chain.created + i - 1)
             IN  /\ a \in Addresses /\ chain.owner[a] = NoOwner
                 /\ a[1] = Factory /\ chain.created <= a[2] /\ a[2] < chain.created + Size
  BY <1>5, FactoryFleet
<1>8. f \in Seq(Addresses) /\ Len(f) = Size /\ f # <<>> /\ DOMAIN f = 1..Size
  <2>1. f \in [1..Size -> Addresses]
    BY <1>2, <1>7
  <2>2. QED
    BY <1>6, <2>1
<1>9. /\ e \in ProvType /\ e.pc = "send" /\ e.kind = "complete" /\ e.master = m
      /\ e.nonce = prov[p].nonce /\ e.brackets = f /\ e.step = 1
  BY <1>3, <1>4, <1>5, <1>6, <1>8 DEF ProvType
<1>10. prov' = [prov EXCEPT ![p] = e] /\ status' = status /\ vm' = IdleVM(chain')
  BY <1>2, <1>4 DEF DeployFleet
<1>11. /\ chain'.created = chain.created + Size /\ chain'.orders = chain.orders
       /\ chain'.wallet = chain.wallet /\ chain'.exch = chain.exch /\ chain'.funds = chain.funds
       /\ chain' \in Chains
       /\ \A a \in Addresses : chain'.owner[a] = IF New(a) THEN m ELSE chain.owner[a]
  <2>1. PICK o : o = [a \in Addresses |-> IF New(a) THEN m ELSE chain.owner[a]]
    OBVIOUS
  <2>2. o \in [Addresses -> Masters \cup {NoOwner}]
    BY <1>1, <1>6, <2>1, ChainTypes
  <2>3. PICK k \in Nat : k = chain.created + Size
    BY <1>1, <1>6, ChainTypes
  <2>4. chain' = [chain EXCEPT !.owner = o, !.created = k]
    <3>1. chain' = [chain EXCEPT !.owner = [a \in Addresses |-> IF New(a) THEN m ELSE @[a]],
                                 !.created = @ + Size]
      BY <1>3 DEF DeployFleet
    <3>2. QED
      BY <2>1, <2>3, <3>1
  <2> HIDE DEF New
  <2>5. /\ chain'.created = k /\ chain'.orders = chain.orders
        /\ chain'.wallet = chain.wallet /\ chain'.exch = chain.exch /\ chain'.funds = chain.funds
        /\ chain' \in Chains /\ chain'.owner = o
    BY <1>1, <2>2, <2>4 DEF Chains
  <2>6. QED
    BY <2>1, <2>3, <2>5
<1>12. \A q \in Provisions : prov'[q] = IF q = p THEN e ELSE prov[q]
  BY <1>1, <1>10
<1>13. TypeOK'
  <2>1. prov' \in [Provisions -> ProvType]
    BY <1>1, <1>9, <1>10
  <2>2. QED
    BY <1>1, <1>10, <1>11, <2>1, IdleVMType DEF TypeOK, ProvType
<1>14. \A a \in Addresses : New(a) => /\ chain.owner[a] = NoOwner /\ a[1] = Factory
                                      /\ chain.created <= a[2] /\ a[2] < chain.created + Size
  BY <1>7
<1> HIDE DEF New
<1>15. Larger(chain, chain')
  <2>1. /\ \A a \in Addresses : chain.exch[a] \in Nat
        /\ \A n \in Masters : chain.funds[n] \in Nat
    BY <1>1, ChainTypes
  <2>2. QED
    BY <1>11, <1>14, <2>1 DEF Larger
<1>16. \A q \in Provisions : Kept(q)
  BY <1>5, <1>10, <1>12 DEF Kept, Settled, Unsent, SameArgs
<1>17. ProvsOK'
  <2>1. ASSUME NEW q \in Provisions, NEW g, g = prov'[q], q # p
        PROVE  ProvOK(q, g)'
    <3>1. ProvOK(q, g) /\ g \in ProvType
      BY <1>1, <1>12, <2>1 DEF ProvsOK
    <3>2. g.master \in Masters /\ g.brackets \in Seq(Addresses) /\ g.step \in {1, 2}
      BY <3>1 DEF ProvType
    <3>3. Unsent(q, 1)' = Unsent(q, 1) /\ Unsent(q, 2)' = Unsent(q, 2)
      BY <1>10 DEF Unsent
    <3>4. QED
      BY <1>15, <3>1, <3>2, <3>3, ProvKept
  <2>2. ProvOK(p, e)'
    <3>1. \A i \in 1..Size : chain'.owner[f[i]] = m
      BY <1>2, <1>7, <1>11 DEF New
    <3>2. OwnsBrackets(e)'
      BY <1>8, <1>9, <3>1 DEF OwnsBrackets
    <3>3. Unsent(p, 1)' /\ Unsent(p, 2)'
      BY <1>5, <1>10 DEF Unsent
    <3>4. QED
      BY <1>9, <3>2, <3>3 DEF ProvOK
  <2>3. prov'[p] = e
    BY <1>12
  <2>4. QED
    BY <2>1, <2>2, <2>3 DEF ProvsOK
<1>18. FactoryOK'
  <2>1. WithFleet' = WithFleet \cup {p}
    BY <1>8, <1>9, <1>12 DEF WithFleet
  <2>2. IsFiniteSet(WithFleet)
    BY ProvisionAssumption, FS_Subset DEF WithFleet
  <2>3. Cardinality(WithFleet') = Cardinality(WithFleet) + 1 /\ Cardinality(WithFleet) \in Nat
    BY <1>5, <2>1, <2>2, FS_AddElement, FS_CardinalityType
  <2>4. FactoryOK /\ chain.created \in Nat
    BY <1>1, ChainTypes DEF ChainOK
  <2>5. chain'.created = Size * Cardinality(WithFleet')
    <3>1. PICK d \in Nat : d = Cardinality(WithFleet)
      BY <2>3
    <3>2. Size * (d + 1) = Size * d + Size
      BY <1>6
    <3>3. QED
      BY <1>11, <2>3, <2>4, <3>1, <3>2 DEF FactoryOK
  <2>6. ASSUME NEW a \in Addresses, a[1] = Factory, a[2] >= chain'.created
        PROVE  chain'.owner[a] = NoOwner
    <3>1. a[2] \in Nat
      BY <2>6, AddressKinds
    <3>2. ~(a[2] < chain.created + Size) /\ a[2] >= chain.created
      BY <1>6, <1>11, <2>4, <2>6, <3>1
    <3>3. ~New(a)
      BY <1>14, <3>2
    <3>4. QED
      BY <1>11, <2>4, <2>6, <3>2, <3>3 DEF FactoryOK
  <2>7. QED
    BY <2>5, <2>6 DEF FactoryOK
<1>19. FleetsOK'
  <2>1. ASSUME NEW a \in Addresses, a[1] # Factory, chain'.owner[a] # NoOwner
        PROVE  chain'.owner[a] = a[1] /\ \E q \in Provisions : DeployedBy(q, a)'
    <3>1. chain'.owner[a] = chain.owner[a]
      BY <1>11, <1>14, <2>1
    <3>2. chain.owner[a] = a[1] /\ \E q \in Provisions : DeployedBy(q, a)
      BY <1>1, <2>1, <3>1 DEF ChainOK, FleetsOK
    <3>3. \A q \in Provisions : DeployedBy(q, a) => DeployedBy(q, a)'
      BY <1>16 DEF DeployedBy, Kept, Settled, SameArgs
    <3>4. QED
      BY <3>1, <3>2, <3>3
  <2>2. QED
    BY <2>1 DEF FleetsOK
<1>20. Solvent(chain')
  <2>1. ASSUME NEW n \in Masters, NEW a \in Addresses
        PROVE  Holdings(chain', n)[a] = Holdings(chain, n)[a]
    <3>1. /\ Holdings(chain', n)[a] = IF chain'.owner[a] = n
                                      THEN chain'.wallet[a] + chain'.exch[a] ELSE 0
          /\ Holdings(chain, n)[a] = IF chain.owner[a] = n
                                     THEN chain.wallet[a] + chain.exch[a] ELSE 0
      BY DEF Holdings
    <3>2. New(a) => chain.wallet[a] = 0 /\ chain.exch[a] = 0 /\ chain.owner[a] = NoOwner
      BY <1>1, <1>14 DEF ChainOK, NothingNowhere
    <3>3. n # NoOwner
      BY ProvisionAssumption
    <3>4. QED
      BY <1>11, <3>1, <3>2, <3>3
  <2>2. QED
    BY <1>1, <1>11, <2>1, SameHoldings DEF ChainOK
<1>21. ChainOK'
  <2>1. NothingNowhere(chain')
    BY <1>1, <1>6, <1>11 DEF ChainOK, NothingNowhere
  <2>2. \A a \in Addresses : chain'.wallet[a] = 0
    BY <1>1, <1>11 DEF ChainOK
  <2>3. QED
    BY <1>18, <1>19, <1>20, <2>1, <2>2 DEF ChainOK
<1>22. \A q \in Provisions : Settled(q)' => Settled(q)
  BY <1>10 DEF Settled
<1>23. QED
  BY <1>10, <1>13, <1>15, <1>16, <1>17, <1>21, <1>22, NothingRuns

LEMMA FinishEstimateKeepsIInv ==
    ASSUME IInv, Finish, vm.mode = "estimate"
    PROVE  IInv'
<1>1. PICK p : p = vm.tx[1]
  OBVIOUS
<1>2. PICK k : k = vm.tx[2]
  OBVIOUS
<1>3. /\ TypeOK /\ ProvsOK /\ chain \in Chains /\ prov \in [Provisions -> ProvType]
      /\ p \in Provisions /\ k \in {1, 2} /\ vm.tx = <<p, k>> /\ prov[p] \in ProvType
      /\ ProvOK(p, prov[p])
  BY <1>1, <1>2, VMTypes DEF IInv, TypeOK, ProvType, ProvsOK
<1>4. k = prov[p].step /\ prov[p].pc = "send"
  <2>1. vm.tx = <<vm.tx[1], prov[vm.tx[1]].step>> /\ prov[vm.tx[1]].pc = "send"
    BY DEF IInv, VMOK
  <2>2. <<p, k>> = <<p, prov[p].step>> /\ prov[p].pc = "send"
    BY <1>1, <1>3, <2>1
  <2>3. QED
    BY <2>2
<1>5. status[<<p, k>>] = "none"
  BY <1>3, <1>4 DEF ProvOK, Unsent
<1>6. PICK e : e = Sent(p)
  OBVIOUS
<1>7. /\ e \in ProvType /\ SameArgs(prov[p], e)
      /\ \/ prov[p].kind \in {"complete", "reuse"} /\ k = 1 /\ e.pc = "send" /\ e.step = 2
         \/ ~(prov[p].kind \in {"complete", "reuse"} /\ k = 1) /\ e.pc = "done" /\ e.step = k
  BY <1>3, <1>4, <1>6 DEF Sent, ProvType, SameArgs
<1>8. prov' = [prov EXCEPT ![p] = e] /\ status' = [status EXCEPT ![<<p, k>>] = "pending"]
      /\ chain' = chain /\ vm' = IdleVM(chain)
  BY <1>1, <1>3, <1>6 DEF Finish
<1>9. \A q \in Provisions : prov'[q] = IF q = p THEN e ELSE prov[q]
  BY <1>3, <1>8
<1>10. \A q \in Provisions, j \in {1, 2} :
          status'[<<q, j>>] = IF q = p /\ j = k THEN "pending" ELSE status[<<q, j>>]
  BY <1>3, <1>8 DEF TypeOK, Transactions
<1>11. TypeOK'
  <2>1. prov' \in [Provisions -> ProvType]
    BY <1>3, <1>7, <1>8
  <2>2. status' \in [Transactions -> {"none", "pending", "ok", "failed"}]
    BY <1>3, <1>8 DEF TypeOK
  <2>3. QED
    BY <1>3, <1>8, <2>1, <2>2, IdleVMType DEF TypeOK, ProvType
<1>12. \A q \in Provisions : Kept(q)
  <2>1. ASSUME NEW q \in Provisions, Settled(q)
        PROVE  status'[<<q, 1>>] = status[<<q, 1>>] /\ SameArgs(prov[q], prov'[q])
    <3>1. status'[<<q, 1>>] = status[<<q, 1>>]
      BY <1>5, <1>10, <2>1 DEF Settled
    <3>2. SameArgs(prov[q], prov'[q])
      BY <1>7, <1>9 DEF SameArgs
    <3>3. QED
      BY <3>1, <3>2
  <2>2. QED
    BY <2>1 DEF Kept
<1>13. WithFleet' = WithFleet
  BY <1>7, <1>9 DEF WithFleet, SameArgs
<1>14. ChainOK' /\ Larger(chain, chain')
  BY <1>8, <1>12, <1>13, ChainKept
<1>15. ProvsOK'
  <2>1. ASSUME NEW q \in Provisions, NEW g, g = prov'[q], q # p
        PROVE  ProvOK(q, g)'
    <3>1. ProvOK(q, g) /\ g \in ProvType
      BY <1>3, <1>9, <2>1 DEF ProvsOK
    <3>2. g.master \in Masters /\ g.brackets \in Seq(Addresses) /\ g.step \in {1, 2}
      BY <3>1 DEF ProvType
    <3>3. Unsent(q, 1)' = Unsent(q, 1) /\ Unsent(q, 2)' = Unsent(q, 2)
      BY <1>10, <2>1 DEF Unsent
    <3>4. QED
      BY <1>14, <3>1, <3>2, <3>3, ProvKept
  <2>2. ProvOK(p, e)'
    <3>1. /\ e.kind = prov[p].kind /\ e.master = prov[p].master /\ e.nonce = prov[p].nonce
          /\ e.brackets = prov[p].brackets
      BY <1>7 DEF SameArgs
    <3>2. k = 1 => (Unsent(p, 2)' <=> Unsent(p, 2))
      <4>1. k = 1 => status'[<<p, 2>>] = status[<<p, 2>>]
        BY <1>3, <1>10
      <4>2. QED
        BY <4>1 DEF Unsent
    <3>3. OwnsBrackets(e)' <=> OwnsBrackets(prov[p])
      BY <1>8, <3>1 DEF OwnsBrackets
    <3>4. Fleet(e) = Fleet(prov[p])
      BY <3>1 DEF Fleet
    <3>5. prov[p].kind \notin {"complete", "reuse"} => k = 1
      BY <1>3, <1>4 DEF ProvOK
    <3>6. Unsent(p, 2)
      BY <1>3, <1>4 DEF ProvOK
    <3>7. prov[p].kind \in {"complete", "reuse", "fund"} => OwnsBrackets(prov[p])
      BY <1>3, <1>4 DEF ProvOK
    <3>8. e.pc \in {"send", "done"}
      BY <1>7
    <3>9. /\ e.pc \in {"idle", "check", "deploy"} => e.step = 1 /\ Unsent(p, 1)' /\ Unsent(p, 2)'
          /\ e.pc = "idle" => e.kind = "single" /\ e.brackets = <<>>
          /\ e.kind = "single" => e.pc \in {"idle", "send", "done"}
          /\ e.pc = "check" => e.kind \in {"reuse", "fund"}
          /\ e.pc = "deploy" => e.kind = "complete" /\ e.brackets = <<>>
      BY <3>8
    <3>10. e.pc = "send" => Unsent(p, e.step)' /\ Unsent(p, 2)'
      <4>1. e.pc = "send" => e.step = 2 /\ k = 1
        BY <1>7
      <4>2. k = 1 => Unsent(p, 2)'
        BY <3>2, <3>6
      <4>3. QED
        BY <4>1, <4>2
    <3>11. e.kind \notin {"complete", "reuse"} => e.step = 1 /\ Unsent(p, 2)'
      BY <1>7, <3>1, <3>2, <3>5, <3>6
    <3>12. e.kind = "single" /\ e.pc # "idle" => e.brackets = Fleet(e)
      BY <1>3, <1>4, <3>1, <3>4 DEF ProvOK
    <3>13. Fleet(e)' = Fleet(e)
      BY DEF Fleet
    <3>14. QED
      BY <3>1, <3>3, <3>7, <3>9, <3>10, <3>11, <3>12, <3>13 DEF ProvOK
  <2>3. prov'[p] = e
    BY <1>3, <1>9
  <2>4. QED
    BY <2>1, <2>2, <2>3 DEF ProvsOK
<1>16. \A q \in Provisions : Settled(q)' => Settled(q)
  BY <1>10 DEF Settled
<1>17. QED
  BY <1>8, <1>11, <1>12, <1>14, <1>15, <1>16, NothingRuns

(* A transaction that ends, executed: its status was pending.              *)
LEMMA TransactionEnds ==
    ASSUME IInv, vm.mode = "execute", NEW p, p = vm.tx[1], NEW s \in {"ok", "failed"},
           prov' = prov, status' = [status EXCEPT ![vm.tx] = s], vm' = IdleVM(chain'),
           chain' \in Chains, Larger(chain, chain')
    PROVE  /\ TypeOK' /\ ProvsOK' /\ \A q \in Provisions : Kept(q)
           /\ \A q \in Provisions : Settled(q)' => Settled(q) \/ (q = p /\ vm.tx = <<p, 1>>)
           /\ vm.tx = <<p, 1>> => status'[<<p, 1>>] = s /\ status[<<p, 1>>] = "pending"
<1>1. PICK k : k = vm.tx[2]
  OBVIOUS
<1>2. /\ TypeOK /\ ProvsOK /\ chain \in Chains /\ prov \in [Provisions -> ProvType]
      /\ p \in Provisions /\ k \in {1, 2} /\ vm.tx = <<p, k>>
  BY <1>1, VMTypes DEF IInv, TypeOK, ProvType
<1>3. status[<<p, k>>] = "pending"
  BY <1>2 DEF IInv, VMOK
<1>4. \A q \in Provisions, j \in {1, 2} :
          status'[<<q, j>>] = IF q = p /\ j = k THEN s ELSE status[<<q, j>>]
  BY <1>2 DEF TypeOK, Transactions
<1>5. TypeOK'
  <2>1. status' \in [Transactions -> {"none", "pending", "ok", "failed"}]
    BY <1>2 DEF TypeOK
  <2>2. QED
    BY <1>2, <2>1, IdleVMType DEF TypeOK
<1>6. ProvsOK'
  <2>1. ASSUME NEW q \in Provisions, NEW g, g = prov'[q]
        PROVE  ProvOK(q, g)'
    <3>1. ProvOK(q, g) /\ g \in ProvType
      BY <1>2, <2>1 DEF ProvsOK
    <3>2. g.master \in Masters /\ g.brackets \in Seq(Addresses) /\ g.step \in {1, 2}
      BY <3>1 DEF ProvType
    <3>3. Unsent(q, 1)' = Unsent(q, 1) /\ Unsent(q, 2)' = Unsent(q, 2)
      BY <1>3, <1>4 DEF Unsent
    <3>4. QED
      BY <3>1, <3>2, <3>3, ProvKept
  <2>2. QED
    BY <2>1 DEF ProvsOK
<1>7. \A q \in Provisions : Kept(q)
  BY <1>3, <1>4 DEF Kept, Settled, SameArgs
<1>8. \A q \in Provisions : Settled(q)' => Settled(q) \/ (q = p /\ k = 1)
  BY <1>4 DEF Settled
<1>9. vm.tx = <<p, 1>> => k = 1
  BY <1>2
<1>10. QED
  BY <1>2, <1>3, <1>4, <1>5, <1>6, <1>7, <1>8, <1>9

(* All calls of the transaction were made.                                 *)
LEMMA FinishExecuteKeepsIInv ==
    ASSUME IInv, Finish, vm.mode = "execute"
    PROVE  IInv'
<1>1. PICK p : p = vm.tx[1]
  OBVIOUS
<1>2. PICK C : C = CallsOf(vm.tx)
  OBVIOUS
<1>3. PICK m : m = prov[p].master
  OBVIOUS
<1>4. PICK w : w = vm.work
  OBVIOUS
<1>5. /\ TypeOK /\ ChainOK /\ p \in Provisions /\ m \in Masters /\ m # NoOwner /\ m # Factory
      /\ w \in Chains /\ chain \in Chains /\ prov[p] \in ProvType
  BY <1>1, <1>3, <1>4, VMTypes, ProvisionAssumption DEF IInv, ProvType
<1>6. CallsOK(prov[p], C) /\ (prov[p].kind = "single" => vm.tx = <<p, 1>>)
  BY <1>1, <1>2, RunningFacts
<1>7. C \in Seq(Calls) /\ Len(C) \in Nat /\ Paired(C)
  BY <1>6, LenProperties DEF CallsOK
<1>8. /\ Progress(chain, w, C, Len(C), m)
      /\ prov[p].kind = "single" => SingleOK(chain, w, C, Len(C), m, p)
  <2>1. PICK n \in 0..Len(C) : Running(C, n, p)
    BY <1>1, <1>2 DEF IInv, VMOK
  <2>2. vm.calls = <<>>
    BY DEF Finish
  <2>3. n = Len(C)
    BY <1>7, <2>1, <2>2, EmptySeq DEF Running, Rest
  <2>4. QED
    BY <1>3, <1>4, <2>1, <2>3 DEF Running
<1>9. /\ prov' = prov /\ status' = [status EXCEPT ![vm.tx] = "ok"] /\ chain' = w
      /\ vm' = IdleVM(chain')
  BY <1>4 DEF Finish
<1>10. Grows(chain, w) /\ Larger(chain, chain') /\ w.created = chain.created
  BY <1>8, <1>9 DEF Progress, Grows
<1>11. /\ TypeOK' /\ ProvsOK' /\ \A q \in Provisions : Kept(q)
       /\ \A q \in Provisions : Settled(q)' => Settled(q) \/ (q = p /\ vm.tx = <<p, 1>>)
       /\ vm.tx = <<p, 1>> => status'[<<p, 1>>] = "ok" /\ status[<<p, 1>>] = "pending"
  <2>1. "ok" \in {"ok", "failed"} /\ chain' \in Chains
    BY <1>5, <1>9
  <2>2. QED
    BY <1>1, <1>9, <1>10, <2>1, TransactionEnds
(* The fleet of a single transaction.                                      *)
<1>12. ASSUME prov[p].kind = "single"
       PROVE  /\ Single(C, prov[p].brackets) /\ prov[p].brackets = Fleet(prov[p])
              /\ Len(C) = 4 * Size /\ SingleOK(chain, w, C, 4 * Size, m, p)
  BY <1>6, <1>8, <1>12 DEF CallsOK, Single
<1>13. ASSUME NEW a \in Addresses, chain.owner[a] = NoOwner, w.owner[a] # NoOwner
       PROVE  /\ w.owner[a] = a[1] /\ a[1] # Factory
              /\ DeployedBy(p, a)'
  <2>1. w.owner[a] = m /\ \E i \in 1..Len(C) : C[i] = [op |-> "create", to |-> a]
    BY <1>8, <1>13 DEF Progress, NewOwners
  <2>2. PICK i \in 1..Len(C) : C[i] = [op |-> "create", to |-> a]
    BY <2>1
  <2>3. prov[p].kind = "single"
    BY <1>6, <2>2 DEF CallsOK, Foreign
  <2>4. PICK x \in 1..Size : SingleCall(C, prov[p].brackets, i, x)
    BY <1>12, <2>3, SingleTo
  <2>5. a = prov[p].brackets[x]
    BY <2>2, <2>4 DEF SingleCall
  <2>6. a = DeployedAt(UniqueNonce(m, prov[p].nonce), x - 1)
    BY <1>3, <1>12, <2>3, <2>5 DEF Fleet
  <2>7. a[1] = m /\ a[2] = prov[p].nonce
    <3>1. prov[p].nonce \in Nonces
      BY <1>5 DEF ProvType
    <3>2. IsOfFleet(DeployedAt(UniqueNonce(m, prov[p].nonce), x - 1), m, prov[p].nonce)
      BY <1>5, <3>1, FleetAddress, Zenon
    <3>3. QED
      BY <2>6, <3>2 DEF IsOfFleet
  <2>8. QED
    BY <1>3, <1>5, <1>6, <1>9, <1>11, <2>1, <2>3, <2>7 DEF DeployedBy
<1>14. FleetsOK'
  <2>1. ASSUME NEW a \in Addresses, a[1] # Factory, w.owner[a] # NoOwner
        PROVE  w.owner[a] = a[1] /\ \E q \in Provisions : DeployedBy(q, a)'
    <3>1. CASE chain.owner[a] = NoOwner
      BY <1>5, <1>13, <2>1, <3>1
    <3>2. CASE chain.owner[a] # NoOwner
      <4>1. w.owner[a] = chain.owner[a]
        BY <1>10, <3>2 DEF Grows, Larger
      <4>2. chain.owner[a] = a[1] /\ \E q \in Provisions : DeployedBy(q, a)
        BY <1>5, <2>1, <3>2 DEF ChainOK, FleetsOK
      <4>3. \A q \in Provisions : DeployedBy(q, a) => DeployedBy(q, a)'
        BY <1>11 DEF DeployedBy, Kept, Settled, SameArgs
      <4>4. QED
        BY <4>1, <4>2, <4>3
    <3>3. QED
      BY <3>1, <3>2
  <2>2. QED
    BY <1>9, <2>1 DEF FleetsOK
<1>15. FactoryOK'
  <2>1. WithFleet' = WithFleet
    BY <1>9 DEF WithFleet
  <2>2. ASSUME NEW a \in Addresses, a[1] = Factory, a[2] >= w.created
        PROVE  w.owner[a] = NoOwner
    <3>1. chain.owner[a] = NoOwner
      BY <1>5, <1>10, <2>2 DEF ChainOK, FactoryOK
    <3>2. QED
      BY <1>13, <2>2, <3>1
  <2>3. QED
    BY <1>5, <1>9, <1>10, <2>1, <2>2 DEF ChainOK, FactoryOK
<1>16. ASSUME NEW a \in Addresses
       PROVE  w.wallet[a] = 0
  <2>1. w.wallet[a] = OnTheWay(C, Len(C), a)
    BY <1>8 DEF Progress
  <2>2. ASSUME Len(C) > 0, C[Len(C)] = [op |-> "transfer", to |-> a]
        PROVE  FALSE
    <3>1. Len(C) \in 1..Len(C) /\ C[Len(C)].op = "transfer"
      BY <1>7, <2>2
    <3>2. Len(C) < Len(C)
      BY <1>7, <3>1 DEF Paired
    <3>3. QED
      BY <1>7, <3>2
  <2>3. QED
    BY <2>1, <2>2 DEF OnTheWay
<1>17. ChainOK'
  BY <1>8, <1>9, <1>14, <1>15, <1>16 DEF ChainOK, Progress
<1>18. ASSUME vm.tx = <<p, 1>>
       PROVE  Whole(p)' /\ OwnDoing(p)'
  <2>1. ASSUME prov[p].kind = "single", NEW x \in DOMAIN prov[p].brackets,
               NEW a, a = prov[p].brackets[x]
        PROVE  w.owner[a] = m /\ p \in w.orders[a] /\ w.exch[a] > 0
    <3>1. x \in 1..Size /\ Size \in Nat
      BY <1>12, <2>1, ProvisionAssumption DEF Fleet
    <3>2. /\ x \in 1..(4 * Size) /\ Size + x \in 1..(4 * Size)
          /\ 2 * Size + 2 * x \in 1..(4 * Size)
      BY <3>1
    <3>3. /\ C[x] = [op |-> "create", to |-> a]
          /\ C[Size + x] = [op |-> "orders", to |-> a]
          /\ C[2 * Size + 2 * x] = [op |-> "deposit", to |-> a]
      BY <1>12, <2>1, <3>1 DEF Single
    <3>4. w.owner[a] = m
      BY <1>12, <2>1, <3>2, <3>3 DEF SingleOK
    <3>5. p \in w.orders[a]
      BY <1>12, <2>1, <3>2, <3>3 DEF SingleOK
    <3>6. w.exch[a] > 0
      BY <1>12, <2>1, <3>2, <3>3 DEF SingleOK
    <3>7. QED
      BY <3>4, <3>5, <3>6
  <2>2. Whole(p)'
    BY <1>3, <1>9, <2>1 DEF Whole
  <2>3. OwnDoing(p)'
    BY <1>11, <1>18 DEF OwnDoing
  <2>4. QED
    BY <2>2, <2>3
<1>19. QED
  BY <1>9, <1>10, <1>11, <1>17, <1>18, NothingRuns

(* The call of a provision in a single transaction that fails.             *)
FailsRightly(p, m) ==
    \/ chain.funds[m] < Size
    \/ \E q \in Provisions \ {p} :
          /\ prov[q].kind = "single" /\ status[<<q, 1>>] = "ok"
          /\ prov[q].master = m /\ prov[q].nonce = prov[p].nonce

LEMMA SingleFails ==
    ASSUME IInv, vm.mode = "execute", vm.calls # <<>>, NEW p, p = vm.tx[1], NEW m,
           m = prov[p].master, prov[p].kind = "single",
           ~CallSucceeds(Head(vm.calls), m, vm.work)
    PROVE  FailsRightly(p, m)
<1>1. PICK C : C = CallsOf(vm.tx)
  OBVIOUS
<1>2. PICK w : w = vm.work
  OBVIOUS
<1>3. PICK b : b = prov[p].brackets
  OBVIOUS
<1>4. /\ TypeOK /\ ChainOK /\ p \in Provisions /\ m \in Masters /\ m # NoOwner /\ m # Factory
      /\ w \in Chains /\ chain \in Chains /\ prov[p] \in ProvType /\ vm.calls \in Seq(Calls)
      /\ prov[p].nonce \in Nonces /\ Size \in Nat
  BY <1>2, VMTypes, ProvisionAssumption DEF IInv, ProvType
<1>5. CallsOK(prov[p], C) /\ vm.tx = <<p, 1>>
  BY <1>1, RunningFacts
<1>6. C \in Seq(Calls) /\ Single(C, b) /\ b = Fleet(prov[p]) /\ Len(C) = 4 * Size
  BY <1>3, <1>5 DEF CallsOK, Single
<1>7. PICK n \in 0..Len(C) : Running(C, n, p)
  BY <1>1 DEF IInv, VMOK
<1>8. /\ Rest(vm.calls, C, n) /\ Progress(chain, w, C, n, m) /\ SingleOK(chain, w, C, n, m, p)
  BY <1>2, <1>7 DEF Running
<1>9. n \in 0..(4 * Size - 1) /\ Head(vm.calls) = C[n + 1] /\ C[n + 1] \in Calls
  <2>1. Len(vm.calls) \in Nat /\ Len(vm.calls) > 0 /\ Head(vm.calls) = vm.calls[1]
    BY <1>4, LenProperties, EmptySeq, HeadTailProperties
  <2>2. Len(vm.calls) = Len(C) - n /\ \A i \in 1..Len(vm.calls) : vm.calls[i] = C[n + i]
    BY <1>8 DEF Rest
  <2>3. n \in 0..(4 * Size - 1) /\ n + 1 \in 1..Len(C) /\ 1 \in 1..Len(vm.calls)
    BY <1>4, <1>6, <2>1, <2>2
  <2>4. QED
    BY <1>6, <2>1, <2>2, <2>3, ElementOfSeq
<1>10. ~CallSucceeds(C[n + 1], m, w)
  BY <1>2, <1>9
<1>11. ASSUME C[n + 1].op # "create"
       PROVE  w.owner[C[n + 1].to] = m
  <2>1. \A i \in 1..n : Owned(w, C, i, m)
    BY <1>8 DEF SingleOK, Owned
  <2>2. Owned(w, C, n + 1, m)
    BY <1>6, <1>9, <1>11, <2>1, SingleOwned, Zenon
  <2>3. QED
    BY <2>2 DEF Owned
<1>12. PICK x \in 1..Size : SingleCall(C, b, n + 1, x)
  <2>1. n + 1 \in 1..(4 * Size)
    BY <1>4, <1>9
  <2>2. QED
    BY <1>6, <2>1, SingleTo, Zenon
<1>13. CASE C[n + 1].op = "create"
  <2>1. n + 1 = x /\ C[n + 1].to = b[x]
    BY <1>12, <1>13 DEF SingleCall
  <2>2. b[x] = DeployedAt(UniqueNonce(m, prov[p].nonce), x - 1)
    BY <1>6 DEF Fleet
  <2>3. b[x] \in Addresses /\ b[x][1] = m /\ b[x][2] = prov[p].nonce
    <3>1. IsOfFleet(DeployedAt(UniqueNonce(m, prov[p].nonce), x - 1), m, prov[p].nonce)
      BY <1>4, FleetAddress, Zenon
    <3>2. QED
      BY <2>2, <3>1 DEF IsOfFleet
  <2>4. w.owner[b[x]] # NoOwner
    BY <1>10, <1>13, <2>1 DEF CallSucceeds
  <2>5. chain.owner[b[x]] # NoOwner
    <3>1. ASSUME chain.owner[b[x]] = NoOwner
          PROVE  FALSE
      <4>1. PICK i \in 1..n : C[i] = [op |-> "create", to |-> b[x]]
        BY <1>8, <2>3, <2>4, <3>1 DEF Progress, NewOwners
      <4>2. i \in 1..Size /\ i # x
        BY <1>4, <2>1
      <4>3. C[i] = [op |-> "create", to |-> b[i]]
        BY <1>6, <4>2 DEF Single
      <4>4. b[i] = b[x]
        BY <4>1, <4>3
      <4>5. b[i] = DeployedAt(UniqueNonce(m, prov[p].nonce), i - 1)
        BY <1>6, <4>2 DEF Fleet
      <4>6. QED
        BY <2>2, <4>2, <4>4, <4>5, FleetIsInjective
    <3>2. QED
      BY <3>1
  <2>6. PICK q \in Provisions : DeployedBy(q, b[x])
    BY <1>4, <2>3, <2>5 DEF ChainOK, FleetsOK
  <2>7. q # p
    <3>1. status[<<p, 1>>] = "pending"
      BY <1>5 DEF IInv, VMOK
    <3>2. QED
      BY <2>6, <3>1 DEF DeployedBy
  <2>8. QED
    BY <2>3, <2>6, <2>7 DEF DeployedBy, FailsRightly
<1>14. CASE C[n + 1].op = "transfer"
  <2>1. n + 1 = 2 * Size + (2 * x - 1)
    <3>1. C[n + 1] # [op |-> "create", to |-> b[x]] /\ C[n + 1] # [op |-> "orders", to |-> b[x]]
          /\ C[n + 1] # [op |-> "deposit", to |-> b[x]]
      BY <1>14
    <3>2. QED
      BY <1>12, <3>1, Zenon DEF SingleCall
  <2>2. w.funds[m] = 0
    <3>1. w.funds[m] \in Nat
      BY <1>4, ChainTypes
    <3>2. QED
      BY <1>10, <1>14, <3>1 DEF CallSucceeds
  <2>3. chain.funds[m] = w.funds[m] + Transfers(n)
    BY <1>8 DEF SingleOK
  <2>4. Transfers(n) < Size /\ Transfers(n) \in Int
    <3>1. x \in Int /\ 1 <= x /\ x <= Size /\ n = 2 * Size + 2 * x - 2
      BY <1>4, <1>9, <2>1
    <3>2. n - 2 * Size + 1 = 2 * x - 1 /\ n \in Int
      BY <1>4, <3>1
    <3>3. (2 * x - 1) \div 2 = x - 1
      BY <3>1
    <3>4. Transfers(n) = 0 \/ Transfers(n) = x - 1
      BY <3>2, <3>3 DEF Transfers
    <3>5. QED
      BY <1>4, <3>1, <3>4
  <2>5. QED
    BY <2>2, <2>3, <2>4 DEF FailsRightly
<1>15. CASE C[n + 1].op \notin {"create", "transfer"}
  BY <1>10, <1>11, <1>15 DEF CallSucceeds
<1>16. QED
  BY <1>13, <1>14, <1>15

LEMMA FailKeepsIInv ==
    ASSUME IInv, Fail
    PROVE  IInv'
<1>1. PICK p : p = vm.tx[1]
  OBVIOUS
<1>2. /\ TypeOK /\ p \in Provisions /\ vm.mode \in {"estimate", "execute"} /\ chain \in Chains
  BY <1>1, VMTypes DEF IInv, Fail
<1>3. CASE vm.mode = "estimate"
  <2>1. prov[p].pc = "send"
    BY <1>1, <1>3 DEF IInv, VMOK
  <2>2. /\ prov' = [prov EXCEPT ![p].pc = "done"] /\ UNCHANGED <<status, chain>>
        /\ vm' = IdleVM(chain)
    BY <1>1, <1>3 DEF Fail
  <2>3. QED
    BY <1>2, <2>1, <2>2, EndKeepsIInv
<1>4. CASE vm.mode = "execute"
  <2>1. /\ prov' = prov /\ status' = [status EXCEPT ![vm.tx] = "failed"] /\ chain' = chain
        /\ vm' = IdleVM(chain') /\ vm.calls # <<>>
        /\ ~CallSucceeds(Head(vm.calls), prov[p].master, vm.work)
    BY <1>1, <1>4 DEF Fail, Master
  <2>2. Larger(chain, chain') /\ chain' \in Chains
    BY <1>2, <2>1, ChainTypes DEF Larger
  <2>3. "failed" \in {"ok", "failed"}
    OBVIOUS
  <2>4. /\ TypeOK' /\ ProvsOK' /\ \A q \in Provisions : Kept(q)
        /\ \A q \in Provisions : Settled(q)' => Settled(q) \/ (q = p /\ vm.tx = <<p, 1>>)
        /\ vm.tx = <<p, 1>> => status'[<<p, 1>>] = "failed" /\ status[<<p, 1>>] = "pending"
    BY <1>1, <1>4, <2>1, <2>2, <2>3, TransactionEnds
  <2>5. WithFleet' = WithFleet
    BY <2>1 DEF WithFleet
  <2>6. ChainOK'
    BY <2>1, <2>4, <2>5, ChainKept
  <2>7. ASSUME vm.tx = <<p, 1>>
        PROVE  Whole(p)' /\ OwnDoing(p)'
    <3>1. Whole(p)'
      BY <2>4, <2>7 DEF Whole
    <3>2. ASSUME prov[p].kind = "single"
          PROVE  \/ chain.funds[prov[p].master] < Size
                 \/ \E q \in Provisions \ {p} :
                      /\ prov[q].kind = "single" /\ status[<<q, 1>>] = "ok"
                      /\ prov[q].master = prov[p].master /\ prov[q].nonce = prov[p].nonce
      <4>1. PICK m : m = prov[p].master
        OBVIOUS
      <4>2. ~CallSucceeds(Head(vm.calls), m, vm.work) /\ vm.calls # <<>>
        BY <2>1, <4>1
      <4>3. FailsRightly(p, m)
        BY <1>1, <1>4, <3>2, <4>1, <4>2, SingleFails
      <4>4. QED
        BY <4>1, <4>3 DEF FailsRightly
    <3>3. \A q \in Provisions : status[<<q, 1>>] = "ok" => status'[<<q, 1>>] = "ok"
      BY <2>4 DEF Kept, Settled
    <3>4. OwnDoing(p)'
      <4>1. CASE prov[p].kind # "single"
        BY <2>1, <4>1 DEF OwnDoing
      <4>2. CASE prov[p].kind = "single" /\ chain.funds[prov[p].master] < Size
        BY <2>1, <4>2 DEF OwnDoing
      <4>3. ASSUME NEW q \in Provisions \ {p},
                   prov[q].kind = "single", status[<<q, 1>>] = "ok",
                   prov[q].master = prov[p].master, prov[q].nonce = prov[p].nonce
            PROVE  OwnDoing(p)'
        <5>1. status'[<<q, 1>>] = "ok" /\ prov'[q] = prov[q] /\ prov'[p] = prov[p]
          BY <2>1, <3>3, <4>3
        <5>2. QED
          BY <4>3, <5>1 DEF OwnDoing
      <4>4. QED
        BY <3>2, <4>1, <4>2, <4>3
    <3>5. QED
      BY <3>1, <3>4
  <2>8. QED
    BY <2>1, <2>2, <2>4, <2>6, <2>7, NothingRuns
<1>5. QED
  BY <1>2, <1>3, <1>4
-----------------------------------------------------------------------------
(***************************************************************************)
(* The theorems.                                                           *)
(***************************************************************************)
LEMMA StartKeepsIInv ==
    ASSUME IInv, NEW p \in Provisions, NEW kind \in Kinds, NEW m \in Masters,
           \/ kind = "single" /\ \E n \in Nonces : StartSingle(p, m, n)
           \/ kind = "complete" /\ StartComplete(p, m)
           \/ \E list \in Lists : StartOnBrackets(p, kind, m, list)
    PROVE  IInv'
<1>1. kind \in AllKinds /\ Size \in Nat /\ prov[p].nonce \in Nonces
  BY ProvisionAssumption DEF IInv, TypeOK
<1>2. ASSUME kind = "single", NEW n \in Nonces, StartSingle(p, m, n)
      PROVE  IInv'
  <2>1. PICK f : f = [i \in 1..Size |-> DeployedAt(UniqueNonce(m, n), i - 1)]
    OBVIOUS
  <2>2. f \in Seq(Addresses)
    <3>1. \A i \in 1..Size : f[i] \in Addresses
      BY <2>1, FleetAddress DEF IsOfFleet
    <3>2. f \in [1..Size -> Addresses]
      BY <2>1, <3>1
    <3>3. QED
      BY <1>1, <3>2
  <2>3. Begin(p, "single", m, n, f, "send")
    BY <1>2, <2>1 DEF StartSingle, CalcSafeAddress, DeployedAt
  <2>4. QED
    BY <1>1, <1>2, <2>1, <2>2, <2>3, BeginKeepsIInv
<1>3. ASSUME kind = "complete", StartComplete(p, m)
      PROVE  IInv'
  <2>1. Begin(p, "complete", m, prov[p].nonce, <<>>, "deploy") /\ <<>> \in Seq(Addresses)
    BY <1>3, EmptySeq DEF StartComplete
  <2>2. QED
    BY <1>1, <1>3, <2>1, BeginKeepsIInv
<1>4. ASSUME NEW list \in Lists, StartOnBrackets(p, kind, m, list)
      PROVE  IInv'
  <2>1. kind \in {"reuse", "orders", "fund"} /\ list \in Seq(Addresses)
    BY <1>4, ProvisionAssumption DEF StartOnBrackets
  <2>2. PICK pc : pc = IF kind = "orders" THEN "send" ELSE "check"
    OBVIOUS
  <2>3. Begin(p, kind, m, prov[p].nonce, list, pc) /\ pc \in {"check", "deploy", "send"}
    BY <1>4, <2>2 DEF StartOnBrackets
  <2>4. QED
    BY <1>1, <2>1, <2>2, <2>3, BeginKeepsIInv
<1>5. QED
  BY <1>2, <1>3, <1>4

LEMMA IInvIsInvariant == Spec => []IInv
<1>1. Init => IInv
  BY InitIInv
<1>2. IInv /\ [Next]_vars => IInv'
  <2> SUFFICES ASSUME IInv, [Next]_vars
               PROVE  IInv'
    OBVIOUS
  <2>1. CASE \E p \in Provisions, kind \in Kinds, m \in Masters :
                \/ kind = "single" /\ \E n \in Nonces : StartSingle(p, m, n)
                \/ kind = "complete" /\ StartComplete(p, m)
                \/ \E list \in Lists : StartOnBrackets(p, kind, m, list)
    BY <2>1, StartKeepsIInv
  <2>2. ASSUME NEW p \in Provisions, DeployFleet(p) \/ Check(p) \/ GiveUp(p) \/ StartEstimate(p)
        PROVE  IInv'
    BY <2>2, DeployFleetKeepsIInv, CheckKeepsIInv, GiveUpKeepsIInv, StartEstimateKeepsIInv
  <2>3. ASSUME NEW tx \in Transactions, StartExecute(tx)
        PROVE  IInv'
    BY <2>3, StartExecuteKeepsIInv
  <2>4. CASE RunCall
    BY <2>4, RunCallKeepsIInv
  <2>5. CASE Finish
    <3>1. vm.mode = "estimate" \/ vm.mode = "execute"
      BY <2>5, VMTypes DEF IInv, Finish
    <3>2. QED
      BY <2>5, <3>1, FinishEstimateKeepsIInv, FinishExecuteKeepsIInv
  <2>6. CASE Fail
    BY <2>6, FailKeepsIInv
  <2>7. CASE UNCHANGED vars
    <3>1. UNCHANGED <<prov, status, chain>> /\ vm' = vm
      BY <2>7 DEF vars
    <3>2. TypeOK'
      BY <3>1 DEF IInv, TypeOK
    <3>3. VMOK'
      <4>1. CallsOf(vm.tx)' = CallsOf(vm.tx)
        BY <3>1, CallsStay
      <4>2. \A n \in 0..Len(CallsOf(vm.tx)) :
               Running(CallsOf(vm.tx), n, vm.tx[1]) => Running(CallsOf(vm.tx), n, vm.tx[1])'
        BY <3>1, <4>1 DEF Running
      <4>3. QED
        BY <3>1, <4>1, <4>2 DEF IInv, VMOK
    <3>4. QED
      BY <3>1, <3>2, <3>3, OnlyTheVM
  <2>8. QED
    BY <2>1, <2>2, <2>3, <2>4, <2>5, <2>6, <2>7 DEF Next
<1>3. QED
  BY <1>1, <1>2, PTL DEF Spec

(* The state of the scripts, the chain and the running transaction always  *)
(* has its type: no call spends funds that are not there, and no fleet is  *)
(* deployed outside the addresses that the model has for it.               *)
THEOREM TypesAreRight == Spec => []TypeOK
<1>1. IInv => TypeOK
  BY DEF IInv
<1>2. QED
  BY <1>1, IInvIsInvariant, PTL

(* No funds are lost on the way to the brackets: what is missing from a    *)
(* master's wallet is on the exchange, in the accounts of its own brackets.*)
THEOREM FundsStay == Spec => []FundsStayWithMaster
<1>1. ASSUME IInv
      PROVE  FundsStayWithMaster
  <2>1. ASSUME NEW m \in Masters
        PROVE  chain.funds[m] + SumFunction([a \in Addresses |->
                            IF chain.owner[a] = m THEN chain.exch[a] ELSE 0]) = Funds
    <3>1. PICK f : f = [a \in Addresses |-> IF chain.owner[a] = m THEN chain.exch[a] ELSE 0]
      OBVIOUS
    <3>2. chain \in Chains /\ Solvent(chain) /\ \A a \in Addresses : chain.wallet[a] = 0
      BY <1>1 DEF IInv, TypeOK, ChainOK
    <3>3. \A a \in Addresses : f[a] = Holdings(chain, m)[a]
      <4>1. ASSUME NEW a \in Addresses
            PROVE  f[a] = Holdings(chain, m)[a]
        <5>1. chain.exch[a] \in Nat /\ chain.wallet[a] = 0
          BY <3>2, ChainTypes
        <5>2. Holdings(chain, m)[a] = IF chain.owner[a] = m
                                      THEN chain.wallet[a] + chain.exch[a] ELSE 0
          BY DEF Holdings
        <5>3. QED
          BY <3>1, <5>1, <5>2
      <4>2. QED
        BY <4>1
    <3>4. SumFunctionOnSet(f, Addresses) = SumFunctionOnSet(Holdings(chain, m), Addresses)
      BY <3>3, AddressesAreFinite, SumSame
    <3>5. DOMAIN f = Addresses
      BY <3>1
    <3>6. SumFunction(f) = SumFunctionOnSet(f, Addresses)
      BY <3>5 DEF SumFunction, SumFunctionOnSet, FoldFunction
    <3>7. chain.funds[m] + SumFunction(f) = Funds
      BY <3>2, <3>4, <3>6 DEF Solvent
    <3>8. QED
      BY <3>1, <3>7
  <2>2. QED
    BY <2>1 DEF FundsStayWithMaster
<1>2. QED
  BY <1>1, IInvIsInvariant, PTL

(* A provision in a single transaction leaves no bracket without a Safe,   *)
(* without orders or without a deposit.                                    *)
THEOREM ProvisionsAreWhole == Spec => []ProvisionIsWhole
<1>1. IInv => ProvisionIsWhole
  BY DEF IInv
<1>2. QED
  BY <1>1, IInvIsInvariant, PTL

(* A provision in a single transaction that fails lacked funds, or the     *)
(* same master deployed a fleet with the same nonce.                       *)
THEOREM FailuresAreOwnDoing == Spec => []FailsByOwnDoingOnly
<1>1. IInv => FailsByOwnDoingOnly
  BY DEF IInv
<1>2. QED
  BY <1>1, IInvIsInvariant, PTL
=============================================================================
