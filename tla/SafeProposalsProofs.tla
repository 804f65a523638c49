-------------------------- MODULE SafeProposalsProofs --------------------------
(***************************************************************************)
(* Theorems about SafeProposals and ProposalVerification, for any scripts, *)
(* nonces, owners, pairs and changes of the chain.                         *)
(***************************************************************************)
EXTENDS ProposalVerification, SumTheorems, FiniteSetTheorems, SequenceTheorems, TLAPS

(* The run chose its nonce by what the server listed.                      *)
Automatic(e) ==
    /\ e.nonce # NoNonce
    /\ ~e.onchain \/ e.kind = "complete"
    /\ e.arg = NoNonce \/ e.kind \in {"process", "single"}

RunType ==
    [pc : {"idle", "sanitize", "nonce", "send", "done"},
     kind : AllKinds, onchain : BOOLEAN, arg : Nat \cup {NoNonce},
     nonce : Nat \cup {NoNonce}, salt : Nat \cup {NoNonce},
     step : {1, 2}, seen : SUBSET listed]

(* A script has a nonce when it sends, one above all it saw unless the     *)
(* nonce was given, and a second transaction only after a first one.       *)
RunOK(e) ==
    /\ e.pc = "send" => e.nonce \in Nat
    /\ e.pc \in {"idle", "sanitize", "nonce"} => e.step = 1
    /\ e.pc = "nonce" => e.kind # "complete"
    /\ e.step = 2 => e.kind = "complete"
    /\ Automatic(e) => \A q \in e.seen : q.nonce < e.nonce

RunsOK == \A r \in Runs : RunOK(run[r])

(* What a script sent agrees with what it is.                              *)
ListedOK(tx) ==
    LET e == run[tx.run]
    IN  /\ e.pc \in {"send", "done"} /\ e.nonce \in Nat
        /\ e.pc = "send" => tx.step < e.step
        /\ tx.onchain = e.onchain
        /\ tx.nonce = e.nonce + tx.step - 1
        /\ tx.step = 2 => e.kind = "complete"

AllListedOK == IsFiniteSet(listed) /\ \A tx \in listed : ListedOK(tx)

(* One transaction per nonce, in the order of nonces.                      *)
LogOK == chainNonce = Len(log) /\ \A i \in DOMAIN log : log[i].tx.nonce = i - 1

(* The inductive invariant.                                                *)
IInv == TypeOK /\ RunsOK /\ AllListedOK /\ LogOK
-----------------------------------------------------------------------------
(***************************************************************************)
(* The nonces of transactions.                                             *)
(***************************************************************************)
LEMMA HighestNonce ==
    ASSUME NEW L, IsFiniteSet(L), L # {}, \A tx \in L : tx.nonce \in Nat
    PROVE  \E last \in L : \A tx \in L : tx.nonce <= last.nonce
<1> DEFINE Without == {M \in SUBSET L : M # {} /\ ~\E last \in M : \A tx \in M : tx.nonce <= last.nonce}
<1>1. ASSUME Without # {}
      PROVE  FALSE
  <2>1. Without \subseteq FiniteSubsetsOf(L)
    BY FS_Subset DEF FiniteSubsetsOf
  <2>2. PICK M \in Without : \A N \in Without : ~(<<N, M>> \in StrictSubsetOrdering(L))
    BY <1>1, <2>1, FS_StrictSubsetOrderingWellFounded, WFMin
  <2>3. PICK tx \in M : TRUE
    OBVIOUS
  <2>4. M \ {tx} \notin Without
    BY <2>1, <2>2, <2>3, FS_Subset DEF StrictSubsetOrdering, FiniteSubsetsOf
  <2>5. CASE M = {tx}
    BY <2>5
  <2>6. CASE M # {tx}
    <3>1. PICK last \in M \ {tx} : \A q \in M \ {tx} : q.nonce <= last.nonce
      BY <2>4, <2>6
    <3>2. tx.nonce \in Nat /\ last.nonce \in Nat
      OBVIOUS
    <3>3. CASE tx.nonce <= last.nonce
      BY <3>1, <3>3
    <3>4. CASE last.nonce < tx.nonce
      <4>1. \A q \in M : q.nonce \in Nat
        OBVIOUS
      <4>2. \A q \in M : q.nonce <= tx.nonce
        BY <3>1, <3>2, <3>4, <4>1
      <4>3. QED
        BY <4>2
    <3>5. QED
      BY <3>2, <3>3, <3>4
  <2>7. QED
    BY <2>5, <2>6
<1>2. QED
  BY <1>1

NonceAfter(L) == IF L = {} THEN 0 ELSE 1 + Max({tx.nonce : tx \in L})

LEMMA NonceAfterAll ==
    ASSUME NEW L, IsFiniteSet(L), \A tx \in L : tx.nonce \in Nat
    PROVE  /\ NonceAfter(L) \in Nat
           /\ \A tx \in L : tx.nonce < NonceAfter(L)
           /\ L = {} => NonceAfter(L) = 0
           /\ L # {} => \E tx \in L : tx.nonce + 1 = NonceAfter(L)
<1> DEFINE All == {tx.nonce : tx \in L}
<1>1. CASE L = {}
  BY <1>1 DEF NonceAfter
<1>2. CASE L # {}
  <2>1. PICK last \in L : \A tx \in L : tx.nonce <= last.nonce
    BY <1>2, HighestNonce
  <2>2. \E x \in All : \A y \in All : x >= y
    BY <2>1
  <2>3. Max(All) \in All /\ \A y \in All : Max(All) >= y
    BY <2>2 DEF Max
  <2>4. NonceAfter(L) = 1 + Max(All)
    BY <1>2 DEF NonceAfter
  <2>5. PICK top \in L : Max(All) = top.nonce
    BY <2>3
  <2>6. \A tx \in L : top.nonce >= tx.nonce
    BY <2>3, <2>5
  <2> HIDE DEF All
  <2>7. NonceAfter(L) = 1 + top.nonce /\ top.nonce \in Nat
    BY <2>4, <2>5
  <2>8. QED
    BY <1>2, <2>6, <2>7
<1>3. QED
  BY <1>1, <1>2

-----------------------------------------------------------------------------
LEMMA InitIInv == Init => IInv
BY FS_EmptySet DEF Init, IInv, TypeOK, RunsOK, RunOK, Automatic, AllListedOK, LogOK, AllKinds, NoNonce

(* Steps of one script that send nothing.                                  *)
LEMMA ScriptOnly ==
    ASSUME IInv, NEW r \in Runs, NEW e, run' = [run EXCEPT ![r] = e],
           UNCHANGED <<listed, chainNonce, log>>,
           e \in RunType,
           RunOK(e),
           run[r].pc # "done",
           run[r].pc = "send" => e = [run[r] EXCEPT !.pc = "done"]
    PROVE  IInv'
<1>1. TypeOK'
  BY DEF IInv, TypeOK, RunType
<1>2. RunsOK'
  BY DEF IInv, TypeOK, RunsOK
<1>3. AllListedOK'
  <2>1. ASSUME NEW tx \in listed
        PROVE  ListedOK(tx)'
    BY DEF IInv, TypeOK, AllListedOK, ListedOK, Transactions, RunType
  <2>2. QED
    BY <2>1 DEF IInv, AllListedOK
<1>4. LogOK'
  BY DEF IInv, LogOK
<1>5. QED
  BY <1>1, <1>2, <1>3, <1>4 DEF IInv

LEMMA TypesOfRuns ==
    ASSUME IInv, NEW r \in Runs
    PROVE  /\ run[r] \in RunType
           /\ RunOK(run[r]) /\ NoNonce \notin Nat
BY DEF IInv, TypeOK, RunsOK, NoNonce, RunType

LEMMA ListedNonces ==
    ASSUME IInv
    PROVE  /\ FirstAvailableNonce \in Nat
           /\ \A tx \in listed : tx.nonce \in Nat /\ tx.nonce < FirstAvailableNonce
<1>1. \A tx \in listed : tx.nonce \in Nat
  BY DEF IInv, TypeOK, Transactions
<1>2. FirstAvailableNonce = NonceAfter(listed)
  BY DEF FirstAvailableNonce, NonceAfter
<1>3. QED
  BY <1>1, <1>2, NonceAfterAll DEF IInv, AllListedOK

LEMMA StartIInv ==
    ASSUME IInv, NEW r \in Runs, NEW kind \in Kinds, NEW onchain \in Onchain,
           NEW arg \in Nonces \cup {NoNonce}, Start(r, kind, onchain, arg)
    PROVE  IInv'
<1> DEFINE e == [run[r] EXCEPT !.pc      = IF kind \in {"complete", "single"} THEN "sanitize"
                                           ELSE IF kind = "send" /\ arg # NoNonce THEN "send"
                                           ELSE "nonce",
                               !.kind    = kind,
                               !.onchain = onchain,
                               !.arg     = arg,
                               !.nonce   = IF kind = "send" THEN arg ELSE NoNonce,
                               !.seen    = listed]
<1>1. run[r].pc = "idle" /\ run' = [run EXCEPT ![r] = e] /\ UNCHANGED <<listed, chainNonce, log>>
  BY TypesOfRuns, ZenonT(60) DEF Start, At, IInv, TypeOK
<1>2. arg \in Nat \cup {NoNonce} /\ kind \in AllKinds /\ onchain \in BOOLEAN
  BY ProposalsAssumption
<1>3. e \in RunType
  <2>1. run[r] \in RunType
    BY TypesOfRuns
  <2>2. (IF kind = "send" THEN arg ELSE NoNonce) \in Nat \cup {NoNonce}
    BY <1>2
  <2>3. QED
    BY <1>2, <2>1, <2>2, ZenonT(60) DEF RunType
<1>4. /\ e.pc \in {"sanitize", "send", "nonce"} /\ e.step = run[r].step
      /\ e.kind = kind /\ e.arg = arg /\ e.nonce = IF kind = "send" THEN arg ELSE NoNonce
      /\ e.pc = "send" => kind = "send" /\ arg # NoNonce
      /\ e.pc = "nonce" => kind # "complete"
  BY TypesOfRuns DEF RunType
<1>5. run[r].step = 1
  BY <1>1, TypesOfRuns DEF RunOK
<1> HIDE DEF e
<1>6. RunOK(e)
  BY <1>2, <1>4, <1>5 DEF RunOK, Automatic
<1>7. QED
  BY <1>1, <1>3, <1>6, ScriptOnly

LEMMA SanitizeIInv ==
    ASSUME IInv, NEW r \in Runs, Sanitize(r)
    PROVE  IInv'
<1> DEFINE n == IF run[r].arg # NoNonce THEN run[r].arg ELSE FirstAvailableNonce
           e == IF run[r].kind = "complete" THEN [run[r] EXCEPT !.pc = "send", !.nonce = n]
                                            ELSE [run[r] EXCEPT !.pc = "nonce", !.salt = n]
<1>1. run[r].pc = "sanitize" /\ run' = [run EXCEPT ![r] = e] /\ UNCHANGED <<listed, chainNonce, log>>
  BY TypesOfRuns DEF Sanitize, At, IInv, TypeOK
<1>2. n \in Nat /\ (run[r].arg = NoNonce => \A q \in run[r].seen : q.nonce < n)
  BY TypesOfRuns, ListedNonces DEF RunType
<1>3. /\ e \in RunType
      /\ RunOK(e)
  <2> HIDE DEF n
  <2>1. QED
    BY <1>1, <1>2, TypesOfRuns, ZenonT(60) DEF RunOK, Automatic, AllKinds, RunType
<1>4. QED
  BY <1>1, <1>3, ScriptOnly

LEMMA PickNonceIInv ==
    ASSUME IInv, NEW r \in Runs, PickNonce(r)
    PROVE  IInv'
<1> DEFINE n == IF run[r].onchain THEN chainNonce ELSE FirstAvailableNonce
           e == [run[r] EXCEPT !.pc = "send", !.nonce = n]
<1>1. run[r].pc = "nonce" /\ run' = [run EXCEPT ![r] = e] /\ UNCHANGED <<listed, chainNonce, log>>
  BY TypesOfRuns DEF PickNonce, At, IInv, TypeOK
<1>2. n \in Nat /\ (~run[r].onchain => \A q \in run[r].seen : q.nonce < n)
  BY TypesOfRuns, ListedNonces DEF IInv, TypeOK, RunType
<1>3. run[r].kind # "complete"
  BY <1>1, TypesOfRuns DEF RunOK
<1>4. /\ e \in RunType
      /\ RunOK(e)
  <2> HIDE DEF n
  <2>1. QED
    BY <1>1, <1>2, <1>3, TypesOfRuns, ZenonT(60) DEF RunOK, Automatic, AllKinds, RunType
<1>5. QED
  BY <1>1, <1>4, ScriptOnly

LEMMA GiveUpIInv ==
    ASSUME IInv, NEW r \in Runs, GiveUp(r)
    PROVE  IInv'
<1> DEFINE e == [run[r] EXCEPT !.pc = "done"]
<1>1. /\ run[r].pc \notin {"idle", "done"} /\ run' = [run EXCEPT ![r] = e]
      /\ UNCHANGED <<listed, chainNonce, log>>
  BY TypesOfRuns DEF GiveUp, Running, IInv, TypeOK
<1>2. /\ e \in RunType
      /\ RunOK(e)
  BY <1>1, TypesOfRuns DEF RunOK, Automatic, RunType
<1>3. QED
  BY <1>1, <1>2, ScriptOnly

(* A script that sends: what it sends, and what it does afterwards.        *)
LEMMA Sending ==
    ASSUME IInv, NEW r \in Runs, run[r].pc = "send"
    PROVE  /\ Current(r) \in Transactions /\ Current(r) \notin listed
           /\ Sent(r) \in RunType /\ RunOK(Sent(r))
           /\ Sent(r).pc \in {"send", "done"}
           /\ Sent(r).pc = "send" => run[r].step < Sent(r).step
           /\ Sent(r).onchain = run[r].onchain /\ Sent(r).nonce = run[r].nonce
           /\ Sent(r).kind = run[r].kind
<1>1. /\ run[r] \in RunType /\ RunOK(run[r]) /\ run[r].nonce \in Nat /\ run[r].step \in {1, 2}
      /\ run[r].step = 2 => run[r].kind = "complete"
  BY TypesOfRuns DEF RunOK, RunType
<1>2. Current(r) \in Transactions
  BY <1>1 DEF Current, StepNonce, Transactions, RunType
<1>3. Current(r) \notin listed
  BY <1>1 DEF IInv, AllListedOK, ListedOK, Current
<1>4. CASE run[r].kind = "complete" /\ run[r].step = 1
  <2>1. Sent(r) = [run[r] EXCEPT !.step = 2]
    BY <1>4 DEF Sent
  <2>2. QED
    BY <1>1, <1>2, <1>3, <1>4, <2>1 DEF RunType, RunOK, Automatic
<1>5. CASE ~(run[r].kind = "complete" /\ run[r].step = 1)
  <2>1. Sent(r) = [run[r] EXCEPT !.pc = "done"]
    BY <1>5 DEF Sent
  <2>2. QED
    BY <1>1, <1>2, <1>3, <1>5, <2>1 DEF RunType, RunOK, Automatic
<1>6. QED
  BY <1>4, <1>5

(* The server lists what a script sent.                                    *)
LEMMA SubmitKeeps ==
    ASSUME IInv, NEW r \in Runs, run[r].pc = "send",
           run' = [run EXCEPT ![r] = Sent(r)], listed' = listed \cup {Current(r)}
    PROVE  /\ RunsOK' /\ AllListedOK' /\ listed' \in SUBSET Transactions
           /\ run' \in [Runs -> RunType']
<1>1. \A s \in Runs : run'[s] = IF s = r THEN Sent(r) ELSE run[s]
  BY DEF IInv, TypeOK
<1>2. RunsOK'
  BY <1>1, Sending, TypesOfRuns DEF RunsOK
<1>3. \A s \in Runs : run'[s] \in RunType'
  <2>1. \A s \in Runs : run'[s] \in RunType
    BY <1>1, Sending, TypesOfRuns
  <2>2. RunType \subseteq RunType'
    BY DEF RunType
  <2>3. QED
    BY <2>1, <2>2
<1>4. listed' \in SUBSET Transactions /\ run' \in [Runs -> RunType']
  BY <1>3, Sending DEF IInv, TypeOK
<1>5. ASSUME NEW tx \in listed
      PROVE  ListedOK(tx)'
  <2>1. tx.run \in Runs /\ ListedOK(tx)
    BY DEF IInv, TypeOK, Transactions, AllListedOK
  <2>2. CASE tx.run = r
    <3>1. tx.step < run[r].step
      BY <2>1, <2>2 DEF ListedOK
    <3>2. run[r].step \in Nat /\ tx.step \in Nat /\ (Sent(r).pc = "send" => Sent(r).step \in Nat)
      BY Sending, TypesOfRuns DEF RunType, IInv, TypeOK, Transactions
    <3>3. Sent(r).pc = "send" => tx.step < Sent(r).step
      BY <3>1, <3>2, Sending
    <3>4. QED
      BY <1>1, <2>1, <2>2, <3>3, Sending DEF ListedOK
  <2>3. CASE tx.run # r
    BY <1>1, <2>1, <2>3 DEF ListedOK
  <2>4. QED
    BY <2>2, <2>3
<1>6. ASSUME NEW tx \in {Current(r)}
      PROVE  ListedOK(tx)'
  <2>1. /\ tx.run = r /\ tx.step = run[r].step
        /\ tx.onchain = run[r].onchain
        /\ tx.nonce = run[r].nonce + run[r].step - 1
    BY DEF Current, StepNonce
  <2>2. run[r].nonce \in Nat /\ (run[r].step = 2 => run[r].kind = "complete")
    BY TypesOfRuns DEF RunOK
  <2>3. QED
    BY <1>1, <2>1, <2>2, Sending DEF ListedOK
<1>7. IsFiniteSet(listed')
  BY FS_AddElement DEF IInv, AllListedOK
<1>8. AllListedOK'
  BY <1>5, <1>6, <1>7 DEF AllListedOK
<1>9. QED
  BY <1>2, <1>4, <1>8

(* Types and the log survive when transactions are added and one executed. *)
LEMMA LogKeeps ==
    ASSUME IInv, listed \subseteq listed'
    PROVE  /\ UNCHANGED <<chainNonce, log>> =>
                 chainNonce' \in Nat /\ log' \in Seq([tx : listed', ok : BOOLEAN]) /\ LogOK'
           /\ \A tx \in listed', ok \in BOOLEAN : Perform(tx, ok) =>
                 chainNonce' \in Nat /\ log' \in Seq([tx : listed', ok : BOOLEAN]) /\ LogOK'
<1> DEFINE E == [tx : listed', ok : BOOLEAN]
<1>1. log \in Seq([tx : listed, ok : BOOLEAN]) /\ chainNonce \in Nat /\ LogOK
  BY DEF IInv, TypeOK
<1>2. [tx : listed, ok : BOOLEAN] \subseteq E
  OBVIOUS
<1>3. log \in Seq(E)
  BY <1>1, <1>2, SeqMonotonic, Zenon
<1>4. UNCHANGED <<chainNonce, log>> => chainNonce' \in Nat /\ log' \in Seq(E) /\ LogOK'
  BY <1>1, <1>3 DEF LogOK
<1>5. ASSUME NEW tx \in listed', NEW ok \in BOOLEAN, Perform(tx, ok)
      PROVE  chainNonce' \in Nat /\ log' \in Seq(E) /\ LogOK'
  <2> DEFINE e == [tx |-> tx, ok |-> ok]
  <2>1. /\ e \in E /\ e.tx.nonce = chainNonce
        /\ log' = Append(log, e) /\ chainNonce' = chainNonce + 1
    BY <1>5 DEF Perform
  <2> HIDE DEF e, E
  <2>2. log' \in Seq(E) /\ chainNonce' \in Nat
    BY <1>1, <1>3, <2>1
  <2>3. /\ Len(log') = Len(log) + 1 /\ Len(log) \in Nat /\ log'[Len(log) + 1] = e
        /\ \A i \in 1..Len(log) : log'[i] = log[i]
        /\ DOMAIN log = 1..Len(log) /\ DOMAIN log' = 1..(Len(log) + 1)
    BY <1>3, <2>1
  <2>4. LogOK'
    BY <1>1, <2>1, <2>3 DEF LogOK
  <2>5. QED
    BY <2>2, <2>4 DEF E
<1>6. QED
  BY <1>4, <1>5

LEMMA SubmitIInv ==
    ASSUME IInv, NEW r \in Runs, Propose(r) \/ ExecuteOnchain(r)
    PROVE  IInv'
<1>1. /\ run[r].pc = "send" /\ run' = [run EXCEPT ![r] = Sent(r)]
      /\ listed' = listed \cup {Current(r)}
      /\ \/ UNCHANGED <<chainNonce, log>>
         \/ \E ok \in BOOLEAN : Perform(Current(r), ok)
  BY DEF Propose, ExecuteOnchain, At
<1>2. /\ RunsOK' /\ AllListedOK' /\ listed' \in SUBSET Transactions
      /\ run' \in [Runs -> RunType']
  BY <1>1, SubmitKeeps
<1>3. chainNonce' \in Nat /\ log' \in Seq([tx : listed', ok : BOOLEAN]) /\ LogOK'
  BY <1>1, LogKeeps
<1>4. QED
  BY <1>2, <1>3 DEF IInv, TypeOK, RunType

LEMMA OwnersExecuteIInv ==
    ASSUME IInv, NEW tx \in listed, OwnersExecute(tx)
    PROVE  IInv'
<1>1. UNCHANGED <<run, listed>> /\ \E ok \in BOOLEAN : Perform(tx, ok)
  BY DEF OwnersExecute
<1>2. chainNonce' \in Nat /\ log' \in Seq([tx : listed', ok : BOOLEAN]) /\ LogOK'
  BY <1>1, LogKeeps
<1>3. RunsOK' /\ AllListedOK'
  BY <1>1 DEF IInv, RunsOK, AllListedOK, ListedOK
<1>4. QED
  BY <1>1, <1>2, <1>3 DEF IInv, TypeOK

LEMMA StepIInv == IInv /\ [Next]_vars => IInv'
<1> SUFFICES ASSUME IInv, [Next]_vars PROVE IInv'
  OBVIOUS
<1>1. ASSUME NEW r \in Runs, NEW kind \in Kinds, NEW onchain \in Onchain,
             NEW arg \in Nonces \cup {NoNonce}, Start(r, kind, onchain, arg)
      PROVE  IInv'
  BY <1>1, StartIInv
<1>2. ASSUME NEW r \in Runs,
             Sanitize(r) \/ PickNonce(r) \/ Propose(r) \/ ExecuteOnchain(r) \/ GiveUp(r)
      PROVE  IInv'
  BY <1>2, SanitizeIInv, PickNonceIInv, SubmitIInv, GiveUpIInv
<1>3. ASSUME NEW tx \in listed, OwnersExecute(tx)
      PROVE  IInv'
  BY <1>3, OwnersExecuteIInv
<1>4. CASE UNCHANGED vars
  BY <1>4 DEF vars, IInv, TypeOK, RunsOK, AllListedOK, ListedOK, LogOK
<1>5. QED
  BY <1>1, <1>2, <1>3, <1>4 DEF Next

LEMMA Invariance == Spec => []IInv
BY InitIInv, StepIInv, PTL DEF Spec

(* Runs, transactions and the log of the Safe only ever have the values    *)
(* they should, whatever nonces are given and however runs overlap.        *)
THEOREM TypesAreRight == Spec => []TypeOK
<1>1. IInv => TypeOK
  BY DEF IInv
<1>2. QED
  BY <1>1, Invariance, PTL
-----------------------------------------------------------------------------
(***************************************************************************)
(* Runs that overlap.                                                      *)
(***************************************************************************)
(* A run that chose its own nonce sends nothing under one it saw taken.    *)
LEMMA AboveSeen ==
    ASSUME IInv, NEW p \in listed, NEW q \in listed, Before(p, q),
           ~q.onchain \/ run[q.run].kind = "complete",
           run[q.run].arg = NoNonce \/ run[q.run].kind \in {"process", "single"}
    PROVE  p.nonce < run[q.run].nonce /\ run[q.run].nonce <= q.nonce
<1>1. /\ q.run \in Runs /\ q.step \in {1, 2} /\ ListedOK(q) /\ RunOK(run[q.run])
      /\ NoNonce \notin Nat
  BY DEF IInv, TypeOK, Transactions, AllListedOK, RunsOK, NoNonce
<1>2. Automatic(run[q.run])
  BY <1>1 DEF Automatic, ListedOK
<1>3. p.nonce < run[q.run].nonce
  BY <1>1, <1>2 DEF RunOK, Before
<1>4. QED
  BY <1>1, <1>3 DEF ListedOK

LEMMA IInvPending == IInv => PendingIsNotOverwritten
<1> SUFFICES ASSUME IInv, NEW p \in listed, NEW q \in listed, p.nonce = q.nonce,
                    NonceChosen(p), NonceChosen(q), Before(p, q) \/ Before(q, p)
             PROVE  FALSE
  BY DEF PendingIsNotOverwritten
<1>1. p.nonce \in Nat /\ run[p.run].nonce \in Nat /\ run[q.run].nonce \in Nat
  BY DEF IInv, TypeOK, Transactions, AllListedOK, ListedOK
<1>2. CASE Before(p, q)
  BY <1>1, <1>2, AboveSeen DEF NonceChosen
<1>3. CASE Before(q, p)
  BY <1>1, <1>3, AboveSeen DEF NonceChosen
<1>4. QED
  BY <1>2, <1>3

LEMMA IInvFunds == IInv => FundsFollowOrders
<1> SUFFICES ASSUME IInv, NEW i \in DOMAIN log,
                    run[log[i].tx.run].kind = "complete", log[i].tx.step = 2
             PROVE  LET tx == log[i].tx
                    IN  \E j \in 1..(i-1) :
                /\ log[j].tx.nonce = tx.nonce - 1
                /\ \/ log[j].tx.run = tx.run /\ log[j].tx.step = 1
                   \/ log[j].tx.run # tx.run
                        /\ \/ ~NonceChosen(log[j].tx) \/ run[tx.run].arg # NoNonce
                           \/ ~Before(log[j].tx, tx)
  BY DEF FundsFollowOrders
<1> DEFINE tx == log[i].tx
           q  == log[i - 1].tx
<1>1. DOMAIN log = 1..Len(log) /\ \A k \in 1..Len(log) : log[k].tx \in listed
  <2>1. log \in Seq([tx : listed, ok : BOOLEAN])
    BY DEF IInv, TypeOK
  <2>2. DOMAIN log = 1..Len(log)
    BY <2>1, LenProperties
  <2>3. \A k \in 1..Len(log) : log[k] \in [tx : listed, ok : BOOLEAN]
    BY <2>1, ElementOfSeq, Zenon
  <2>4. QED
    BY <2>2, <2>3
<1>2. \A k \in 1..Len(log) : log[k].tx.nonce = k - 1
  BY <1>1 DEF IInv, LogOK
<1>3. \A p \in listed : ListedOK(p) /\ p.step \in {1, 2}
  BY DEF IInv, AllListedOK, TypeOK, Transactions
<1>4. i \in 1..Len(log) /\ tx \in listed /\ tx.nonce = i - 1
  BY <1>1, <1>2
<1>5. run[tx.run].nonce \in Nat /\ tx.nonce = run[tx.run].nonce + 1
  BY <1>3, <1>4 DEF ListedOK
<1>6. i - 1 \in 1..Len(log)
  BY <1>4, <1>5
<1>7. q \in listed /\ q.nonce = i - 2 /\ ListedOK(q) /\ q.step \in {1, 2}
  BY <1>1, <1>2, <1>3, <1>6
<1> HIDE DEF tx, q
<1>8. q.run = tx.run => q.step = 1
  BY <1>5, <1>7, <1>4 DEF ListedOK
<1>9. q.run # tx.run /\ run[tx.run].arg = NoNonce => ~Before(q, tx)
  BY <1>4, <1>5, <1>7, AboveSeen, SMTT(30) DEF tx
<1>10. /\ q.nonce = tx.nonce - 1
       /\ \/ q.run = tx.run /\ q.step = 1
          \/ q.run # tx.run /\ \/ ~NonceChosen(q) \/ run[tx.run].arg # NoNonce
                               \/ ~Before(q, tx)
  BY <1>4, <1>7, <1>8, <1>9
<1>11. i - 1 \in 1..(i - 1)
  BY <1>6
<1>12. QED
  BY <1>10, <1>11 DEF tx, q

(* A proposal whose nonce was chosen by the script never gets the nonce of *)
(* one that was there when the script started.                             *)
THEOREM NoPendingIsOverwritten == Spec => []PendingIsNotOverwritten
  BY Invariance, IInvPending, PTL

(* The funds of complete_liquidity_provision are only executed after its   *)
(* orders, unless their nonce was taken by a transaction that this script  *)
(* could not see.                                                          *)
THEOREM FundsComeAfterOrders == Spec => []FundsFollowOrders
  BY Invariance, IInvFunds, PTL
-----------------------------------------------------------------------------
(***************************************************************************)
(* Runs that let the server choose their nonces.                           *)
(***************************************************************************)
(* No nonce was ever left out: what was executed comes first, and no run   *)
(* is about to send with a nonce beyond the next one.                      *)
NoGaps ==
    /\ chainNonce <= FirstAvailableNonce
    /\ \A n \in Nat : n < FirstAvailableNonce => \E tx \in listed : tx.nonce = n
    /\ \A tx \in listed : tx.onchain => tx.nonce < chainNonce
    /\ \A r \in Runs : /\ run[r].arg = NoNonce
                       /\ run[r].pc = "send" => StepNonce(r) <= FirstAvailableNonce

GInv == IInv /\ NoGaps

(* There is a proposal whose turn it is as long as one is pending.         *)
SomeTurnIsNext ==
    \A tx \in listed : tx.nonce >= chainNonce =>
        \E next \in listed : ~next.onchain /\ next.nonce = chainNonce

LEMMA InitGInv == Init => GInv
<1> SUFFICES ASSUME Init PROVE GInv
  OBVIOUS
<1>1. IInv
  BY InitIInv
<1>2. FirstAvailableNonce = 0
  BY DEF Init, FirstAvailableNonce
<1>3. NoGaps
  BY <1>2 DEF Init, NoGaps
<1>4. QED
  BY <1>1, <1>3 DEF GInv

(* A transaction that leaves out no nonce moves the next one at most by 1. *)
LEMMA ListedWithoutGap ==
    ASSUME IInv, NEW tx \in Transactions, tx.nonce <= FirstAvailableNonce,
           listed' = listed \cup {tx}
    PROVE  /\ FirstAvailableNonce' \in Nat /\ FirstAvailableNonce <= FirstAvailableNonce'
           /\ tx.nonce < FirstAvailableNonce'
           /\ \A n \in Nat : n < FirstAvailableNonce' => n < FirstAvailableNonce \/ n = tx.nonce
<1>1. FirstAvailableNonce' = NonceAfter(listed \cup {tx}) /\ FirstAvailableNonce = NonceAfter(listed)
  BY DEF FirstAvailableNonce, NonceAfter
<1>2. IsFiniteSet(listed \cup {tx}) /\ \A q \in listed \cup {tx} : q.nonce \in Nat
  BY FS_AddElement, ListedNonces DEF IInv, AllListedOK, Transactions
<1>3. FirstAvailableNonce \in Nat /\ \A q \in listed : q.nonce < FirstAvailableNonce
  BY ListedNonces
<1>4. PICK last \in listed \cup {tx} : last.nonce + 1 = FirstAvailableNonce'
  BY <1>1, <1>2, NonceAfterAll
<1>5. /\ FirstAvailableNonce' \in Nat
      /\ \A q \in listed \cup {tx} : q.nonce < FirstAvailableNonce'
  BY <1>1, <1>2, NonceAfterAll
<1>6. FirstAvailableNonce <= FirstAvailableNonce'
  <2>1. CASE listed = {}
    BY <1>3, <1>5, <2>1 DEF FirstAvailableNonce
  <2>2. CASE listed # {}
    <3>1. PICK q \in listed : q.nonce + 1 = FirstAvailableNonce
      BY <1>1, <2>2, ListedNonces, NonceAfterAll DEF IInv, AllListedOK
    <3>2. q.nonce < FirstAvailableNonce' /\ q.nonce \in Nat
      BY <1>2, <1>5
    <3>3. QED
      BY <1>3, <1>5, <3>1, <3>2
  <2>3. QED
    BY <2>1, <2>2
<1>7. ASSUME NEW n \in Nat, n < FirstAvailableNonce', n >= FirstAvailableNonce
      PROVE  n = tx.nonce
  <2>1. last.nonce \in Nat /\ n <= last.nonce
    BY <1>2, <1>4, <1>5, <1>7
  <2>2. last = tx
    BY <1>3, <1>4, <1>7, <2>1
  <2>3. QED
    BY <1>3, <1>7, <2>1, <2>2
<1>8. QED
  BY <1>3, <1>5, <1>6, <1>7

(* Steps of one script that send nothing.                                  *)
LEMMA ScriptOnlyGInv ==
    ASSUME GInv, IInv', NEW r \in Runs, NEW e, run' = [run EXCEPT ![r] = e],
           UNCHANGED <<listed, chainNonce, log>>,
           e.arg = NoNonce, e.pc = "send" => e.nonce + e.step - 1 <= FirstAvailableNonce
    PROVE  GInv'
<1>1. FirstAvailableNonce' = FirstAvailableNonce
  BY DEF FirstAvailableNonce
<1>2. \A s \in Runs : run'[s] = IF s = r THEN e ELSE run[s]
  BY DEF GInv, IInv, TypeOK
<1>3. ASSUME NEW s \in Runs
      PROVE  run'[s].arg = NoNonce /\ (run'[s].pc = "send" => StepNonce(s)' <= FirstAvailableNonce')
  BY <1>1, <1>2 DEF GInv, NoGaps, StepNonce
<1>4. NoGaps'
  BY <1>1, <1>3 DEF GInv, NoGaps
<1>5. QED
  BY <1>4 DEF GInv

LEMMA GScript ==
    ASSUME Nonces = {}, GInv, IInv', NEW r \in Runs,
           \/ \E kind \in Kinds, onchain \in Onchain, arg \in Nonces \cup {NoNonce} :
                 Start(r, kind, onchain, arg)
           \/ Sanitize(r) \/ PickNonce(r) \/ GiveUp(r)
    PROVE  GInv'
<1> DEFINE e == run'[r]
<1>1. /\ run[r] \in RunType /\ run \in [Runs -> RunType] /\ RunOK(run[r])
      /\ FirstAvailableNonce \in Nat /\ chainNonce \in Nat /\ chainNonce <= FirstAvailableNonce
      /\ run[r].arg = NoNonce /\ (run[r].pc = "send" => StepNonce(r) <= FirstAvailableNonce)
  BY TypesOfRuns, ListedNonces, SMTT(30) DEF GInv, IInv, TypeOK, NoGaps, RunType
<1>2. /\ UNCHANGED <<listed, chainNonce, log>> /\ run' = [run EXCEPT ![r] = e]
      /\ e.arg = NoNonce /\ (e.pc = "send" => e.nonce + e.step - 1 <= FirstAvailableNonce)
  <2>1. CASE \E kind \in Kinds, onchain \in Onchain, arg \in Nonces \cup {NoNonce} :
                Start(r, kind, onchain, arg)
    <3>1. PICK kind \in Kinds, onchain \in Onchain : Start(r, kind, onchain, NoNonce)
      BY <2>1
    <3>2. run' = [run EXCEPT ![r] = [run[r] EXCEPT !.pc      = IF kind \in {"complete", "single"}
                                                               THEN "sanitize" ELSE "nonce",
                                                   !.kind    = kind,
                                                   !.onchain = onchain,
                                                   !.arg     = NoNonce,
                                                   !.nonce   = NoNonce,
                                                   !.seen    = listed]]
      BY <1>1, <3>1, ZenonT(60) DEF Start
    <3>3. e.arg = NoNonce /\ e.pc \in {"sanitize", "nonce"}
      BY <1>1, <3>2 DEF RunType
    <3>4. QED
      BY <3>1, <3>2, <3>3, Zenon DEF Start
  <2>2. CASE Sanitize(r)
    <3>1. run[r].step = 1
      BY <1>1, <2>2 DEF Sanitize, At, RunOK
    <3>2. CASE run[r].kind = "complete"
      <4>1. run' = [run EXCEPT ![r] = [run[r] EXCEPT !.pc = "send", !.nonce = FirstAvailableNonce]]
        BY <1>1, <2>2, <3>2 DEF Sanitize
      <4>2. e.arg = NoNonce /\ e.nonce = FirstAvailableNonce /\ e.step = 1
        BY <1>1, <3>1, <4>1 DEF RunType
      <4>3. QED
        BY <1>1, <2>2, <4>1, <4>2 DEF Sanitize
    <3>3. CASE run[r].kind # "complete"
      <4>1. run' = [run EXCEPT ![r] = [run[r] EXCEPT !.pc = "nonce", !.salt = FirstAvailableNonce]]
        BY <1>1, <2>2, <3>3 DEF Sanitize
      <4>2. e.arg = NoNonce /\ e.pc = "nonce"
        BY <1>1, <4>1 DEF RunType
      <4>3. QED
        BY <2>2, <4>1, <4>2 DEF Sanitize
    <3>4. QED
      BY <3>2, <3>3
  <2>3. CASE PickNonce(r)
    <3>1. run[r].step = 1
      BY <1>1, <2>3 DEF PickNonce, At, RunOK
    <3>2. PICK n \in {chainNonce, FirstAvailableNonce} :
              run' = [run EXCEPT ![r] = [run[r] EXCEPT !.pc = "send", !.nonce = n]]
      BY <1>1, <2>3 DEF PickNonce
    <3>3. e.arg = NoNonce /\ e.nonce = n /\ e.step = 1
      BY <1>1, <3>1, <3>2 DEF RunType
    <3>4. n + 1 - 1 <= FirstAvailableNonce
      BY <1>1, <3>2
    <3>5. UNCHANGED <<listed, chainNonce, log>>
      BY <2>3 DEF PickNonce
    <3>6. run' = [run EXCEPT ![r] = e]
      BY <1>1, <3>2
    <3>7. QED
      BY <3>3, <3>4, <3>5, <3>6
  <2>4. CASE GiveUp(r)
    BY <1>1, <2>4 DEF GiveUp, RunType
  <2>5. QED
    BY <2>1, <2>2, <2>3, <2>4
<1>3. PICK f : f = run'[r]
  OBVIOUS
<1>4. QED
  BY <1>2, <1>3, ScriptOnlyGInv

LEMMA GSubmit ==
    ASSUME GInv, IInv', NEW r \in Runs, Propose(r) \/ ExecuteOnchain(r)
    PROVE  GInv'
<1>1. PICK tx : tx = Current(r)
  OBVIOUS
<1>2. /\ run[r].pc = "send" /\ run' = [run EXCEPT ![r] = Sent(r)]
      /\ listed' = listed \cup {tx} /\ tx.nonce = StepNonce(r) /\ tx.onchain = run[r].onchain
      /\ \/ chainNonce' = chainNonce /\ ~tx.onchain
         \/ chainNonce' = chainNonce + 1 /\ tx.nonce = chainNonce
  BY <1>1 DEF Propose, ExecuteOnchain, At, Perform, Current
<1>3. /\ run[r] \in RunType /\ run[r].nonce \in Nat
      /\ FirstAvailableNonce \in Nat /\ chainNonce \in Nat /\ tx \in Transactions
  BY <1>1, <1>2, TypesOfRuns, ListedNonces, Sending DEF GInv, IInv, TypeOK, RunOK
<1>4. tx.nonce <= FirstAvailableNonce /\ tx.nonce \in Nat
  BY <1>2, <1>3 DEF GInv, NoGaps, Transactions
<1>5. /\ FirstAvailableNonce' \in Nat /\ FirstAvailableNonce <= FirstAvailableNonce'
      /\ tx.nonce < FirstAvailableNonce'
      /\ \A n \in Nat : n < FirstAvailableNonce' => n < FirstAvailableNonce \/ n = tx.nonce
  BY <1>2, <1>3, <1>4, ListedWithoutGap DEF GInv
<1>6. chainNonce' <= FirstAvailableNonce'
  BY <1>2, <1>3, <1>4, <1>5 DEF GInv, NoGaps
<1>7. ASSUME NEW n \in Nat, n < FirstAvailableNonce'
      PROVE  \E t \in listed' : t.nonce = n
  BY <1>2, <1>5, <1>7 DEF GInv, NoGaps
<1>8. ASSUME NEW t \in listed', t.onchain
      PROVE  t.nonce < chainNonce'
  <2>1. CASE t \in listed
    <3>1. t.nonce < chainNonce /\ t.nonce \in Nat
      BY <1>8, <2>1, ListedNonces DEF GInv, NoGaps
    <3>2. QED
      BY <1>2, <1>3, <3>1
  <2>2. CASE t = tx
    BY <1>2, <1>3, <1>8, <2>2
  <2>3. QED
    BY <1>2, <2>1, <2>2
<1>9. ASSUME NEW s \in Runs
      PROVE  run'[s].arg = NoNonce /\ (run'[s].pc = "send" => StepNonce(s)' <= FirstAvailableNonce')
  <2>1. run'[s] = IF s = r THEN Sent(r) ELSE run[s]
    BY <1>2 DEF GInv, IInv, TypeOK
  <2>2. CASE s # r
    <3>1. run[s].arg = NoNonce /\ (run[s].pc = "send" => StepNonce(s) <= FirstAvailableNonce)
      BY DEF GInv, NoGaps
    <3>2. run[s].pc = "send" => StepNonce(s) \in Int
      BY TypesOfRuns DEF StepNonce, RunOK, RunType, GInv
    <3>3. QED
      BY <1>3, <1>5, <2>1, <2>2, <3>1, <3>2 DEF StepNonce
  <2>3. CASE s = r
    <3>1. run[r].arg = NoNonce
      BY DEF GInv, NoGaps
    <3>2. CASE run[r].kind = "complete" /\ run[r].step = 1
      <4>1. run'[s] = [run[r] EXCEPT !.step = 2]
        BY <2>1, <2>3, <3>2 DEF Sent
      <4>2. run'[s].arg = NoNonce /\ StepNonce(s)' = tx.nonce + 1
        BY <1>2, <1>3, <3>1, <3>2, <4>1 DEF StepNonce, RunType
      <4>3. QED
        BY <1>4, <1>5, <4>2
    <3>3. CASE ~(run[r].kind = "complete" /\ run[r].step = 1)
      BY <1>3, <2>1, <2>3, <3>1, <3>3 DEF Sent, RunType
    <3>4. QED
      BY <3>2, <3>3
  <2>4. QED
    BY <2>2, <2>3
<1>10. NoGaps'
  BY <1>6, <1>7, <1>8, <1>9 DEF NoGaps
<1>11. QED
  BY <1>10 DEF GInv

LEMMA GOwnersExecute ==
    ASSUME GInv, IInv', NEW tx \in listed, OwnersExecute(tx)
    PROVE  GInv'
<1>1. /\ UNCHANGED <<run, listed>> /\ tx.nonce = chainNonce /\ chainNonce' = chainNonce + 1
      /\ FirstAvailableNonce' = FirstAvailableNonce
  BY DEF OwnersExecute, Perform, FirstAvailableNonce
<1>2. /\ tx.nonce < FirstAvailableNonce /\ FirstAvailableNonce \in Nat
      /\ \A t \in listed : t.nonce \in Nat
  BY ListedNonces DEF GInv
<1>3. chainNonce' <= FirstAvailableNonce' /\ \A t \in listed : t.nonce < chainNonce => t.nonce < chainNonce'
  BY <1>1, <1>2
<1>4. NoGaps'
  BY <1>1, <1>3 DEF GInv, NoGaps, StepNonce
<1>5. QED
  BY <1>4 DEF GInv

LEMMA StepGInv == Nonces = {} /\ GInv /\ [Next]_vars => GInv'
<1> SUFFICES ASSUME Nonces = {}, GInv, [Next]_vars PROVE GInv'
  OBVIOUS
<1>1. IInv'
  BY StepIInv DEF GInv
<1>2. ASSUME NEW r \in Runs, NEW kind \in Kinds, NEW onchain \in Onchain,
             NEW arg \in Nonces \cup {NoNonce}, Start(r, kind, onchain, arg)
      PROVE  GInv'
  BY <1>1, <1>2, GScript
<1>3. ASSUME NEW r \in Runs,
             Sanitize(r) \/ PickNonce(r) \/ Propose(r) \/ ExecuteOnchain(r) \/ GiveUp(r)
      PROVE  GInv'
  BY <1>1, <1>3, GScript, GSubmit
<1>4. ASSUME NEW tx \in listed, OwnersExecute(tx)
      PROVE  GInv'
  BY <1>1, <1>4, GOwnersExecute
<1>5. CASE UNCHANGED vars
  BY <1>1, <1>5 DEF vars, GInv, NoGaps, FirstAvailableNonce, StepNonce
<1>6. QED
  BY <1>2, <1>3, <1>4, <1>5 DEF Next

LEMMA GInvTurn == GInv => SomeTurnIsNext
<1> SUFFICES ASSUME GInv, NEW tx \in listed, tx.nonce >= chainNonce
             PROVE  \E next \in listed : ~next.onchain /\ next.nonce = chainNonce
  BY DEF SomeTurnIsNext
<1>1. /\ chainNonce \in Nat /\ tx.nonce \in Nat /\ tx.nonce < FirstAvailableNonce
      /\ FirstAvailableNonce \in Nat
  BY ListedNonces DEF GInv, IInv, TypeOK
<1>2. PICK next \in listed : next.nonce = chainNonce
  BY <1>1 DEF GInv, NoGaps
<1>3. ~next.onchain
  BY <1>1, <1>2 DEF GInv, NoGaps
<1>4. QED
  BY <1>2, <1>3

(* If users give no nonces, nothing ever blocks the owners: as long as a   *)
(* transaction is pending there is a proposal with the Safe's next nonce,  *)
(* whichever scripts overlap, fail half way or execute on chain.  This is  *)
(* what EveryTurnComes needs besides owners who keep executing.            *)
THEOREM NothingBlocksTheOwners == ASSUME Nonces = {} PROVE Spec => []SomeTurnIsNext
  BY InitGInv, StepGInv, GInvTurn, PTL DEF Spec
-----------------------------------------------------------------------------
(***************************************************************************)
(* The salts of fleets.                                                    *)
(***************************************************************************)
(* A salt is above the nonces its script saw.  The nonce of a proposal is  *)
(* read after its salt, and the nonces that are taken only become more.    *)
SaltOK(e) ==
    /\ e.pc \in {"idle", "sanitize"} => e.salt = NoNonce
    /\ e.kind = "single" /\ e.arg = NoNonce =>
        /\ e.pc \in {"nonce", "send"} => e.salt \in Nat
        /\ e.pc \in {"sanitize", "nonce"} => e.nonce = NoNonce
        /\ e.salt # NoNonce => \A q \in e.seen : q.nonce < e.salt
        /\ ~e.onchain /\ e.pc = "nonce" => e.salt <= FirstAvailableNonce
        /\ ~e.onchain /\ e.nonce # NoNonce => e.salt <= e.nonce

SaltsOK ==
    /\ \A r \in Runs : SaltOK(run[r])
    /\ \A tx \in listed :
          run[tx.run].kind = "single" /\ run[tx.run].arg = NoNonce => run[tx.run].salt \in Nat

LEMMA InitSaltsOK == Init => SaltsOK
BY DEF Init, SaltsOK, SaltOK

LEMMA NoncesGrow ==
    ASSUME IInv, IInv', listed \subseteq listed'
    PROVE  /\ FirstAvailableNonce <= FirstAvailableNonce'
           /\ FirstAvailableNonce \in Nat /\ FirstAvailableNonce' \in Nat
<1>1. FirstAvailableNonce = NonceAfter(listed) /\ FirstAvailableNonce' = NonceAfter(listed')
  BY DEF FirstAvailableNonce, NonceAfter
<1>2. /\ IsFiniteSet(listed) /\ \A tx \in listed : tx.nonce \in Nat
      /\ IsFiniteSet(listed') /\ \A tx \in listed' : tx.nonce \in Nat
  BY DEF IInv, TypeOK, AllListedOK, Transactions
<1>3. /\ NonceAfter(listed) \in Nat /\ NonceAfter(listed') \in Nat
      /\ \A tx \in listed' : tx.nonce < NonceAfter(listed')
  BY <1>2, NonceAfterAll
<1>4. CASE listed = {}
  BY <1>1, <1>2, <1>3, <1>4, NonceAfterAll
<1>5. CASE listed # {}
  <2>1. PICK tx \in listed : tx.nonce + 1 = NonceAfter(listed)
    BY <1>2, <1>5, NonceAfterAll
  <2>2. tx.nonce \in Nat /\ tx.nonce < NonceAfter(listed')
    BY <1>2, <1>3
  <2>3. QED
    BY <1>1, <1>3, <2>1, <2>2
<1>6. QED
  BY <1>4, <1>5

(* Steps of one script that send nothing.                                  *)
LEMMA ScriptOnlySalts ==
    ASSUME IInv, SaltsOK, NEW r \in Runs, NEW e, run' = [run EXCEPT ![r] = e],
           UNCHANGED <<listed, chainNonce, log>>,
           SaltOK(e), run[r].pc # "done",
           run[r].pc = "send" => e = [run[r] EXCEPT !.pc = "done"]
    PROVE  SaltsOK'
<1>1. FirstAvailableNonce' = FirstAvailableNonce
  BY DEF FirstAvailableNonce
<1>2. \A s \in Runs : run'[s] = IF s = r THEN e ELSE run[s]
  BY DEF IInv, TypeOK
<1>3. \A s \in Runs : SaltOK(run[s])'
  BY <1>1, <1>2 DEF SaltsOK, SaltOK
<1>4. ASSUME NEW tx \in listed, run'[tx.run].kind = "single", run'[tx.run].arg = NoNonce
      PROVE  run'[tx.run].salt \in Nat
  <2>1. tx.run \in Runs /\ ListedOK(tx) /\ run[tx.run] \in RunType
    BY TypesOfRuns DEF IInv, TypeOK, Transactions, AllListedOK
  <2>2. CASE tx.run = r
    <3>1. e = [run[r] EXCEPT !.pc = "done"]
      BY <2>1, <2>2 DEF ListedOK
    <3>2. e.salt = run[r].salt /\ e.kind = run[r].kind /\ e.arg = run[r].arg
      BY <2>1, <2>2, <3>1 DEF RunType
    <3>3. QED
      BY <1>2, <1>4, <2>1, <2>2, <3>2 DEF SaltsOK
  <2>3. CASE tx.run # r
    BY <1>2, <1>4, <2>1, <2>3 DEF SaltsOK
  <2>4. QED
    BY <2>2, <2>3
<1>5. QED
  BY <1>3, <1>4 DEF SaltsOK

LEMMA StartSalts ==
    ASSUME IInv, SaltsOK, NEW r \in Runs, NEW kind \in Kinds, NEW onchain \in Onchain,
           NEW arg \in Nonces \cup {NoNonce}, Start(r, kind, onchain, arg)
    PROVE  SaltsOK'
<1> DEFINE e == [run[r] EXCEPT !.pc      = IF kind \in {"complete", "single"} THEN "sanitize"
                                           ELSE IF kind = "send" /\ arg # NoNonce THEN "send"
                                           ELSE "nonce",
                               !.kind    = kind,
                               !.onchain = onchain,
                               !.arg     = arg,
                               !.nonce   = IF kind = "send" THEN arg ELSE NoNonce,
                               !.seen    = listed]
<1>1. run[r].pc = "idle" /\ run' = [run EXCEPT ![r] = e] /\ UNCHANGED <<listed, chainNonce, log>>
  BY TypesOfRuns, ZenonT(60) DEF Start, At, IInv, TypeOK
<1>2. /\ e.pc \in {"sanitize", "send", "nonce"} /\ e.kind = kind /\ e.salt = run[r].salt
      /\ e.nonce = IF kind = "send" THEN arg ELSE NoNonce
      /\ kind = "single" => e.pc = "sanitize"
  BY TypesOfRuns DEF RunType
<1>3. run[r].salt = NoNonce
  BY <1>1 DEF SaltsOK, SaltOK
<1> HIDE DEF e
<1>4. SaltOK(e)
  BY <1>2, <1>3 DEF SaltOK
<1>5. QED
  BY <1>1, <1>4, ScriptOnlySalts

LEMMA SanitizeSalts ==
    ASSUME IInv, SaltsOK, NEW r \in Runs, Sanitize(r)
    PROVE  SaltsOK'
<1> DEFINE n == IF run[r].arg # NoNonce THEN run[r].arg ELSE FirstAvailableNonce
           e == IF run[r].kind = "complete" THEN [run[r] EXCEPT !.pc = "send", !.nonce = n]
                                            ELSE [run[r] EXCEPT !.pc = "nonce", !.salt = n]
<1>1. run[r].pc = "sanitize" /\ run' = [run EXCEPT ![r] = e] /\ UNCHANGED <<listed, chainNonce, log>>
  BY TypesOfRuns DEF Sanitize, At, IInv, TypeOK
<1>2. /\ n \in Nat
      /\ run[r].arg = NoNonce => n = FirstAvailableNonce /\ \A q \in run[r].seen : q.nonce < n
  BY TypesOfRuns, ListedNonces DEF RunType
<1>3. SaltOK(run[r])
  BY DEF SaltsOK
<1>4. CASE run[r].kind = "complete"
  <2>1. e.kind = "complete" /\ e.pc = "send"
    BY <1>4, TypesOfRuns DEF RunType
  <2>2. SaltOK(e)
    BY <2>1 DEF SaltOK
  <2>3. QED
    BY <1>1, <2>2, ScriptOnlySalts
<1>5. CASE run[r].kind # "complete"
  <2>1. /\ e.kind = run[r].kind /\ e.pc = "nonce" /\ e.salt = n /\ e.arg = run[r].arg
        /\ e.nonce = run[r].nonce /\ e.seen = run[r].seen
    BY <1>5, TypesOfRuns DEF RunType
  <2>2. SaltOK(e)
    <3> HIDE DEF n, e
    <3>1. FirstAvailableNonce \in Nat
      BY ListedNonces
    <3>2. QED
      BY <1>1, <1>2, <1>3, <2>1, <3>1 DEF SaltOK
  <2>3. QED
    BY <1>1, <2>2, ScriptOnlySalts
<1>6. QED
  BY <1>4, <1>5

LEMMA PickNonceSalts ==
    ASSUME IInv, SaltsOK, NEW r \in Runs, PickNonce(r)
    PROVE  SaltsOK'
<1> DEFINE n == IF run[r].onchain THEN chainNonce ELSE FirstAvailableNonce
           e == [run[r] EXCEPT !.pc = "send", !.nonce = n]
<1>1. run[r].pc = "nonce" /\ run' = [run EXCEPT ![r] = e] /\ UNCHANGED <<listed, chainNonce, log>>
  BY TypesOfRuns DEF PickNonce, At, IInv, TypeOK
<1>2. /\ e.pc = "send" /\ e.nonce = n /\ e.kind = run[r].kind /\ e.arg = run[r].arg
      /\ e.salt = run[r].salt /\ e.seen = run[r].seen /\ e.onchain = run[r].onchain
  BY TypesOfRuns DEF RunType
<1>3. SaltOK(run[r])
  BY DEF SaltsOK
<1> HIDE DEF e
<1>4. SaltOK(e)
  BY <1>1, <1>2, <1>3 DEF SaltOK
<1>5. QED
  BY <1>1, <1>4, ScriptOnlySalts

LEMMA GiveUpSalts ==
    ASSUME IInv, SaltsOK, NEW r \in Runs, GiveUp(r)
    PROVE  SaltsOK'
<1> DEFINE e == [run[r] EXCEPT !.pc = "done"]
<1>1. /\ run[r].pc \notin {"idle", "done"} /\ run' = [run EXCEPT ![r] = e]
      /\ UNCHANGED <<listed, chainNonce, log>>
  BY TypesOfRuns DEF GiveUp, Running, IInv, TypeOK
<1>2. /\ e.pc = "done" /\ e.nonce = run[r].nonce /\ e.kind = run[r].kind /\ e.arg = run[r].arg
      /\ e.salt = run[r].salt /\ e.seen = run[r].seen /\ e.onchain = run[r].onchain
  BY TypesOfRuns DEF RunType
<1>3. SaltOK(run[r])
  BY DEF SaltsOK
<1>4. SaltOK(e)
  <2> HIDE DEF e
  <2>1. QED
    BY <1>2, <1>3 DEF SaltOK
<1>5. QED
  BY <1>1, <1>4, ScriptOnlySalts

LEMMA SubmitSalts ==
    ASSUME IInv, IInv', SaltsOK, NEW r \in Runs, Propose(r) \/ ExecuteOnchain(r)
    PROVE  SaltsOK'
<1>1. /\ run[r].pc = "send" /\ run' = [run EXCEPT ![r] = Sent(r)]
      /\ listed' = listed \cup {Current(r)}
  BY DEF Propose, ExecuteOnchain, At
<1>2. \A s \in Runs : run'[s] = IF s = r THEN Sent(r) ELSE run[s]
  BY <1>1 DEF IInv, TypeOK
<1>3. /\ Sent(r).pc \in {"send", "done"} /\ Sent(r).nonce = run[r].nonce
      /\ Sent(r).kind = run[r].kind /\ Sent(r).arg = run[r].arg /\ Sent(r).salt = run[r].salt
      /\ Sent(r).seen = run[r].seen /\ Sent(r).onchain = run[r].onchain
  BY <1>1, TypesOfRuns DEF Sent, RunType
<1>4. SaltOK(run[r])
  BY DEF SaltsOK
<1>5. /\ FirstAvailableNonce <= FirstAvailableNonce'
      /\ FirstAvailableNonce \in Nat /\ FirstAvailableNonce' \in Nat
  BY <1>1, NoncesGrow
<1>6. ASSUME NEW s \in Runs
      PROVE  SaltOK(run[s])'
  <2>1. CASE s = r
    BY <1>1, <1>2, <1>3, <1>4, <2>1 DEF SaltOK
  <2>2. CASE s # r
    <3>1. SaltOK(run[s]) /\ run'[s] = run[s]
      BY <1>2, <2>2 DEF SaltsOK
    <3>2. run[s].salt \in Nat \cup {NoNonce}
      BY TypesOfRuns DEF RunType
    <3>3. QED
      BY <1>5, <3>1, <3>2 DEF SaltOK, NoNonce
  <2>3. QED
    BY <2>1, <2>2
<1>7. ASSUME NEW tx \in listed', run'[tx.run].kind = "single", run'[tx.run].arg = NoNonce
      PROVE  run'[tx.run].salt \in Nat
  <2>1. CASE tx.run = r
    BY <1>1, <1>2, <1>3, <1>4, <1>7, <2>1 DEF SaltOK
  <2>2. CASE tx.run # r
    <3>1. tx \in listed /\ tx.run \in Runs
      BY <1>1, <2>2 DEF Current, IInv, TypeOK, Transactions
    <3>2. QED
      BY <1>2, <1>7, <2>2, <3>1 DEF SaltsOK
  <2>3. QED
    BY <2>1, <2>2
<1>8. QED
  BY <1>6, <1>7 DEF SaltsOK

LEMMA StepSalts == IInv /\ IInv' /\ SaltsOK /\ [Next]_vars => SaltsOK'
<1> SUFFICES ASSUME IInv, IInv', SaltsOK, [Next]_vars PROVE SaltsOK'
  OBVIOUS
<1>1. ASSUME NEW r \in Runs, NEW kind \in Kinds, NEW onchain \in Onchain,
             NEW arg \in Nonces \cup {NoNonce}, Start(r, kind, onchain, arg)
      PROVE  SaltsOK'
  BY <1>1, StartSalts
<1>2. ASSUME NEW r \in Runs,
             Sanitize(r) \/ PickNonce(r) \/ Propose(r) \/ ExecuteOnchain(r) \/ GiveUp(r)
      PROVE  SaltsOK'
  BY <1>2, SanitizeSalts, PickNonceSalts, SubmitSalts, GiveUpSalts
<1>3. CASE UNCHANGED <<run, listed>>
  BY <1>3 DEF SaltsOK, SaltOK, FirstAvailableNonce
<1>4. QED
  BY <1>1, <1>2, <1>3 DEF Next, OwnersExecute, vars

LEMMA SaltsAreUnique == IInv /\ SaltsOK => SaltIsUnique
<1> SUFFICES ASSUME IInv, SaltsOK, NEW p \in listed, NEW q \in listed,
                    run[p.run].kind = "single", run[p.run].arg = NoNonce, ~p.onchain,
                    run[q.run].kind = "single", run[q.run].arg = NoNonce, Before(p, q)
             PROVE  run[p.run].salt # run[q.run].salt
  BY DEF SaltIsUnique
<1>1. /\ p.run \in Runs /\ q.run \in Runs /\ ListedOK(p) /\ NoNonce \notin Nat
      /\ p.step \in {1, 2}
  BY DEF IInv, TypeOK, Transactions, AllListedOK, NoNonce
<1>2. /\ SaltOK(run[p.run]) /\ SaltOK(run[q.run])
      /\ run[p.run].salt \in Nat /\ run[q.run].salt \in Nat
  BY <1>1 DEF SaltsOK
<1>3. run[p.run].salt <= p.nonce /\ p.nonce \in Nat
  BY <1>1, <1>2 DEF ListedOK, SaltOK
<1>4. p.nonce < run[q.run].salt
  BY <1>1, <1>2 DEF SaltOK, Before
<1>5. QED
  BY <1>2, <1>3, <1>4

(* A fleet whose script was given no nonce gets another salt than every    *)
(* fleet proposed, again without a given nonce, before its script started, *)
(* however scripts overlap and whatever is executed on chain meanwhile.    *)
THEOREM SaltsDiffer == Spec => []SaltIsUnique
  BY InitIInv, StepIInv, InitSaltsOK, StepSalts, SaltsAreUnique, PTL DEF Spec
-----------------------------------------------------------------------------
(***************************************************************************)
(* Runs that follow each other and let the server choose their nonces.     *)
(***************************************************************************)
OneAtATime == Exclusive /\ Nonces = {} /\ Onchain \subseteq {FALSE}

(* What a run decided still holds, because nobody else sends anything.     *)
UpToDate(e) ==
    /\ ~e.onchain /\ e.arg = NoNonce
    /\ e.pc = "send" => e.nonce + e.step - 1 = FirstAvailableNonce

AllUpToDate == \A r \in Runs : UpToDate(run[r])

Alone == \A r, s \in Running : r = s

(* The nonces are used from 0 on, each once.                               *)
Dense ==
    /\ \A n \in Nat : n < FirstAvailableNonce => \E tx \in listed : tx.nonce = n
    /\ \A p, q \in listed : p.nonce = q.nonce => p = q
    /\ chainNonce <= FirstAvailableNonce

QInv == IInv /\ AllUpToDate /\ Alone /\ Dense

LEMMA InitQInv == Init => QInv
<1> SUFFICES ASSUME Init PROVE QInv
  OBVIOUS
<1>1. IInv
  BY InitIInv
<1>2. FirstAvailableNonce = 0
  BY DEF Init, FirstAvailableNonce
<1>3. AllUpToDate /\ Alone /\ Dense
  BY <1>2 DEF Init, AllUpToDate, UpToDate, Alone, Running, Dense
<1>4. QED
  BY <1>1, <1>3 DEF QInv

LEMMA OneMoreListed ==
    ASSUME IInv, NEW tx \in Transactions, tx.nonce = FirstAvailableNonce,
           listed' = listed \cup {tx}
    PROVE  FirstAvailableNonce' = FirstAvailableNonce + 1
<1>1. FirstAvailableNonce' = NonceAfter(listed \cup {tx})
  BY DEF FirstAvailableNonce, NonceAfter
<1>2. IsFiniteSet(listed \cup {tx}) /\ \A q \in listed \cup {tx} : q.nonce \in Nat
  BY FS_AddElement, ListedNonces DEF IInv, AllListedOK, Transactions
<1>3. \A q \in listed \cup {tx} : q.nonce <= tx.nonce
  BY ListedNonces
<1>4. PICK q \in listed \cup {tx} : q.nonce + 1 = NonceAfter(listed \cup {tx})
  BY <1>2, NonceAfterAll
<1>5. tx.nonce < NonceAfter(listed \cup {tx}) /\ NonceAfter(listed \cup {tx}) \in Nat
  BY <1>2, NonceAfterAll
<1>6. QED
  BY <1>1, <1>2, <1>3, <1>4, <1>5

(* Steps of one script that send nothing.                                  *)
LEMMA ScriptOnlyQInv ==
    ASSUME QInv, IInv', NEW r \in Runs, NEW e, run' = [run EXCEPT ![r] = e],
           UNCHANGED <<listed, chainNonce, log>>,
           UpToDate(e), Running' \subseteq {r} \/ Running' \subseteq Running
    PROVE  QInv'
<1>1. FirstAvailableNonce' = FirstAvailableNonce
  BY DEF FirstAvailableNonce
<1>2. \A s \in Runs : run'[s] = IF s = r THEN e ELSE run[s]
  BY DEF QInv, IInv, TypeOK
<1>3. AllUpToDate'
  BY <1>1, <1>2 DEF QInv, AllUpToDate, UpToDate
<1>4. Alone'
  BY DEF QInv, Alone
<1>5. Dense'
  BY <1>1 DEF QInv, Dense
<1>6. QED
  BY <1>3, <1>4, <1>5 DEF QInv

LEMMA QStart ==
    ASSUME OneAtATime, QInv, IInv', NEW r \in Runs, NEW kind \in Kinds, NEW onchain \in Onchain,
           NEW arg \in Nonces \cup {NoNonce}, Start(r, kind, onchain, arg)
    PROVE  QInv'
<1> DEFINE e == [run[r] EXCEPT !.pc      = IF kind \in {"complete", "single"} THEN "sanitize"
                                           ELSE IF kind = "send" /\ arg # NoNonce THEN "send"
                                           ELSE "nonce",
                               !.kind    = kind,
                               !.onchain = onchain,
                               !.arg     = arg,
                               !.nonce   = IF kind = "send" THEN arg ELSE NoNonce,
                               !.seen    = listed]
<1>1. /\ run[r].pc = "idle" /\ run' = [run EXCEPT ![r] = e] /\ UNCHANGED <<listed, chainNonce, log>>
      /\ Running = {} /\ arg = NoNonce /\ onchain = FALSE
  <2>1. run' = [run EXCEPT ![r] = e]
    BY ZenonT(60) DEF Start, QInv, IInv, TypeOK
  <2>2. /\ run[r].pc = "idle" /\ UNCHANGED <<listed, chainNonce, log>>
        /\ Exclusive => Running = {}
    BY DEF Start, At
  <2>3. QED
    BY <2>1, <2>2 DEF OneAtATime
<1>2. UpToDate(e)
  <2>1. /\ e.pc \in {"sanitize", "nonce"} /\ e.kind = kind /\ e.arg = arg /\ e.onchain = onchain
        /\ e.pc = "nonce" => kind # "single"
    BY <1>1, TypesOfRuns DEF RunType, QInv
  <2> HIDE DEF e
  <2>2. QED
    BY <1>1, <2>1 DEF UpToDate
<1>3. Running' \subseteq {r}
  BY <1>1 DEF Running, QInv, IInv, TypeOK
<1> HIDE DEF e
<1>4. QED
  BY <1>1, <1>2, <1>3, ScriptOnlyQInv

LEMMA QSanitize ==
    ASSUME QInv, IInv', NEW r \in Runs, Sanitize(r)
    PROVE  QInv'
<1> DEFINE n == IF run[r].arg # NoNonce THEN run[r].arg ELSE FirstAvailableNonce
           e == IF run[r].kind = "complete" THEN [run[r] EXCEPT !.pc = "send", !.nonce = n]
                                            ELSE [run[r] EXCEPT !.pc = "nonce", !.salt = n]
<1>1. /\ run[r].pc = "sanitize" /\ run' = [run EXCEPT ![r] = e]
      /\ UNCHANGED <<listed, chainNonce, log>>
  BY TypesOfRuns DEF Sanitize, At, QInv, IInv, TypeOK
<1>2. run[r] \in RunType /\ UpToDate(run[r]) /\ run[r].step = 1 /\ n = FirstAvailableNonce /\ n \in Nat
  BY <1>1, TypesOfRuns, ListedNonces DEF QInv, AllUpToDate, UpToDate, RunOK
<1>3. UpToDate(e)
  <2> HIDE DEF n
  <2>1. QED
    BY <1>2 DEF UpToDate, RunType
<1>4. Running' \subseteq Running
  BY <1>1, <1>2 DEF Running, QInv, IInv, TypeOK
<1>5. QED
  BY <1>1, <1>3, <1>4, ScriptOnlyQInv, ZenonT(60)

LEMMA QPickNonce ==
    ASSUME QInv, IInv', NEW r \in Runs, PickNonce(r)
    PROVE  QInv'
<1> DEFINE e == [run[r] EXCEPT !.pc = "send", !.nonce = FirstAvailableNonce]
<1>1. run[r] \in RunType /\ UpToDate(run[r]) /\ run[r].step = 1 /\ FirstAvailableNonce \in Nat
  BY TypesOfRuns, ListedNonces DEF QInv, AllUpToDate, RunOK, PickNonce, At
<1>2. /\ run[r].pc = "nonce" /\ run' = [run EXCEPT ![r] = e]
      /\ UNCHANGED <<listed, chainNonce, log>>
  BY <1>1, ZenonT(60) DEF PickNonce, At, QInv, IInv, TypeOK, UpToDate
<1>3. UpToDate(e)
  BY <1>1, <1>2 DEF UpToDate, RunType
<1>4. Running' \subseteq Running
  BY <1>1, <1>2 DEF Running, QInv, IInv, TypeOK
<1>5. QED
  BY <1>2, <1>3, <1>4, ScriptOnlyQInv

LEMMA QGiveUp ==
    ASSUME QInv, IInv', NEW r \in Runs, GiveUp(r)
    PROVE  QInv'
<1> DEFINE e == [run[r] EXCEPT !.pc = "done"]
<1>1. run[r] \in RunType /\ UpToDate(run[r])
  BY TypesOfRuns DEF QInv, AllUpToDate
<1>2. run' = [run EXCEPT ![r] = e] /\ UNCHANGED <<listed, chainNonce, log>>
  BY <1>1 DEF GiveUp, QInv, IInv, TypeOK
<1>3. UpToDate(e)
  BY <1>1 DEF UpToDate, RunType
<1>4. Running' \subseteq Running
  BY <1>1, <1>2 DEF Running, GiveUp, QInv, IInv, TypeOK
<1>5. QED
  BY <1>2, <1>3, <1>4, ScriptOnlyQInv

(* The one script that runs sends, with the next nonce.                    *)
LEMMA QSubmit ==
    ASSUME QInv, IInv', NEW r \in Runs, Propose(r) \/ ExecuteOnchain(r)
    PROVE  /\ QInv' /\ Propose(r)
           /\ Current(r).nonce = FirstAvailableNonce
           /\ FirstAvailableNonce' = FirstAvailableNonce + 1
           /\ UNCHANGED <<chainNonce, log>>
<1>1. IInv /\ UpToDate(run[r]) /\ run[r] \in RunType
  BY TypesOfRuns DEF QInv, AllUpToDate
<1>2. Propose(r)
  BY <1>1 DEF ExecuteOnchain, UpToDate
<1>3. /\ run[r].pc = "send" /\ run' = [run EXCEPT ![r] = Sent(r)]
      /\ listed' = listed \cup {Current(r)} /\ UNCHANGED <<chainNonce, log>>
  BY <1>2 DEF Propose, At
<1>4. Current(r) \in Transactions /\ Current(r).nonce = FirstAvailableNonce
  BY <1>1, <1>3, Sending DEF UpToDate, Current, StepNonce
<1>5. FirstAvailableNonce' = FirstAvailableNonce + 1
  BY <1>1, <1>3, <1>4, OneMoreListed
<1>6. \A s \in Runs : run'[s] = IF s = r THEN Sent(r) ELSE run[s]
  BY <1>1, <1>3 DEF IInv, TypeOK
<1>7. r \in Running
  BY <1>3 DEF Running
<1>8. ASSUME NEW s \in Runs
      PROVE  UpToDate(run[s])'
  <2>1. CASE s = r
    <3>1. CASE run[r].kind = "complete" /\ run[r].step = 1
      <4>1. run'[s] = [run[r] EXCEPT !.step = 2]
        BY <1>6, <2>1, <3>1 DEF Sent
      <4>2. run[r].nonce = FirstAvailableNonce /\ run[r].nonce \in Nat
        BY <1>1, <1>3, <3>1, TypesOfRuns DEF UpToDate, RunOK
      <4>3. QED
        BY <1>1, <1>3, <1>5, <3>1, <4>1, <4>2 DEF UpToDate, RunType
    <3>2. CASE ~(run[r].kind = "complete" /\ run[r].step = 1)
      <4>1. run'[s] = [run[r] EXCEPT !.pc = "done"]
        BY <1>6, <2>1, <3>2 DEF Sent
      <4>2. QED
        BY <1>1, <4>1 DEF UpToDate, RunType
    <3>3. QED
      BY <3>1, <3>2
  <2>2. CASE s # r
    <3>1. s \notin Running
      BY <1>7, <2>2 DEF QInv, Alone
    <3>2. run[s].pc \in {"idle", "done"} /\ UpToDate(run[s])
      BY <3>1 DEF Running, QInv, AllUpToDate
    <3>3. QED
      BY <1>6, <2>2, <3>2 DEF UpToDate
  <2>3. QED
    BY <2>1, <2>2
<1>9. AllUpToDate'
  BY <1>8 DEF AllUpToDate
<1>10. Alone'
  <2>1. Running' \subseteq Running
    BY <1>3, <1>6 DEF Running
  <2>2. QED
    BY <2>1 DEF QInv, Alone
<1>11. Dense'
  <2>1. FirstAvailableNonce \in Nat /\ \A tx \in listed : tx.nonce \in Nat /\ tx.nonce < FirstAvailableNonce
    BY <1>1, ListedNonces
  <2>2. \A n \in Nat : n < FirstAvailableNonce + 1 => \E tx \in listed' : tx.nonce = n
    BY <1>3, <1>4, <2>1 DEF QInv, Dense
  <2>3. \A p, q \in listed' : p.nonce = q.nonce => p = q
    BY <1>3, <1>4, <2>1 DEF QInv, Dense
  <2>4. chainNonce <= FirstAvailableNonce + 1
    BY <1>1, <2>1 DEF QInv, Dense, IInv, TypeOK
  <2>5. QED
    BY <1>3, <1>5, <2>2, <2>3, <2>4 DEF Dense
<1>12. QED
  BY <1>2, <1>3, <1>4, <1>5, <1>9, <1>10, <1>11 DEF QInv

LEMMA QOwnersExecute ==
    ASSUME QInv, IInv', NEW tx \in listed, OwnersExecute(tx)
    PROVE  QInv'
<1>1. /\ UNCHANGED <<run, listed>> /\ tx.nonce = chainNonce /\ chainNonce' = chainNonce + 1
      /\ FirstAvailableNonce' = FirstAvailableNonce
  BY DEF OwnersExecute, Perform, FirstAvailableNonce
<1>2. tx.nonce < FirstAvailableNonce /\ FirstAvailableNonce \in Nat /\ tx.nonce \in Nat
  BY ListedNonces DEF QInv
<1>3. Dense'
  BY <1>1, <1>2 DEF QInv, Dense
<1>4. AllUpToDate' /\ Alone'
  BY <1>1 DEF QInv, AllUpToDate, UpToDate, Alone, Running
<1>5. QED
  BY <1>3, <1>4 DEF QInv

LEMMA StepQInv == OneAtATime /\ QInv /\ [Next]_vars => QInv'
<1> SUFFICES ASSUME OneAtATime, QInv, [Next]_vars PROVE QInv'
  OBVIOUS
<1>1. IInv'
  BY StepIInv DEF QInv
<1>2. ASSUME NEW r \in Runs, NEW kind \in Kinds, NEW onchain \in Onchain,
             NEW arg \in Nonces \cup {NoNonce}, Start(r, kind, onchain, arg)
      PROVE  QInv'
  BY <1>1, <1>2, QStart
<1>3. ASSUME NEW r \in Runs,
             Sanitize(r) \/ PickNonce(r) \/ Propose(r) \/ ExecuteOnchain(r) \/ GiveUp(r)
      PROVE  QInv'
  BY <1>1, <1>3, QSanitize, QPickNonce, QSubmit, QGiveUp
<1>4. ASSUME NEW tx \in listed, OwnersExecute(tx)
      PROVE  QInv'
  BY <1>1, <1>4, QOwnersExecute
<1>5. CASE UNCHANGED vars
  BY <1>1, <1>5 DEF vars, QInv, AllUpToDate, UpToDate, FirstAvailableNonce, Alone, Running, Dense
<1>6. QED
  BY <1>2, <1>3, <1>4, <1>5 DEF Next
-----------------------------------------------------------------------------
(***************************************************************************)
(* They are a queue.                                                       *)
(***************************************************************************)
Tx == [run : Runs, step : {1, 2}]

PendingByNonce ==
    /\ FirstAvailableNonce \in Nat /\ chainNonce \in Nat /\ chainNonce <= FirstAvailableNonce
    /\ DOMAIN Pending = 1..(FirstAvailableNonce - chainNonce)
    /\ \A i \in DOMAIN Pending : Pending[i] \in listed /\ Pending[i].nonce = chainNonce + i - 1

LEMMA PendingIs == QInv => PendingByNonce
<1> SUFFICES ASSUME QInv PROVE PendingByNonce
  OBVIOUS
<1>1. chainNonce \in Nat /\ FirstAvailableNonce \in Nat /\ chainNonce <= FirstAvailableNonce
  BY ListedNonces DEF QInv, Dense, IInv, TypeOK
<1>2. ASSUME NEW i \in 1..(FirstAvailableNonce - chainNonce)
      PROVE  \E tx \in listed : tx.nonce = chainNonce + i - 1
  <2>1. chainNonce + i - 1 \in Nat /\ chainNonce + i - 1 < FirstAvailableNonce
    BY <1>1
  <2>2. QED
    BY <2>1 DEF QInv, Dense
<1>3. QED
  BY <1>1, <1>2 DEF Pending, PendingByNonce

LEMMA NamesAreSequences ==
    ASSUME QInv
    PROVE  /\ PendingNames \in Seq(Tx) /\ Len(PendingNames) = FirstAvailableNonce - chainNonce
           /\ \A i \in 1..Len(PendingNames) : PendingNames[i] = Name(Pending[i])
           /\ ExecutedNames \in Seq(Tx) /\ Len(ExecutedNames) = Len(log)
           /\ \A i \in 1..Len(log) : ExecutedNames[i] = Name(log[i].tx) /\ log[i].tx \in listed
<1>1. \A tx \in listed : Name(tx) \in Tx
  BY DEF QInv, IInv, TypeOK, Transactions, Name, Tx
<1> DEFINE n == FirstAvailableNonce - chainNonce
<1>2. /\ n \in Nat /\ PendingNames \in [1..n -> Tx]
      /\ \A i \in 1..n : PendingNames[i] = Name(Pending[i])
  BY <1>1, PendingIs DEF PendingNames, PendingByNonce
<1> HIDE DEF n
<1>3. PendingNames \in Seq(Tx) /\ Len(PendingNames) = n
  BY <1>2
<1>4. log \in Seq([tx : listed, ok : BOOLEAN]) 
  BY DEF QInv, IInv, TypeOK
<1>5. Len(log) \in Nat /\ DOMAIN log = 1..Len(log)
  BY <1>4, LenProperties
<1>6. \A i \in 1..Len(log) : log[i] \in [tx : listed, ok : BOOLEAN]
  BY <1>4, ElementOfSeq, Zenon
<1>7. /\ ExecutedNames \in [1..Len(log) -> Tx]
      /\ \A i \in 1..Len(log) : ExecutedNames[i] = Name(log[i].tx) /\ log[i].tx \in listed
  BY <1>1, <1>5, <1>6 DEF ExecutedNames
<1>8. ExecutedNames \in Seq(Tx) /\ Len(ExecutedNames) = Len(log)
  BY <1>5, <1>7
<1>9. QED
  BY <1>2, <1>3, <1>7, <1>8 DEF n

LEMMA QueueInit == Init => Queue!Init
<1> SUFFICES ASSUME Init PROVE Queue!Init
  OBVIOUS
<1>1. QInv
  BY InitQInv
<1>2. FirstAvailableNonce = 0 /\ chainNonce = 0 /\ Len(log) = 0
  BY DEF Init, FirstAvailableNonce
<1>3. Len(PendingNames) = 0 /\ Len(ExecutedNames) = 0
  BY <1>1, <1>2, NamesAreSequences
<1>4. PendingNames = <<>> /\ ExecutedNames = <<>>
  BY <1>1, <1>3, NamesAreSequences
<1>5. QED
  BY <1>4 DEF Queue!Init

(* Steps after which the same transactions are listed and executed.        *)
LEMMA QueueStutter ==
    ASSUME UNCHANGED <<listed, chainNonce, log>>
    PROVE  UNCHANGED Queue!vars
BY DEF Queue!vars, PendingNames, ExecutedNames, Pending, FirstAvailableNonce, Name

(* What is waiting and what was executed have different names.             *)
LEMMA NewName ==
    ASSUME QInv, NEW r \in Runs, run[r].pc = "send"
    PROVE  Queue!IsNew(Name(Current(r)))
<1>1. ASSUME NEW tx \in listed
      PROVE  Name(tx) # Name(Current(r))
  <2>1. ListedOK(tx) /\ tx.step \in {1, 2} /\ run[r].step \in {1, 2}
    BY TypesOfRuns DEF QInv, IInv, AllListedOK, TypeOK, Transactions, RunType
  <2>2. QED
    BY <2>1 DEF ListedOK, Name, Current
<1>2. \A i \in DOMAIN PendingNames : PendingNames[i] # Name(Current(r))
  BY <1>1, PendingIs DEF PendingNames, PendingByNonce
<1>3. \A i \in DOMAIN ExecutedNames : ExecutedNames[i] # Name(Current(r))
  <2>1. DOMAIN ExecutedNames = 1..Len(log)
    BY NamesAreSequences, LenProperties
  <2>2. QED
    BY <1>1, <2>1, NamesAreSequences
<1>4. QED
  BY <1>2, <1>3 DEF Queue!IsNew

LEMMA QueuePropose ==
    ASSUME QInv, QInv', NEW r \in Runs, Propose(r) \/ ExecuteOnchain(r)
    PROVE  \E tx \in Tx : Queue!Propose(tx)
<1> DEFINE n == FirstAvailableNonce - chainNonce
<1>1. /\ Propose(r) /\ Current(r).nonce = FirstAvailableNonce
      /\ FirstAvailableNonce' = FirstAvailableNonce + 1 /\ UNCHANGED <<chainNonce, log>>
  <2>1. IInv'
    BY DEF QInv
  <2>2. QED
    BY <2>1, QSubmit
<1>2. run[r].pc = "send" /\ listed' = listed \cup {Current(r)}
  BY <1>1 DEF Propose, At
<1>3. Current(r) \in Transactions /\ Queue!IsNew(Name(Current(r)))
  BY <1>2, Sending, NewName DEF QInv
<1>4. PendingByNonce /\ PendingByNonce' /\ Dense'
  <2>1. (QInv => PendingByNonce)'
    BY PendingIs, PTL
  <2>2. QED
    BY <2>1, PendingIs DEF QInv
<1>5. ASSUME NEW tx \in {Current(r)}
      PROVE  /\ Name(tx) \in Tx /\ Queue!IsNew(Name(tx))
             /\ PendingNames' = Append(PendingNames, Name(tx))
  <2>1. tx.nonce = FirstAvailableNonce /\ listed' = listed \cup {tx}
    BY <1>1, <1>2
  <2>2. /\ DOMAIN Pending = 1..n /\ n \in Nat /\ chainNonce \in Nat
        /\ \A i \in 1..n : Pending[i] \in listed /\ Pending[i].nonce = chainNonce + i - 1
    BY <1>4 DEF PendingByNonce
  <2>3. /\ DOMAIN Pending' = 1..(n + 1)
        /\ \A i \in 1..(n + 1) : Pending'[i] \in listed' /\ Pending'[i].nonce = chainNonce + i - 1
    BY <1>1, <1>4, <2>2 DEF PendingByNonce
  <2>4. \A i \in 1..n : Pending'[i] = Pending[i]
    BY <1>4, <2>1, <2>2, <2>3, SMTT(30) DEF Dense
  <2>5. Pending'[n + 1] = tx
    <3>1. Pending'[n + 1] \in listed' /\ Pending'[n + 1].nonce = chainNonce + n
      BY <2>2, <2>3
    <3>2. /\ chainNonce + n = FirstAvailableNonce /\ FirstAvailableNonce \in Nat
          /\ FirstAvailableNonce < FirstAvailableNonce' /\ tx \in listed'
      BY <1>1, <1>4, <2>1 DEF PendingByNonce
    <3>3. \A p, q \in listed' : p.nonce = q.nonce => p = q
      BY <1>4, Zenon DEF Dense
    <3>4. QED
      BY <2>1, <3>1, <3>2, <3>3
  <2>6. /\ DOMAIN PendingNames' = 1..(n + 1) /\ PendingNames'[n + 1] = Name(tx)
        /\ \A i \in 1..n : PendingNames'[i] = PendingNames[i]
    <3>1. /\ DOMAIN PendingNames = 1..n /\ DOMAIN PendingNames' = 1..(n + 1)
          /\ \A i \in 1..n : PendingNames[i] = Name(Pending[i])
          /\ \A i \in 1..(n + 1) : PendingNames'[i] = Name(Pending'[i])
      BY <2>2, <2>3 DEF PendingNames, Name
    <3>2. n + 1 \in 1..(n + 1) /\ \A i \in 1..n : i \in 1..(n + 1)
      BY <2>2
    <3> HIDE DEF n
    <3>3. QED
      BY <2>4, <2>5, <3>1, <3>2
  <2>7. Name(tx) \in Tx
    BY <1>3 DEF Name, Tx, Transactions
  <2>8. PendingNames \in Seq(Tx) /\ Len(PendingNames) = n
    BY NamesAreSequences
  <2> HIDE DEF n
  <2>9. /\ Append(PendingNames, Name(tx)) \in Seq(Tx) /\ Len(Append(PendingNames, Name(tx))) = n + 1
        /\ Append(PendingNames, Name(tx))[n + 1] = Name(tx)
        /\ \A i \in 1..n : Append(PendingNames, Name(tx))[i] = PendingNames[i]
    BY <2>7, <2>8, AppendProperties
  <2>10. PendingNames' = [i \in 1..(n + 1) |-> PendingNames'[i]]
    BY <2>6 DEF PendingNames
  <2>11. Append(PendingNames, Name(tx)) = [i \in 1..(n + 1) |-> Append(PendingNames, Name(tx))[i]]
    BY <2>9, LenProperties
  <2>12. \A i \in 1..(n + 1) : PendingNames'[i] = Append(PendingNames, Name(tx))[i]
    BY <2>2, <2>6, <2>9
  <2>13. PendingNames' = Append(PendingNames, Name(tx))
    BY <2>10, <2>11, <2>12
  <2>14. QED
    BY <1>3, <2>7, <2>13
<1>6. ExecutedNames' = ExecutedNames
  BY <1>1 DEF ExecutedNames, Name
<1>7. QED
  BY <1>5, <1>6 DEF Queue!Propose

LEMMA QueueExecute ==
    ASSUME QInv, QInv', NEW tx \in listed, OwnersExecute(tx)
    PROVE  Queue!Execute
<1> DEFINE n == FirstAvailableNonce - chainNonce
<1>1. /\ UNCHANGED <<run, listed>> /\ tx.nonce = chainNonce /\ chainNonce' = chainNonce + 1
      /\ FirstAvailableNonce' = FirstAvailableNonce
      /\ \E ok \in BOOLEAN : log' = Append(log, [tx |-> tx, ok |-> ok])
  BY DEF OwnersExecute, Perform, FirstAvailableNonce
<1>2. PendingByNonce /\ PendingByNonce' /\ Dense
  <2>1. (QInv => PendingByNonce)'
    BY PendingIs, PTL
  <2>2. QED
    BY <2>1, PendingIs DEF QInv
<1>3. tx.nonce < FirstAvailableNonce
  BY ListedNonces DEF QInv
<1>4. /\ n \in Nat \ {0} /\ DOMAIN Pending = 1..n /\ DOMAIN Pending' = 1..(n - 1)
      /\ chainNonce \in Nat
      /\ \A i \in 1..n : Pending[i] \in listed /\ Pending[i].nonce = chainNonce + i - 1
      /\ \A i \in 1..(n - 1) : Pending'[i] \in listed /\ Pending'[i].nonce = chainNonce + i
  <2>1. FirstAvailableNonce \in Nat /\ chainNonce \in Nat /\ chainNonce < FirstAvailableNonce
    BY <1>1, <1>2, <1>3 DEF PendingByNonce
  <2>2. n \in Nat \ {0} /\ FirstAvailableNonce' - chainNonce' = n - 1
    BY <1>1, <2>1
  <2>3. /\ DOMAIN Pending = 1..n
        /\ \A i \in 1..n : Pending[i] \in listed /\ Pending[i].nonce = chainNonce + i - 1
    BY <1>2 DEF PendingByNonce
  <2>4. /\ DOMAIN Pending' = 1..(n - 1)
        /\ \A i \in 1..(n - 1) : Pending'[i] \in listed' /\ Pending'[i].nonce = chainNonce' + i - 1
    BY <1>2, <2>2 DEF PendingByNonce
  <2> HIDE DEF n
  <2>5. \A i \in 1..(n - 1) : Pending'[i] \in listed /\ Pending'[i].nonce = chainNonce + i
    BY <1>1, <2>1, <2>2, <2>4
  <2>6. QED
    BY <2>1, <2>2, <2>3, <2>4, <2>5
<1>5. Pending[1] = tx
  BY <1>1, <1>2, <1>4 DEF Dense
<1>6. ASSUME NEW i \in 1..(n - 1)
      PROVE  Pending'[i] = Pending[i + 1]
  <2> HIDE DEF n
  <2>1. i + 1 \in 1..n /\ chainNonce + (i + 1) - 1 = chainNonce + i
    BY <1>4
  <2>2. /\ Pending[i + 1] \in listed /\ Pending'[i] \in listed
        /\ Pending[i + 1].nonce = Pending'[i].nonce
    BY <1>4, <2>1
  <2>3. QED
    BY <1>2, <2>2, Zenon DEF Dense
<1>7. PendingNames \in Seq(Tx) /\ Len(PendingNames) = n
  BY NamesAreSequences
<1>8. /\ DOMAIN PendingNames' = 1..(n - 1) /\ PendingNames[1] = Name(tx)
      /\ \A i \in 1..(n - 1) : PendingNames'[i] = PendingNames[i + 1]
  <2> HIDE DEF n
  <2>1. DOMAIN PendingNames = 1..n /\ DOMAIN PendingNames' = 1..(n - 1) /\ 1 \in 1..n
    BY <1>4 DEF PendingNames
  <2>2. PendingNames[1] = Name(tx)
    BY <1>4, <1>5, <2>1 DEF PendingNames
  <2>3. ASSUME NEW i \in 1..(n - 1)
        PROVE  PendingNames'[i] = PendingNames[i + 1]
    <3>1. i \in DOMAIN Pending' /\ i + 1 \in DOMAIN Pending
      BY <1>4
    <3>2. QED
      BY <1>6, <3>1 DEF PendingNames, Name
  <2>4. QED
    BY <2>1, <2>2, <2>3
<1> HIDE DEF n
<1>9. PendingNames # <<>> /\ Head(PendingNames) = Name(tx)
  BY <1>4, <1>7, <1>8
<1>10. PendingNames' = Tail(PendingNames)
  <2>1. PendingNames' = [i \in 1..(n - 1) |-> PendingNames'[i]]
    BY <1>8 DEF PendingNames
  <2>2. Tail(PendingNames) = [i \in 1..(n - 1) |-> PendingNames[i + 1]]
    <3>1. /\ Tail(PendingNames) \in Seq(Tx) /\ Len(Tail(PendingNames)) = n - 1
          /\ \A i \in 1..(n - 1) : Tail(PendingNames)[i] = PendingNames[i + 1]
      BY <1>7, <1>9, HeadTailProperties
    <3>2. Tail(PendingNames) = [i \in 1..(n - 1) |-> Tail(PendingNames)[i]]
      BY <3>1, LenProperties
    <3>3. QED
      BY <3>1, <3>2
  <2>3. QED
    BY <1>8, <2>1, <2>2
<1>11. ExecutedNames' = Append(ExecutedNames, Name(tx))
  <2>1. PICK ok \in BOOLEAN : log' = Append(log, [tx |-> tx, ok |-> ok])
    BY <1>1
  <2>2. log \in Seq([tx : listed, ok : BOOLEAN])
    BY DEF QInv, IInv, TypeOK
  <2> DEFINE e == [tx |-> tx, ok |-> ok]
             l == Len(log)
  <2>3. e \in [tx : listed, ok : BOOLEAN] /\ e.tx = tx
    OBVIOUS
  <2> HIDE DEF e
  <2>4. /\ Len(log) \in Nat /\ DOMAIN log = 1..Len(log)
        /\ DOMAIN log' = 1..(Len(log) + 1) /\ log'[Len(log) + 1] = e
        /\ \A i \in 1..Len(log) : log'[i] = log[i]
    BY <2>1, <2>2, <2>3 DEF e
  <2>5. /\ DOMAIN ExecutedNames' = 1..(l + 1) /\ ExecutedNames'[l + 1] = Name(tx)
        /\ \A i \in 1..l : ExecutedNames'[i] = ExecutedNames[i]
    BY <2>3, <2>4 DEF ExecutedNames, Name
  <2>6. ExecutedNames \in Seq(Tx) /\ Len(ExecutedNames) = l /\ l \in Nat
    BY <2>4, NamesAreSequences
  <2>7. Name(tx) \in Tx
    BY DEF Name, Tx, QInv, IInv, TypeOK, Transactions
  <2> HIDE DEF l
  <2>8. /\ Append(ExecutedNames, Name(tx)) \in Seq(Tx)
        /\ Len(Append(ExecutedNames, Name(tx))) = l + 1
        /\ Append(ExecutedNames, Name(tx))[l + 1] = Name(tx)
        /\ \A i \in 1..l : Append(ExecutedNames, Name(tx))[i] = ExecutedNames[i]
    BY <2>6, <2>7, AppendProperties
  <2>9. ExecutedNames' = [i \in 1..(l + 1) |-> ExecutedNames'[i]]
    BY <2>5 DEF ExecutedNames
  <2>10. Append(ExecutedNames, Name(tx)) = [i \in 1..(l + 1) |-> Append(ExecutedNames, Name(tx))[i]]
    BY <2>8, LenProperties
  <2>11. \A i \in 1..(l + 1) : ExecutedNames'[i] = Append(ExecutedNames, Name(tx))[i]
    BY <2>5, <2>6, <2>8
  <2>12. QED
    BY <2>9, <2>10, <2>11
<1>12. QED
  BY <1>9, <1>10, <1>11 DEF Queue!Execute

LEMMA QueueStep == QInv /\ QInv' /\ [Next]_vars => [Queue!Next]_(Queue!vars)
<1> SUFFICES ASSUME QInv, QInv', [Next]_vars PROVE [Queue!Next]_(Queue!vars)
  OBVIOUS
<1>1. ASSUME NEW r \in Runs, NEW kind \in Kinds, NEW onchain \in Onchain,
             NEW arg \in Nonces \cup {NoNonce}, Start(r, kind, onchain, arg)
      PROVE  UNCHANGED Queue!vars
  BY <1>1, QueueStutter DEF Start
<1>2. ASSUME NEW r \in Runs, Sanitize(r) \/ PickNonce(r) \/ GiveUp(r)
      PROVE  UNCHANGED Queue!vars
  BY <1>2, QueueStutter DEF Sanitize, PickNonce, GiveUp
<1>3. ASSUME NEW r \in Runs, Propose(r) \/ ExecuteOnchain(r)
      PROVE  Queue!Next
  BY <1>3, QueuePropose DEF Queue!Next, Tx
<1>4. ASSUME NEW tx \in listed, OwnersExecute(tx)
      PROVE  Queue!Next
  BY <1>4, QueueExecute DEF Queue!Next
<1>5. CASE UNCHANGED vars
  BY <1>5, QueueStutter DEF vars
<1>6. QED
  BY <1>1, <1>2, <1>3, <1>4, <1>5 DEF Next

(* For such a user the Safe server and the owners are the queue that       *)
(* LiquidityFunds takes them for: every step proposes a new transaction at *)
(* the end of the queue, executes the first one, or changes neither.       *)
THEOREM ProposalsAreAQueue ==
    ASSUME OneAtATime
    PROVE  Spec => Queue!Init /\ [][Queue!Next]_(Queue!vars)
<1>1. Spec => []QInv
  BY InitQInv, StepQInv, PTL DEF Spec
<1>2. QED
  BY <1>1, QueueInit, QueueStep, PTL DEF Spec
-----------------------------------------------------------------------------
(***************************************************************************)
(* An owner verifies a proposal.                                           *)
(***************************************************************************)
(* The amounts of a withdrawal in the order of the list, as the chain is.  *)
InOrder == [i \in DOMAIN PairList |-> [pair |-> PairList[i], amount |-> world]]

LEMMA PlaceIs ==
    ASSUME NEW i \in DOMAIN PairList
    PROVE  Place(PairList[i]) = i
BY VerificationAssumption DEF Place, IsInjective

LEMMA ListIs == DOMAIN PairList = 1..Len(PairList) /\ Len(PairList) \in Nat
BY VerificationAssumption

(* As many pairs arrive as there are, so every one does.                   *)
LEMMA AllArrive ==
    ASSUME NEW f \in [DOMAIN PairList -> ToSet(PairList)], IsInjective(f)
    PROVE  ToSet(f) = ToSet(PairList)
<1> DEFINE D == DOMAIN PairList
           T == ToSet(PairList)
<1>1. IsFiniteSet(D)
  BY ListIs, FS_Interval
<1>2. PairList \in [D -> T] /\ T = {PairList[i] : i \in D}
  BY VerificationAssumption DEF ToSet
<1>3. PairList \in Bijection(D, T)
  BY <1>2, VerificationAssumption DEF Bijection, Injection, Surjection, IsInjective
<1>4. IsFiniteSet(T) /\ Cardinality(T) = Cardinality(D)
  BY <1>1, <1>3, FS_Bijection DEF ExistsBijection
<1>5. f \in Injection(D, T)
  BY DEF Injection, IsInjective
<1>6. f \in Surjection(D, T)
  BY <1>4, <1>5, FS_Injection
<1>7. QED
  BY <1>2, <1>6 DEF Surjection, ToSet

(* Positions in ascending order, none left out, are the positions.         *)
LEMMA AscendingIsIdentity ==
    ASSUME NEW n \in Nat, NEW g \in [1..n -> 1..n],
           \A i, j \in 1..n : i < j => g[i] < g[j],
           \A k \in 1..n : \E i \in 1..n : g[i] = k
    PROVE  \A i \in 1..n : g[i] = i
<1> DEFINE Bad == {i \in 1..n : g[i] # i}
<1>1. SUFFICES ASSUME Bad # {} PROVE FALSE
  OBVIOUS
<1>2. PICK m \in Bad : \A k \in Bad : m <= k
  <2>1. Bad \in SUBSET Nat
    OBVIOUS
  <2> HIDE DEF Bad
  <2>2. QED
    BY <1>1, <2>1, SmallestNumber
<1>3. m \in 1..n /\ g[m] # m /\ g[m] \in 1..n
  BY <1>2
<1>4. \A k \in 1..n : k < m => g[k] = k
  <2>1. ASSUME NEW k \in 1..n, k < m PROVE k \notin Bad
    BY <1>2, <1>3, <2>1
  <2>2. QED
    BY <2>1
<1>5. PICK j \in 1..n : g[j] = m
  BY <1>3
<1>6. m < j
  <2>1. j # m /\ ~(j < m)
    BY <1>3, <1>4, <1>5
  <2>2. QED
    BY <1>3, <2>1
<1>7. g[m] < m
  BY <1>3, <1>5, <1>6
<1>8. QED
  BY <1>3, <1>4, <1>7

(* In whatever order amounts arrive, they are sorted into one list.        *)
LEMMA SortedIs ==
    ASSUME NEW f \in [DOMAIN PairList -> ToSet(PairList)], IsInjective(f)
    PROVE  Sorted([i \in DOMAIN PairList |-> [pair |-> f[i], amount |-> world]]) = InOrder
<1> DEFINE n == Len(PairList)
           a == [i \in DOMAIN PairList |-> [pair |-> f[i], amount |-> world]]
           Fits(s) == /\ ToSet(s) = ToSet(a)
                      /\ \A i, j \in DOMAIN s : i < j => Place(s[i].pair) < Place(s[j].pair)
<1>1. DOMAIN PairList = 1..n /\ n \in Nat
  BY ListIs
<1>2. ToSet(InOrder) = ToSet(a)
  <2>1. ToSet(InOrder) = {[pair |-> p, amount |-> world] : p \in ToSet(PairList)}
    BY DEF InOrder, ToSet
  <2>2. ToSet(a) = {[pair |-> p, amount |-> world] : p \in ToSet(f)}
    BY DEF ToSet
  <2>3. QED
    BY <2>1, <2>2, AllArrive
<1>3. InOrder \in [DOMAIN a -> ToSet(a)]
  BY <1>2 DEF InOrder, ToSet
<1>4. \A i \in 1..n : Place(InOrder[i].pair) = i
  BY <1>1, PlaceIs DEF InOrder
<1>5. Fits(InOrder)
  BY <1>1, <1>2, <1>4 DEF InOrder
<1>6. ASSUME NEW s \in [DOMAIN a -> ToSet(a)], Fits(s)
      PROVE  s = InOrder
  <2> DEFINE g == [i \in 1..n |-> Place(s[i].pair)]
  <2>1. \A i \in 1..n : \E k \in 1..n : s[i] = InOrder[k]
    BY <1>1, <1>2, <1>6 DEF ToSet, InOrder
  <2>2. \A i \in 1..n : g[i] \in 1..n /\ s[i] = InOrder[g[i]]
    BY <1>4, <2>1
  <2>3. \A i, j \in 1..n : i < j => g[i] < g[j]
    BY <1>1, <1>6
  <2>4. \A k \in 1..n : \E i \in 1..n : s[i] = InOrder[k]
    <3>1. ToSet(s) = ToSet(InOrder) /\ DOMAIN s = 1..n /\ DOMAIN InOrder = 1..n
      BY <1>1, <1>2, <1>6 DEF InOrder
    <3>2. QED
      BY <3>1, ZenonT(60) DEF ToSet
  <2>5. ASSUME NEW k \in 1..n PROVE \E i \in 1..n : g[i] = k
    <3>1. PICK i \in 1..n : s[i] = InOrder[k]
      BY <2>4
    <3>2. QED
      BY <1>4, <3>1
  <2>6. g \in [1..n -> 1..n]
    BY <2>2
  <2> HIDE DEF g, n
  <2>7. \A i \in 1..n : g[i] = i
    BY <1>1, <2>3, <2>5, <2>6, AscendingIsIdentity
  <2>8. \A i \in 1..n : s[i] = InOrder[i]
    BY <2>2, <2>7
  <2>9. QED
    BY <1>1, <2>8 DEF InOrder
<1>7. Sorted(a) = CHOOSE s \in [DOMAIN a -> ToSet(a)] : Fits(s)
  BY DEF Sorted
<1> HIDE DEF a, Fits
<1>8. QED
  BY <1>3, <1>5, <1>6, <1>7 DEF a

WhatIsRead(kind) == IF kind = "process" THEN InOrder ELSE <<>>

(* Reading the same chain twice gives the same amounts.                    *)
LEMMA ReadIs == \A kind : Read(kind) = {WhatIsRead(kind)}
<1>1. ASSUME NEW kind, kind = "process" PROVE Read(kind) = {InOrder}
  <2> DEFINE Arrivals == {f \in [DOMAIN PairList -> ToSet(PairList)] : IsInjective(f)}
  <2>1. PairList \in Arrivals
    BY VerificationAssumption DEF ToSet
  <2>2. \A f \in Arrivals :
            Sorted([i \in DOMAIN PairList |-> [pair |-> f[i], amount |-> world]]) = InOrder
    BY SortedIs
  <2>3. Read(kind) = {Sorted([i \in DOMAIN PairList |-> [pair |-> f[i], amount |-> world]]) :
                        f \in Arrivals}
    BY <1>1 DEF Read
  <2>4. QED
    BY <2>1, <2>2, <2>3
<1>2. QED
  BY <1>1 DEF Read, WhatIsRead
-----------------------------------------------------------------------------
(***************************************************************************)
(* The inductive invariant.                                                *)
(***************************************************************************)
(* What a run was built from is what would be read now, and the gas of its *)
(* transactions what would be estimated, unless something happened since.  *)
BuildsOK ==
    /\ world \in Worlds /\ changes \in 0..MaxChanges
    /\ DOMAIN built = Runs /\ DOMAIN content = listed
    /\ \A r \in Runs :
          /\ built[r].moment \in Nat /\ built[r].moment <= Moment
          /\ run[r].pc # "idle" /\ built[r].moment = Moment
               => built[r].pairs = WhatIsRead(run[r].kind)

CallsOf(tx) == Calls(tx.run, tx.step, run[tx.run].salt, built[tx.run].pairs)

ContentsOK ==
    \A tx \in listed :
        \E gas \in Worlds :
            /\ content[tx] = [calls |-> CallsOf(tx), gas |-> gas]
            /\ built[tx.run].moment = Moment => gas = world

VerifierType ==
    [pc : {"idle", "nonce", "estimate", "lookup", "done"}, of : Runs \cup {CHOOSE r \in Runs : TRUE},
     given : BOOLEAN, nonce : Nat \cup {NoNonce}, step : {1, 2}, gas : Worlds \cup {NoNonce},
     pairs : {<<>>} \cup {[i \in DOMAIN PairList |-> [pair |-> PairList[i], amount |-> w]] : w \in Worlds},
     seen : SUBSET listed, moment : Nat, found : Seq(BOOLEAN)]

(* The nonce the verifier looks for is that of the transaction meant.      *)
NonceRight(v) ==
    /\ v.given => v.nonce \in Nat /\ v.nonce = run[v.of].nonce + v.step - 1
    /\ ~v.given /\ listed = v.seen => v.nonce = FirstAvailableNonce - 1

MeantBy(v, tx) ==
    \/ v.given
    \/ listed = v.seen /\ \A other \in listed : other.nonce <= tx.nonce

FoundRight(v) ==
    \A step \in DOMAIN v.found : \A tx \in Proposal(v.of, step) :
        MeantBy(v, tx) /\ SaltIsNonce(tx) => v.found[step]

Undisturbed(v, moment) == built[v.of].moment = moment

(* The run that the verifier repeats.                                      *)
Repeated(v) ==
    /\ v.of \in Runs /\ run[v.of].pc = "done"
    /\ v.step = 2 => run[v.of].kind = "complete"
    /\ run[v.of].kind = "complete" => v.given

(* What the verifier read and was told, as long as nothing happened since  *)
(* the run it repeats was started.                                         *)
Verifying(v) ==
    /\ Len(v.found) = v.step - 1
    /\ Undisturbed(v, Moment) => v.pairs = built[v.of].pairs /\ FoundRight(v)
    /\ v.pc = "nonce" => ~v.given
    /\ v.pc # "nonce" => NonceRight(v)
    /\ v.pc = "lookup" /\ Undisturbed(v, Moment) => v.gas = world

Verified(v) ==
    /\ Len(v.found) = v.step /\ v.moment <= Moment
    /\ Undisturbed(v, v.moment) => FoundRight(v)

VerifierOK(v) ==
    /\ v \in VerifierType
    /\ v.pc # "idle" => Repeated(v)
    /\ v.pc \in {"nonce", "estimate", "lookup"} => Verifying(v)
    /\ v.pc = "done" => Verified(v)

VInv == IInv /\ BuildsOK /\ ContentsOK /\ VerifierOK(verifier)

LEMMA BoundsAreNaturals == MaxChanges \in Nat /\ Worlds \subseteq Nat
BY VerificationAssumption

LEMMA MomentIs == IInv /\ changes \in 0..MaxChanges => Moment \in Nat /\ Len(log) \in Nat
BY VerificationAssumption DEF IInv, TypeOK, Moment

LEMMA InitVInv == VInit => VInv
<1> SUFFICES ASSUME VInit PROVE VInv
  OBVIOUS
<1>1. IInv
  BY InitIInv DEF VInit
<1>2. world \in Worlds
  <2>1. \E w \in Worlds : \A v \in Worlds : w <= v
    BY VerificationAssumption, SmallestNumber
  <2>2. QED
    BY <2>1 DEF VInit, Min
<1>3. changes = 0 /\ changes \in 0..MaxChanges /\ listed = {} /\ Moment \in Nat
  BY <1>1, MomentIs, VerificationAssumption DEF VInit, Init
<1>4. BuildsOK
  BY <1>2, <1>3 DEF VInit, Init, BuildsOK, Nothing
<1>5. ContentsOK
  BY <1>3 DEF ContentsOK
<1>6. VerifierOK(verifier)
  <2>1. verifier = Idle /\ verifier.pc = "idle"
    BY DEF VInit, Idle
  <2>2. verifier \in VerifierType
    BY <2>1 DEF VerifierType, Idle
  <2>3. QED
    BY <2>1, <2>2 DEF VerifierOK
<1>7. QED
  BY <1>1, <1>4, <1>5, <1>6 DEF VInv
-----------------------------------------------------------------------------
(* What a step leaves of the past.                                         *)
TimePasses ==
    /\ world' \in Worlds /\ changes' \in 0..MaxChanges
    /\ Moment' \in Nat /\ Moment <= Moment' /\ (Moment' = Moment => world' = world)

RunsRemain ==
    /\ listed \subseteq listed'
    /\ \A s \in Runs : run[s].pc \in {"send", "done"} =>
          run'[s].kind = run[s].kind /\ run'[s].salt = run[s].salt /\ built'[s] = built[s]
    /\ \A s \in Runs : run[s].pc = "done" =>
          run'[s] = run[s] /\ \A tx \in listed' : tx.run = s => tx \in listed

Remains == TimePasses /\ RunsRemain /\ IInv' /\ BuildsOK' /\ ContentsOK'

LEMMA TimeStands ==
    ASSUME VInv, UNCHANGED <<world, changes, log>>
    PROVE  TimePasses
BY MomentIs DEF VInv, BuildsOK, TimePasses, Moment

LEMMA LogGrows ==
    ASSUME VInv, UNCHANGED <<world, changes>>, NEW tx \in listed', NEW ok \in BOOLEAN, Perform(tx, ok)
    PROVE  TimePasses
<1>1. Moment \in Nat /\ Len(log) \in Nat
  BY MomentIs DEF VInv, BuildsOK
<1>2. Len(log') = Len(log) + 1
  BY DEF Perform, VInv, IInv, TypeOK
<1>3. Moment' = Moment + 1
  BY <1>1, <1>2, VerificationAssumption DEF Moment, VInv, BuildsOK
<1>4. QED
  BY <1>1, <1>3 DEF TimePasses, VInv, BuildsOK

(* A run that was built is still what would be built, if time stood.       *)
LEMMA BuildsRemain ==
    ASSUME VInv, TimePasses, built' = built, DOMAIN content' = listed',
           \A s \in Runs : run[s].pc = "idle" => run'[s].pc = "idle",
           \A s \in Runs : run'[s].kind = run[s].kind
    PROVE  BuildsOK'
<1>1. ASSUME NEW s \in Runs
      PROVE  /\ built[s].moment \in Nat /\ built[s].moment <= Moment'
             /\ run'[s].pc # "idle" /\ built[s].moment = Moment'
                  => built[s].pairs = WhatIsRead(run[s].kind)'
  <2>1. /\ built[s].moment \in Nat /\ built[s].moment <= Moment /\ Moment \in Nat
        /\ Moment' \in Nat /\ Moment <= Moment' /\ (Moment' = Moment => world' = world)
    BY MomentIs DEF VInv, BuildsOK, TimePasses
  <2>2. CASE built[s].moment = Moment' /\ run'[s].pc # "idle"
    <3>1. Moment' = Moment /\ world' = world
      BY <2>1, <2>2
    <3>2. built[s].pairs = WhatIsRead(run[s].kind)
      BY <2>2, <3>1 DEF VInv, BuildsOK
    <3>3. WhatIsRead(run[s].kind)' = WhatIsRead(run[s].kind)
      BY <3>1 DEF WhatIsRead, InOrder
    <3>4. QED
      BY <2>1, <3>2, <3>3
  <2>3. QED
    BY <2>1, <2>2
<1>2. QED
  BY <1>1 DEF BuildsOK, TimePasses, VInv

(* What was sent is still what it was.                                     *)
LEMMA ContentRemains ==
    ASSUME VInv, TimePasses, RunsRemain, NEW tx \in listed, content'[tx] = content[tx]
    PROVE  \E gas \in Worlds :
               /\ content'[tx] = [calls |-> CallsOf(tx)', gas |-> gas]
               /\ built'[tx.run].moment = Moment' => gas = world'
<1>1. PICK gas \in Worlds : /\ content[tx] = [calls |-> CallsOf(tx), gas |-> gas]
                            /\ built[tx.run].moment = Moment => gas = world
  BY DEF VInv, ContentsOK
<1>2. tx.run \in Runs /\ run[tx.run].pc \in {"send", "done"}
  BY DEF VInv, IInv, TypeOK, Transactions, AllListedOK, ListedOK
<1>3. /\ built'[tx.run] = built[tx.run] /\ run'[tx.run].kind = run[tx.run].kind
      /\ run'[tx.run].salt = run[tx.run].salt
  BY <1>2 DEF RunsRemain
<1>4. CallsOf(tx)' = CallsOf(tx)
  BY <1>3 DEF CallsOf, Calls
<1>5. built[tx.run].moment = Moment' => Moment' = Moment /\ world' = world
  BY <1>2, MomentIs DEF TimePasses, VInv, BuildsOK
<1>6. QED
  BY <1>1, <1>3, <1>4, <1>5

LEMMA ContentsRemain ==
    ASSUME VInv, TimePasses, RunsRemain, content' = content, listed' = listed
    PROVE  ContentsOK'
BY ContentRemains DEF ContentsOK
-----------------------------------------------------------------------------
LEMMA BeginRemains ==
    ASSUME VInv, NEW r \in Runs, NEW kind \in Kinds, NEW onchain \in Onchain,
           NEW arg \in Nonces \cup {NoNonce}, Begin(r, kind, onchain, arg)
    PROVE  Remains
<1>1. IInv'
  BY StartIInv DEF Begin, VInv
<1>2. TimePasses /\ Moment' = Moment /\ world' = world
  BY TimeStands DEF Begin, Start, Moment
<1>3. /\ run[r].pc = "idle" /\ run'[r].kind = kind /\ listed' = listed
      /\ \A s \in Runs \ {r} : run'[s] = run[s]
  BY TypesOfRuns DEF Begin, Start, At, VInv, IInv, TypeOK
<1>4. built' = [built EXCEPT ![r] = [pairs |-> WhatIsRead(kind), moment |-> Moment]]
  BY ReadIs DEF Begin
<1>5. /\ DOMAIN built' = Runs /\ \A s \in Runs \ {r} : built'[s] = built[s]
      /\ built'[r] = [pairs |-> WhatIsRead(kind), moment |-> Moment]
  BY <1>4 DEF VInv, BuildsOK
<1>6. RunsRemain
  BY <1>3, <1>5 DEF RunsRemain
<1>7. BuildsOK'
  <2>1. ASSUME NEW s \in Runs
        PROVE  /\ built'[s].moment \in Nat /\ built'[s].moment <= Moment
               /\ run'[s].pc # "idle" /\ built'[s].moment = Moment
                    => built'[s].pairs = WhatIsRead(run'[s].kind)
    BY <1>2, <1>3, <1>5 DEF VInv, BuildsOK, TimePasses
  <2>2. \A s \in Runs : WhatIsRead(run[s].kind)' = WhatIsRead(run'[s].kind)
    BY <1>2 DEF WhatIsRead, InOrder
  <2>3. DOMAIN content' = listed'
    BY <1>3 DEF Begin, VInv, BuildsOK
  <2>4. \A s \in Runs : /\ built'[s].moment \in Nat /\ built'[s].moment <= Moment'
                        /\ run'[s].pc # "idle" /\ built'[s].moment = Moment'
                             => built'[s].pairs = WhatIsRead(run[s].kind)'
    BY <1>2, <2>1, <2>2
  <2>5. QED
    BY <1>2, <1>5, <2>3, <2>4 DEF BuildsOK, TimePasses
<1>8. ContentsOK'
  BY <1>2, <1>3, <1>6, ContentsRemain DEF Begin
<1>9. QED
  BY <1>1, <1>2, <1>6, <1>7, <1>8 DEF Remains

(* Steps of a script that send nothing.                                    *)
LEMMA ScriptRemains ==
    ASSUME VInv, NEW r \in Runs, Sanitize(r) \/ PickNonce(r) \/ GiveUp(r), UNCHANGED extra
    PROVE  Remains
<1>1. IInv'
  BY SanitizeIInv, PickNonceIInv, GiveUpIInv DEF VInv
<1>2. UNCHANGED <<listed, log, world, changes, built, content>>
  BY DEF Sanitize, PickNonce, GiveUp, extra
<1>3. TimePasses
  BY <1>2, TimeStands
<1>4. /\ \A s \in Runs \ {r} : run'[s] = run[s]
      /\ run'[r].kind = run[r].kind /\ run[r].pc \notin {"idle", "done"}
      /\ run[r].pc = "send" => run'[r].salt = run[r].salt
  <2>1. run[r] \in RunType /\ run \in [Runs -> RunType]
    BY TypesOfRuns DEF VInv, IInv, TypeOK, RunType
  <2>2. CASE Sanitize(r)
    BY <2>1, <2>2 DEF Sanitize, At, RunType
  <2>3. CASE PickNonce(r)
    BY <2>1, <2>3 DEF PickNonce, At, RunType
  <2>4. CASE GiveUp(r)
    BY <2>1, <2>4 DEF GiveUp, Running, RunType
  <2>5. QED
    BY <2>2, <2>3, <2>4
<1>5. RunsRemain
  BY <1>2, <1>4 DEF RunsRemain
<1>6. BuildsOK'
  BY <1>2, <1>3, <1>4, BuildsRemain DEF VInv, BuildsOK
<1>7. QED
  BY <1>1, <1>2, <1>3, <1>5, <1>6, ContentsRemain DEF Remains

LEMMA SubmitRemains ==
    ASSUME VInv, NEW r \in Runs, Submit(r)
    PROVE  Remains
<1>0. PICK tx : tx = Current(r)
  OBVIOUS
<1>1. IInv'
  BY SubmitIInv DEF Submit, VInv
<1>2. /\ run[r].pc = "send" /\ run' = [run EXCEPT ![r] = Sent(r)]
      /\ listed' = listed \cup {tx} /\ UNCHANGED <<world, changes, built>>
      /\ \/ UNCHANGED log
         \/ \E ok \in BOOLEAN : Perform(tx, ok)
  BY <1>0 DEF Submit, Propose, ExecuteOnchain, At
<1>3. TimePasses
  BY <1>2, TimeStands, LogGrows
<1>4. /\ \A s \in Runs \ {r} : run'[s] = run[s]
      /\ run'[r] = Sent(r)
  BY <1>2 DEF VInv, IInv, TypeOK
<1>5. Sent(r).kind = run[r].kind /\ Sent(r).salt = run[r].salt /\ tx.run = r /\ tx.step = run[r].step
  <2>1. run[r] \in RunType
    BY TypesOfRuns DEF VInv
  <2>2. QED
    BY <1>0, <2>1 DEF Sent, RunType, Current
<1>6. tx \notin listed
  BY <1>0, <1>2, Sending DEF VInv
<1>7. RunsRemain
  BY <1>2, <1>4, <1>5 DEF RunsRemain
<1>8. BuildsOK'
  <2>1. DOMAIN content' = listed'
    BY DEF Submit
  <2>2. QED
    BY <1>2, <1>3, <1>4, <1>5, <2>1, BuildsRemain
<1>9. ContentsOK'
  <2> DEFINE Right(t) == \E gas \in Worlds :
                             /\ content'[t] = [calls |-> CallsOf(t)', gas |-> gas]
                             /\ built'[t.run].moment = Moment' => gas = world'
  <2>1. ASSUME NEW t \in listed PROVE Right(t)
    <3>1. content'[t] = content[t]
      BY <1>0, <1>2, <1>6 DEF Submit
    <3>2. QED
      BY <1>3, <1>7, <3>1, ContentRemains
  <2>2. Right(tx)
    <3>1. content'[tx] = [calls |-> CallsToSend(r), gas |-> world]
      BY <1>0, <1>2 DEF Submit
    <3>2. CallsToSend(r) = CallsOf(tx)'
      BY <1>2, <1>4, <1>5 DEF CallsToSend, CallsOf, Calls
    <3>3. world \in Worlds /\ world' = world
      BY <1>2 DEF VInv, BuildsOK
    <3>4. QED
      BY <3>1, <3>2, <3>3
  <2> HIDE DEF Right
  <2>3. \A t \in listed' : Right(t)
    BY <1>2, <2>1, <2>2
  <2>4. QED
    BY <2>3 DEF ContentsOK, Right
<1>10. QED
  BY <1>1, <1>3, <1>7, <1>8, <1>9 DEF Remains

LEMMA OwnersRemain ==
    ASSUME VInv, NEW tx \in listed, OwnersExecute(tx), UNCHANGED extra
    PROVE  Remains
<1>1. IInv'
  BY OwnersExecuteIInv DEF VInv
<1>2. UNCHANGED <<run, listed, world, changes, built, content>>
  BY DEF OwnersExecute, extra
<1>3. TimePasses
  BY <1>2, LogGrows DEF OwnersExecute
<1>4. RunsRemain
  BY <1>2 DEF RunsRemain
<1>5. BuildsOK'
  BY <1>2, <1>3, BuildsRemain DEF VInv, BuildsOK
<1>6. QED
  BY <1>1, <1>2, <1>3, <1>4, <1>5, ContentsRemain DEF Remains

(* Steps that none of the scripts makes that propose.                      *)
LEMMA OthersRemain ==
    ASSUME VInv, UNCHANGED <<vars, built, content>>, TimePasses
    PROVE  Remains
<1>1. UNCHANGED <<run, listed, chainNonce, log>>
  BY DEF vars
<1>2. IInv'
  <2>1. [Next]_vars
    OBVIOUS
  <2>2. QED
    BY <2>1, StepIInv DEF VInv
<1>3. RunsRemain
  BY <1>1 DEF RunsRemain
<1>4. BuildsOK'
  BY <1>1, BuildsRemain DEF VInv, BuildsOK
<1>5. QED
  BY <1>1, <1>2, <1>3, <1>4, ContentsRemain DEF Remains

LEMMA ChainChangesRemain ==
    ASSUME VInv, ChainChanges
    PROVE  Remains
<1>1. Moment \in Nat /\ Len(log) \in Nat
  BY MomentIs DEF VInv, BuildsOK
<1>2. /\ changes \in Nat /\ changes < MaxChanges /\ changes' = changes + 1 /\ log' = log
      /\ world' \in Worlds /\ UNCHANGED <<vars, built, content>>
  BY VerificationAssumption DEF ChainChanges, vars, VInv, BuildsOK
<1>3. TimePasses
  <2>1. Moment' = Moment + 1
    BY <1>1, <1>2 DEF Moment
  <2>2. changes' \in 0..MaxChanges
    BY <1>2, BoundsAreNaturals
  <2>3. QED
    BY <1>1, <1>2, <2>1, <2>2 DEF TimePasses
<1>4. QED
  BY <1>2, <1>3, OthersRemain
-----------------------------------------------------------------------------
(* Time passes while an owner verifies.                                    *)
LEMMA VerifierRemains ==
    ASSUME VInv, Remains, NEW v, VerifierOK(v)
    PROVE  VerifierOK(v)'
<1>1. v \in VerifierType /\ listed \subseteq listed' /\ VerifierOK(v)
  BY DEF VerifierOK, Remains, RunsRemain
<1>2. v \in VerifierType'
  BY <1>1 DEF VerifierType
<1>3. CASE v.pc = "idle"
  BY <1>2, <1>3 DEF VerifierOK
<1>4. CASE v.pc # "idle"
  <2>1. /\ v.of \in Runs /\ run[v.of].pc = "done" /\ run'[v.of] = run[v.of]
        /\ built'[v.of] = built[v.of] /\ v.seen \subseteq listed
        /\ \A tx \in listed' : tx.run = v.of => tx \in listed
    BY <1>1, <1>4 DEF VerifierOK, Repeated, VerifierType, Remains, RunsRemain
  <2>2. /\ Moment \in Nat /\ Moment' \in Nat /\ Moment <= Moment'
        /\ built[v.of].moment \in Nat /\ built[v.of].moment <= Moment
        /\ Moment' = Moment => world' = world
    BY <2>1, MomentIs DEF Remains, TimePasses, VInv, BuildsOK
  <2>3. Undisturbed(v, Moment)' => Undisturbed(v, Moment) /\ world' = world
    BY <2>1, <2>2 DEF Undisturbed
  <2>4. FoundRight(v) => FoundRight(v)'
    <3>1. SUFFICES ASSUME FoundRight(v), NEW step \in DOMAIN v.found, NEW tx \in Proposal(v.of, step)',
                          MeantBy(v, tx)', SaltIsNonce(tx)'
                   PROVE  v.found[step]
      BY DEF FoundRight
    <3>2. tx \in Proposal(v.of, step) /\ tx.run = v.of
      BY <2>1 DEF Proposal
    <3>3. MeantBy(v, tx)
      BY <1>1, <2>1, <3>1 DEF MeantBy
    <3>4. SaltIsNonce(tx)
      BY <2>1, <3>1, <3>2 DEF SaltIsNonce
    <3>5. QED
      BY <3>1, <3>2, <3>3, <3>4 DEF FoundRight
  <2>5. NonceRight(v) => NonceRight(v)'
    <3>1. listed' = v.seen => listed' = listed
      BY <1>1, <2>1
    <3>2. QED
      BY <2>1, <3>1 DEF NonceRight, FirstAvailableNonce
  <2>6. Undisturbed(v, v.moment)' => Undisturbed(v, v.moment)
    BY <2>1 DEF Undisturbed
  <2>7. v.moment <= Moment => v.moment <= Moment'
    BY <1>1, <2>2 DEF VerifierType
  <2>8. Repeated(v)'
    BY <1>1, <1>4, <2>1 DEF VerifierOK, Repeated
  <2>9. Verifying(v) => Verifying(v)'
    BY <2>1, <2>3, <2>4, <2>5 DEF Verifying
  <2>10. Verified(v) => Verified(v)'
    BY <2>4, <2>6, <2>7 DEF Verified
  <2>11. QED
    BY <1>1, <1>2, <2>8, <2>9, <2>10 DEF VerifierOK
<1>5. QED
  BY <1>3, <1>4
-----------------------------------------------------------------------------
(* What the verifier does.                                                 *)
LEMMA StartVerifyOK ==
    ASSUME VInv, NEW r \in Runs, NEW given \in BOOLEAN, StartVerify(r, given), NEW w, w = verifier'
    PROVE  VerifierOK(w)
<1>1. PICK tx \in Proposal(r, 1) :
          w = [Idle EXCEPT !.pc = IF given THEN "estimate" ELSE "nonce",
                           !.of = r, !.given = given, !.pairs = WhatIsRead(run[r].kind),
                           !.seen = IF given THEN {} ELSE listed,
                           !.nonce = IF given THEN tx.nonce ELSE NoNonce]
  BY ReadIs DEF StartVerify
<1>2. /\ w.pc = IF given THEN "estimate" ELSE "nonce"
      /\ w.of = r /\ w.given = given /\ w.pairs = WhatIsRead(run[r].kind)
      /\ w.nonce = IF given THEN tx.nonce ELSE NoNonce
      /\ w.step = 1 /\ w.found = <<>>
  BY <1>1 DEF Idle
<1>3. run[r].pc = "done" /\ (run[r].kind = "complete" => given)
  BY DEF StartVerify, At
<1>4. tx.nonce \in Nat /\ tx.nonce = run[r].nonce + 1 - 1
  BY DEF Proposal, VInv, IInv, AllListedOK, ListedOK, TypeOK, Transactions
<1>5. WhatIsRead(run[r].kind) \in {<<>>} \cup {[i \in DOMAIN PairList |->
                                      [pair |-> PairList[i], amount |-> v]] : v \in Worlds}
  BY DEF WhatIsRead, InOrder, VInv, BuildsOK
<1>6. w \in VerifierType
  <2>1. Idle \in VerifierType
    BY DEF VerifierType, Idle
  <2>2. (IF given THEN tx.nonce ELSE NoNonce) \in Nat \cup {NoNonce}
    BY <1>4
  <2>3. (IF given THEN {} ELSE listed) \in SUBSET listed
    OBVIOUS
  <2>4. QED
    BY <1>1, <1>5, <2>1, <2>2, <2>3, ZenonT(60) DEF VerifierType
<1>7. Repeated(w)
  BY <1>2, <1>3 DEF Repeated
<1>8. Verifying(w)
  <2>1. Len(w.found) = 0 /\ w.step - 1 = 0 /\ FoundRight(w)
    BY <1>2 DEF FoundRight
  <2>2. Undisturbed(w, Moment) => w.pairs = built[w.of].pairs
    BY <1>2, <1>3 DEF Undisturbed, VInv, BuildsOK
  <2>3. w.pc # "nonce" => NonceRight(w)
    BY <1>2, <1>4 DEF NonceRight
  <2>4. QED
    BY <1>2, <2>1, <2>2, <2>3 DEF Verifying
<1>9. QED
  BY <1>2, <1>6, <1>7, <1>8 DEF VerifierOK

LEMMA TakeLastNonceOK ==
    ASSUME VInv, TakeLastNonce, NEW w, w = verifier'
    PROVE  VerifierOK(w)
<1> DEFINE v == verifier
<1>1. v.pc = "nonce" /\ w = [v EXCEPT !.pc = "estimate", !.nonce = FirstAvailableNonce - 1]
  BY DEF TakeLastNonce, LastNonce
<1>2. v \in VerifierType /\ Repeated(v) /\ Verifying(v)
  BY <1>1 DEF VInv, VerifierOK
<1>3. FirstAvailableNonce - 1 \in Nat \cup {NoNonce}
  BY ListedNonces DEF VInv, NoNonce
<1>4. /\ w \in VerifierType
      /\ w.of = v.of /\ w.step = v.step /\ w.given = v.given /\ w.seen = v.seen
      /\ w.found = v.found /\ w.pairs = v.pairs /\ w.pc = "estimate" /\ w.nonce = FirstAvailableNonce - 1
  BY <1>1, <1>2, <1>3, ZenonT(60) DEF VerifierType
<1>5. Repeated(w)
  BY <1>2, <1>4 DEF Repeated
<1>6. ~w.given
  BY <1>1, <1>2, <1>4 DEF Verifying
<1>7. Verifying(w)
  BY <1>2, <1>4, <1>6 DEF Verifying, Undisturbed, FoundRight, MeantBy, NonceRight
<1>8. QED
  BY <1>4, <1>5, <1>7 DEF VerifierOK

LEMMA EstimateOK ==
    ASSUME VInv, Estimate, NEW w, w = verifier'
    PROVE  VerifierOK(w)
<1> DEFINE v == verifier
<1>1. v.pc = "estimate" /\ w = [v EXCEPT !.pc = "lookup", !.gas = world]
  BY DEF Estimate
<1>2. v \in VerifierType /\ Repeated(v) /\ Verifying(v) /\ world \in Worlds
  BY <1>1 DEF VInv, VerifierOK, BuildsOK
<1>3. /\ w \in VerifierType
      /\ w.of = v.of /\ w.step = v.step /\ w.given = v.given /\ w.seen = v.seen
      /\ w.found = v.found /\ w.pairs = v.pairs /\ w.pc = "lookup" /\ w.nonce = v.nonce
      /\ w.gas = world
  BY <1>1, <1>2, ZenonT(60) DEF VerifierType
<1>4. Repeated(w)
  BY <1>2, <1>3 DEF Repeated
<1>5. Verifying(w)
  BY <1>1, <1>2, <1>3 DEF Verifying, Undisturbed, FoundRight, MeantBy, NonceRight
<1>6. QED
  BY <1>3, <1>4, <1>5 DEF VerifierOK

(* The transaction meant has the hash that is looked up.                   *)
LEMMA MeantMatches ==
    ASSUME VInv, verifier.pc = "lookup", Undisturbed(verifier, Moment),
           NEW tx \in Proposal(Of, verifier.step), MeantBy(verifier, tx), SaltIsNonce(tx)
    PROVE  Matches(tx)
<1> DEFINE v == verifier
<1>1. Repeated(v) /\ Verifying(v) /\ v.step \in {1, 2}
  BY DEF VInv, VerifierOK, VerifierType
<1>2. tx \in listed /\ tx.run = v.of /\ tx.step = v.step /\ tx.nonce \in Nat /\ ListedOK(tx)
  BY DEF Proposal, Of, VInv, IInv, AllListedOK, TypeOK, Transactions
<1>3. tx.nonce = v.nonce
  <2>1. CASE v.given
    BY <1>1, <1>2, <2>1 DEF Verifying, NonceRight, ListedOK
  <2>2. CASE ~v.given
    <3>1. v.nonce = FirstAvailableNonce - 1
      BY <1>1, <2>2 DEF Verifying, NonceRight, MeantBy
    <3>2. \A other \in listed : other.nonce <= tx.nonce
      BY <2>2 DEF MeantBy
    <3>3. tx.nonce + 1 = FirstAvailableNonce
      <4>1. FirstAvailableNonce = NonceAfter(listed) /\ listed # {}
        BY <1>2 DEF FirstAvailableNonce, NonceAfter
      <4>2. \A t \in listed : t.nonce \in Nat
        BY DEF VInv, IInv, TypeOK, Transactions
      <4>3. PICK top \in listed : top.nonce + 1 = FirstAvailableNonce
        BY <4>1, <4>2, NonceAfterAll DEF VInv, IInv, AllListedOK
      <4>4. tx.nonce < FirstAvailableNonce /\ FirstAvailableNonce \in Nat
        BY <1>2, ListedNonces DEF VInv
      <4>5. top.nonce <= tx.nonce /\ top.nonce \in Nat
        BY <3>2, <4>2
      <4>6. QED
        BY <1>2, <4>3, <4>4, <4>5
    <3>4. QED
      BY <1>2, <3>1, <3>3
  <2>3. QED
    BY <2>1, <2>2
<1>4. content[tx] = [calls |-> CallsOf(tx), gas |-> world]
  BY <1>2 DEF VInv, ContentsOK, Undisturbed
<1>5. v.pairs = built[v.of].pairs /\ v.gas = world
  BY <1>1 DEF Verifying
<1>6. CallsOf(tx) = Calls(v.of, v.step, v.nonce, v.pairs)
  BY <1>2, <1>3, <1>5 DEF CallsOf, Calls, SaltIsNonce
<1>7. QED
  BY <1>3, <1>4, <1>5, <1>6 DEF Matches, Of

LEMMA LookupOK ==
    ASSUME VInv, Lookup, NEW w, w = verifier'
    PROVE  VerifierOK(w)
<1> DEFINE v == verifier
           hit == \E tx \in listed : Matches(tx)
<1>1. /\ v.pc = "lookup"
      /\ w = IF run[v.of].kind = "complete" /\ v.step = 1
             THEN [v EXCEPT !.found = Append(v.found, hit), !.moment = Moment,
                            !.pc = "estimate", !.step = 2, !.nonce = v.nonce + 1]
             ELSE [v EXCEPT !.found = Append(v.found, hit), !.moment = Moment, !.pc = "done"]
  <2>1. v \in VerifierType
    BY DEF VInv, VerifierOK
  <2>2. QED
    BY <2>1 DEF Lookup, Of, NonceOfNext, VerifierType
<1>2. v \in VerifierType /\ Repeated(v) /\ Verifying(v)
  BY <1>1 DEF VInv, VerifierOK
<1>3. /\ v.found \in Seq(BOOLEAN) /\ Len(v.found) = v.step - 1 /\ v.step \in {1, 2} /\ hit \in BOOLEAN
      /\ Moment \in Nat
  BY <1>2, MomentIs DEF VerifierType, Verifying, VInv, BuildsOK
<1>4. Undisturbed(v, Moment) =>
          \A tx \in Proposal(v.of, v.step) : MeantBy(v, tx) /\ SaltIsNonce(tx) => hit
  BY <1>1, MeantMatches DEF Proposal, Of
<1> HIDE DEF hit
<1>5. /\ Append(v.found, hit) \in Seq(BOOLEAN) /\ Len(Append(v.found, hit)) = v.step
      /\ DOMAIN Append(v.found, hit) = 1..v.step
      /\ \A i \in 1..(v.step - 1) : Append(v.found, hit)[i] = v.found[i]
      /\ Append(v.found, hit)[v.step] = hit
      /\ DOMAIN v.found = 1..(v.step - 1)
  BY <1>3, AppendProperties, LenProperties
<1>6. /\ w.of = v.of /\ w.given = v.given /\ w.seen = v.seen /\ w.pairs = v.pairs
      /\ w.found = Append(v.found, hit) /\ w.moment = Moment
  BY <1>1, <1>2 DEF VerifierType
<1>7. Undisturbed(v, Moment) => FoundRight(w)
  <2>1. SUFFICES ASSUME Undisturbed(v, Moment), NEW step \in 1..v.step, NEW tx \in Proposal(v.of, step),
                        MeantBy(v, tx), SaltIsNonce(tx)
                 PROVE  w.found[step]
    BY <1>5, <1>6 DEF FoundRight, MeantBy
  <2>2. CASE step = v.step
    BY <1>4, <1>5, <1>6, <2>1, <2>2
  <2>3. CASE step # v.step
    <3>1. step \in 1..(v.step - 1)
      BY <1>3, <2>3
    <3>2. v.found[step]
      BY <1>2, <1>5, <2>1, <3>1 DEF Verifying, FoundRight
    <3>3. QED
      BY <1>5, <1>6, <3>1, <3>2
  <2>4. QED
    BY <2>2, <2>3
<1>8. CASE run[v.of].kind = "complete" /\ v.step = 1
  <2>1. w = [v EXCEPT !.found = Append(v.found, hit), !.moment = Moment,
                      !.pc = "estimate", !.step = 2, !.nonce = v.nonce + 1]
    BY <1>1, <1>8
  <2>2. v.given /\ v.nonce = run[v.of].nonce /\ v.nonce \in Nat
    <3>1. v.given
      BY <1>2, <1>8 DEF Repeated
    <3>2. v.nonce \in Nat /\ v.nonce = run[v.of].nonce + 1 - 1
      BY <1>1, <1>2, <1>8, <3>1 DEF Verifying, NonceRight
    <3>3. run[v.of].nonce \in Nat \cup {NoNonce}
      BY <1>2, TypesOfRuns DEF Repeated, VInv, RunType
    <3>4. run[v.of].nonce \in Int
      BY <3>3 DEF NoNonce
    <3>5. QED
      BY <3>1, <3>2, <3>4
  <2>3. w \in VerifierType
    <3>1. v.nonce + 1 \in Nat \cup {NoNonce} /\ 2 \in {1, 2}
      BY <2>2
    <3>2. PICK found \in Seq(BOOLEAN) : found = Append(v.found, hit)
      BY <1>5
    <3>3. QED
      BY <1>2, <1>3, <2>1, <3>1, <3>2, ZenonT(60) DEF VerifierType
  <2>4. w.step = 2 /\ w.pc = "estimate" /\ w.nonce = v.nonce + 1
    BY <1>2, <2>1 DEF VerifierType
  <2>5. Repeated(w)
    BY <1>2, <1>6, <1>8, <2>2 DEF Repeated
  <2>6. NonceRight(w)
    BY <1>6, <2>2, <2>4 DEF NonceRight
  <2>7. Verifying(w)
    BY <1>2, <1>5, <1>6, <1>7, <1>8, <2>4, <2>6 DEF Verifying, Undisturbed
  <2>8. QED
    BY <2>3, <2>4, <2>5, <2>7 DEF VerifierOK
<1>9. CASE ~(run[v.of].kind = "complete" /\ v.step = 1)
  <2>1. w = [v EXCEPT !.found = Append(v.found, hit), !.moment = Moment, !.pc = "done"]
    BY <1>1, <1>9
  <2>2. w \in VerifierType /\ w.step = v.step /\ w.pc = "done"
    BY <1>2, <1>3, <1>5, <2>1, ZenonT(60) DEF VerifierType
  <2>3. Repeated(w)
    BY <1>2, <1>6, <2>2 DEF Repeated
  <2>4. Verified(w)
    BY <1>3, <1>5, <1>6, <1>7, <2>2 DEF Verified, Undisturbed
  <2>5. QED
    BY <2>2, <2>3, <2>4 DEF VerifierOK
<1>10. QED
  BY <1>8, <1>9
-----------------------------------------------------------------------------
(* The verifier changes nothing but what it knows.                         *)
LEMMA VerifierStep ==
    ASSUME VInv, UNCHANGED <<vars, world, changes, built, content>>,
           \A w : w = verifier' => VerifierOK(w)
    PROVE  VInv'
<1>1. Remains
  BY TimeStands, OthersRemain DEF vars
<1>2. VerifierOK(verifier)'
  <2>1. PICK w : w = verifier'
    OBVIOUS
  <2>2. VerifierOK(w)'
    BY <1>1, <2>1, VerifierRemains
  <2>3. QED
    BY <2>1, <2>2 DEF VerifierOK, Repeated, Verifying, Verified, Undisturbed, FoundRight, NonceRight,
                      MeantBy, Proposal
<1>3. QED
  BY <1>1, <1>2 DEF Remains, VInv

LEMMA OtherStep == VInv /\ Remains /\ verifier' = verifier => VInv'
<1> SUFFICES ASSUME VInv, Remains, verifier' = verifier PROVE VInv'
  OBVIOUS
<1>1. PICK w : w = verifier
  OBVIOUS
<1>2. VerifierOK(w)'
  BY <1>1, VerifierRemains DEF VInv
<1>3. VerifierOK(verifier)'
  BY <1>1, <1>2
<1>4. QED
  BY <1>3 DEF Remains, VInv

LEMMA StepVInv == VInv /\ [VNext]_allVars => VInv'
<1> SUFFICES ASSUME VInv, [VNext]_allVars PROVE VInv'
  OBVIOUS
<1>1. ASSUME NEW r \in Runs, NEW kind \in Kinds, NEW onchain \in Onchain,
             NEW arg \in Nonces \cup {NoNonce}, Begin(r, kind, onchain, arg)
      PROVE  VInv'
  <2>1. verifier' = verifier
    BY <1>1 DEF Begin
  <2>2. QED
    BY <1>1, <2>1, BeginRemains, OtherStep
<1>2. ASSUME NEW r \in Runs, Submit(r)
      PROVE  VInv'
  <2>1. verifier' = verifier
    BY <1>2 DEF Submit
  <2>2. QED
    BY <1>2, <2>1, SubmitRemains, OtherStep
<1>3. ASSUME NEW r \in Runs, Sanitize(r) \/ PickNonce(r) \/ GiveUp(r), UNCHANGED extra
      PROVE  VInv'
  <2>1. verifier' = verifier
    BY <1>3 DEF extra
  <2>2. QED
    BY <1>3, <2>1, ScriptRemains, OtherStep
<1>4. ASSUME NEW tx \in listed, OwnersExecute(tx), UNCHANGED extra
      PROVE  VInv'
  <2>1. verifier' = verifier
    BY <1>4 DEF extra
  <2>2. QED
    BY <1>4, <2>1, OwnersRemain, OtherStep
<1>5. CASE ChainChanges
  <2>1. verifier' = verifier
    BY <1>5 DEF ChainChanges
  <2>2. QED
    BY <1>5, <2>1, ChainChangesRemain, OtherStep
<1>6. ASSUME NEW r \in Runs, NEW given \in BOOLEAN, StartVerify(r, given)
      PROVE  VInv'
  <2>1. \A w : w = verifier' => VerifierOK(w)
    BY <1>6, StartVerifyOK
  <2>2. QED
    BY <1>6, <2>1, VerifierStep DEF StartVerify
<1>7. CASE TakeLastNonce
  <2>1. \A w : w = verifier' => VerifierOK(w)
    BY <1>7, TakeLastNonceOK
  <2>2. QED
    BY <1>7, <2>1, VerifierStep DEF TakeLastNonce
<1>8. CASE Estimate
  <2>1. \A w : w = verifier' => VerifierOK(w)
    BY <1>8, EstimateOK
  <2>2. UNCHANGED <<vars, world, changes, built, content>>
    BY <1>8 DEF Estimate
  <2>3. QED
    BY <2>1, <2>2, VerifierStep
<1>9. CASE Lookup
  <2>1. \A w : w = verifier' => VerifierOK(w)
    BY <1>9, LookupOK
  <2>2. UNCHANGED <<vars, world, changes, built, content>>
    BY <1>9 DEF Lookup
  <2>3. QED
    BY <2>1, <2>2, VerifierStep
<1>10. CASE UNCHANGED allVars
  <2>1. UNCHANGED <<vars, world, changes, built, content>> /\ verifier' = verifier
    BY <1>10 DEF allVars, extra
  <2>2. QED
    BY <2>1, VerifierStep DEF VInv
<1>11. QED
  BY <1>1, <1>2, <1>3, <1>4, <1>5, <1>6, <1>7, <1>8, <1>9, <1>10 DEF VNext

LEMMA VInvType == VInv => VerificationTypeOK
<1> SUFFICES ASSUME VInv PROVE VerificationTypeOK
  OBVIOUS
<1>1. verifier \in VerifierType /\ (verifier.pc = "done" => Len(verifier.found) = verifier.step)
  BY DEF VInv, VerifierOK, Verified
<1>2. /\ verifier.pc \in {"idle", "nonce", "estimate", "lookup", "done"}
      /\ verifier.nonce \in Nat \cup {NoNonce} /\ verifier.step \in {1, 2}
      /\ verifier.found \in Seq(BOOLEAN)
  BY <1>1 DEF VerifierType
<1>3. QED
  BY <1>1, <1>2 DEF VerificationTypeOK, VInv, BuildsOK

LEMMA VInvMatches == VInv => UnchangedProposalMatches
BY Zenon DEF VInv, VerifierOK, Verified, FoundRight, MeantBy, Undisturbed, UnchangedProposalMatches,
             Meant, Of

(* What the chain, the builds, the server and the verifier hold always has *)
(* its type, whoever trades and however runs overlap.                      *)
THEOREM VerificationTypesAreRight == VSpec => []VerificationTypeOK
BY InitVInv, StepVInv, VInvType, PTL DEF VSpec

(* As long as nothing changed on the chain, an owner who repeats a command *)
(* with --verify is told that the proposal is the one in the interface: for*)
(* any list of pairs, in whatever order amounts arrive, however the chain  *)
(* changes what is read, and whatever other runs propose meanwhile.        *)
THEOREM UnchangedProposalsMatch == VSpec => []UnchangedProposalMatches
BY InitVInv, StepVInv, VInvMatches, PTL DEF VSpec

(* Verifying, changes of the chain and what transactions contain leave the *)
(* proposals as they are: what holds of SafeProposals holds here too.      *)
THEOREM VerificationLeavesProposals == VSpec => Spec
<1>1. VInit => Init
  BY DEF VInit
<1>2. [VNext]_allVars => [Next]_vars
  <2>1. ASSUME NEW r \in Runs, NEW kind \in Kinds, NEW onchain \in Onchain,
               NEW arg \in Nonces \cup {NoNonce}, Begin(r, kind, onchain, arg)
        PROVE  Next
    BY <2>1 DEF Begin, Next
  <2>2. ASSUME NEW r \in Runs, Submit(r) \/ Sanitize(r) \/ PickNonce(r) \/ GiveUp(r)
        PROVE  Next
    BY <2>2 DEF Submit, Next
  <2>3. ASSUME NEW tx \in listed, OwnersExecute(tx)
        PROVE  Next
    BY <2>3 DEF Next
  <2>4. ChainChanges \/ TakeLastNonce \/ Estimate \/ Lookup \/ (UNCHANGED allVars) => UNCHANGED vars
    BY DEF ChainChanges, TakeLastNonce, Estimate, Lookup, allVars
  <2>5. \A r \in Runs, given \in BOOLEAN : StartVerify(r, given) => UNCHANGED vars
    BY DEF StartVerify
  <2>6. QED
    BY <2>1, <2>2, <2>3, <2>4, <2>5 DEF VNext
<1>3. QED
  BY <1>1, <1>2, PTL DEF VSpec, Spec
=============================================================================
