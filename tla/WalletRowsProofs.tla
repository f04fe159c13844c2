--------------------------- MODULE WalletRowsProofs ---------------------------
(***************************************************************************)
(* Proofs about the Transaction rows: they add up to the balances, and     *)
(* they count the versions.  Whatever fails, and in every instance.        *)
(***************************************************************************)
EXTENDS WalletSystemProofs, FiniteSetsExt, FiniteSetTheorems

-----------------------------------------------------------------------------
(* Sums over finite sets.  The library's induction theorems cannot be      *)
(* instantiated here, but a well-founded relation has minimal elements,    *)
(* which is as good: the least counterexample is none.                     *)

Total(rows) == MapThenSumSet(LAMBDA e : e.change, rows)

(* f is the function by which Total recurs over the subsets of S.          *)
Recurs(f, S) ==
    f = [s \in SUBSET S |->
           IF s = {} THEN 0
           ELSE LET e == CHOOSE e \in s : TRUE
                IN  e.change + f[s \ {e}]]

(* What holds of a set when it holds of all its proper subsets holds of    *)
(* every subset of a finite set.                                           *)
LEMMA SubsetInduction ==
    ASSUME NEW S, IsFiniteSet(S), NEW Good,
           \A s \in SUBSET S :
               (\A u \in SUBSET s : u # s => u \in Good) => s \in Good
    PROVE  \A s \in SUBSET S : s \in Good
<1> DEFINE Bad == {s \in SUBSET S : s \notin Good}
<1>1. SUFFICES ASSUME Bad # {} PROVE FALSE
  OBVIOUS
<1>2. Bad \subseteq FiniteSubsetsOf(S)
  BY FS_Subset DEF FiniteSubsetsOf
<1> HIDE DEF Bad
<1>3. \E s \in Bad : \A u \in Bad : ~ (<<u, s>> \in StrictSubsetOrdering(S))
  BY <1>1, <1>2, WFMin, FS_StrictSubsetOrderingWellFounded
<1> QED
  BY <1>3 DEF StrictSubsetOrdering, Bad

(* Two such functions agree on the subsets of both sets.                   *)
LEMMA RecursUnique ==
    ASSUME NEW S, IsFiniteSet(S), NEW T, NEW f, NEW g,
           Recurs(f, S), Recurs(g, T), NEW v, v \subseteq S, v \subseteq T
    PROVE  f[v] = g[v]
<1> DEFINE Good == {s \in SUBSET S : s \subseteq T => f[s] = g[s]}
<1>1. ASSUME NEW s \in SUBSET S, \A u \in SUBSET s : u # s => u \in Good
      PROVE  s \in Good
  <2> DEFINE e == CHOOSE e \in s : TRUE
  <2>1. SUFFICES ASSUME s \subseteq T PROVE f[s] = g[s]
    OBVIOUS
  <2>2. /\ f[s] = IF s = {} THEN 0 ELSE e.change + f[s \ {e}]
        /\ g[s] = IF s = {} THEN 0 ELSE e.change + g[s \ {e}]
    BY <2>1 DEF Recurs
  <2>3. s # {} => f[s \ {e}] = g[s \ {e}]
    BY <1>1, <2>1
  <2> QED
    BY <2>2, <2>3
<1> HIDE DEF Good
<1>2. v \in Good
  BY <1>1, SubsetInduction
<1> QED
  BY <1>2 DEF Good

(* There is one for every finite set.                                      *)
LEMMA RecursExists ==
    ASSUME NEW S, IsFiniteSet(S)
    PROVE  \E f : Recurs(f, S)
<1> DEFINE Good == {s \in SUBSET S : \E f : Recurs(f, s)}
<1>1. ASSUME NEW s \in SUBSET S, \A u \in SUBSET s : u # s => u \in Good
      PROVE  s \in Good
  <2> DEFINE F(u) == CHOOSE f : Recurs(f, u)
             Val(u) == F(u)[u]
             First(u) == CHOOSE e \in u : TRUE
             Rest(u) == u \ {First(u)}
             Sum(u) == IF u = {} THEN 0 ELSE First(u).change + Val(Rest(u))
             g == [u \in SUBSET s |-> Sum(u)]
  <2>1. ASSUME NEW u \in SUBSET s, u # s
        PROVE  Recurs(F(u), u)
    BY <1>1, <2>1
  <2>2. ASSUME NEW u \in SUBSET s, u # {}
        PROVE  /\ First(u) \in u
               /\ Rest(u) \in SUBSET s /\ Rest(u) # s
               /\ Rest(u) \subseteq u
    BY <2>2
  <2>3. ASSUME NEW u \in SUBSET s, u # s, u # {}
        PROVE  F(u)[Rest(u)] = Val(Rest(u))
    <3>1. Recurs(F(u), u) /\ Recurs(F(Rest(u)), Rest(u))
      BY <2>1, <2>2, <2>3
    <3>2. IsFiniteSet(u)
      BY FS_Subset
    <3>3. Rest(u) \subseteq u
      BY <2>2, <2>3
    <3> HIDE DEF F, Rest
    <3> QED
      BY <3>1, <3>2, <3>3, RecursUnique
  <2>4. ASSUME NEW u \in SUBSET s, u # s
        PROVE  Val(u) = Sum(u)
    <3>1. F(u) = [v \in SUBSET u |->
                    IF v = {} THEN 0
                    ELSE LET e == CHOOSE e \in v : TRUE
                         IN  e.change + F(u)[v \ {e}]]
      BY <2>1, <2>4 DEF Recurs
    <3> HIDE DEF F
    <3>2. Val(u) = IF u = {} THEN 0 ELSE First(u).change + F(u)[Rest(u)]
      BY <3>1
    <3> QED
      BY <2>3, <2>4, <3>2
  <2>5. ASSUME NEW u \in SUBSET s, u # {}
        PROVE  g[Rest(u)] = Val(Rest(u))
    <3>1. Rest(u) \in SUBSET s /\ Val(Rest(u)) = Sum(Rest(u))
      <4>1. Rest(u) \in SUBSET s /\ Rest(u) # s
        BY <2>2, <2>5
      <4> HIDE DEF Rest
      <4> QED
        BY <2>4, <4>1
    <3> HIDE DEF Rest, Val, Sum
    <3> QED
      BY <3>1
  <2>6. g = [u \in SUBSET s |->
               IF u = {} THEN 0 ELSE First(u).change + g[Rest(u)]]
    <3> HIDE DEF First, Rest, Val
    <3> QED
      BY <2>5
  <2>7. Recurs(g, s)
    <3> HIDE DEF g
    <3> QED
      BY <2>6 DEF Recurs
  <2> QED
    BY <2>7
<1> HIDE DEF Good
<1>2. S \in Good
  BY <1>1, SubsetInduction
<1> QED
  BY <1>2 DEF Good

(* Total is what such a function says, on any finite set with the rows.    *)
LEMMA TotalIs ==
    ASSUME NEW S, IsFiniteSet(S), NEW f, Recurs(f, S), NEW u, u \subseteq S
    PROVE  Total(u) = f[u]
<1> DEFINE g == CHOOSE g : Recurs(g, u)
<1>1. IsFiniteSet(u)
  BY FS_Subset
<1>2. Recurs(g, u)
  BY <1>1, RecursExists
<1>3. Total(u) = g[u]
  BY DEF Total, MapThenSumSet, MapThenFoldSet, Recurs
<1> QED
  BY <1>1, <1>2, <1>3, RecursUnique

(* The sum over no rows.                                                   *)
LEMMA TotalEmpty == Total({}) = 0
<1>1. PICK f : Recurs(f, {})
  BY FS_EmptySet, RecursExists
<1>2. f[{}] = 0
  BY <1>1 DEF Recurs
<1> QED
  BY <1>1, <1>2, FS_EmptySet, TotalIs

(* The sum over some rows, by the row that is chosen first.                *)
LEMMA TotalChosen ==
    ASSUME NEW S, IsFiniteSet(S), S # {}
    PROVE  LET e == CHOOSE e \in S : TRUE
           IN  e \in S /\ Total(S) = e.change + Total(S \ {e})
<1> DEFINE e == CHOOSE e \in S : TRUE
<1>1. PICK f : Recurs(f, S)
  BY RecursExists
<1>2. Total(S) = f[S] /\ Total(S \ {e}) = f[S \ {e}]
  BY <1>1, TotalIs
<1>3. f[S] = e.change + f[S \ {e}]
  BY <1>1 DEF Recurs
<1> QED
  BY <1>2, <1>3

(* A sum of whole numbers is one.                                          *)
LEMMA TotalType ==
    ASSUME NEW S, IsFiniteSet(S), \A e \in S : e.change \in Int
    PROVE  Total(S) \in Int
<1> DEFINE Good == {s \in SUBSET S : Total(s) \in Int}
<1>1. ASSUME NEW s \in SUBSET S, \A u \in SUBSET s : u # s => u \in Good
      PROVE  s \in Good
  <2>1. CASE s = {}
    BY <2>1, TotalEmpty
  <2>2. CASE s # {}
    <3> DEFINE e == CHOOSE e \in s : TRUE
    <3>1. IsFiniteSet(s)
      BY FS_Subset
    <3>2. e \in s /\ Total(s) = e.change + Total(s \ {e})
      BY <2>2, <3>1, TotalChosen
    <3>3. e.change \in Int /\ Total(s \ {e}) \in Int
      BY <1>1, <3>2
    <3> QED
      BY <3>2, <3>3
  <2> QED
    BY <2>1, <2>2
<1> HIDE DEF Good
<1>2. S \in Good
  BY <1>1, SubsetInduction
<1> QED
  BY <1>2 DEF Good

(* One row more adds its change, whichever row is chosen first.            *)
LEMMA TotalAdd ==
    ASSUME NEW S, IsFiniteSet(S), \A e \in S : e.change \in Int,
           NEW s \in SUBSET S, NEW x \in S \ s
    PROVE  Total(s \cup {x}) = Total(s) + x.change
<1> DEFINE Good == {u \in SUBSET S : \A y \in S \ u :
                      Total(u \cup {y}) = Total(u) + y.change}
<1>1. ASSUME NEW t \in SUBSET S, \A u \in SUBSET t : u # t => u \in Good,
             NEW y \in S \ t
      PROVE  Total(t \cup {y}) = Total(t) + y.change
  <2> DEFINE z == CHOOSE z \in t \cup {y} : TRUE
             u == t \ {z}
  <2>1. IsFiniteSet(t) /\ IsFiniteSet(t \cup {y}) /\ IsFiniteSet(u)
    BY FS_Subset
  <2>2. /\ z \in t \cup {y}
        /\ Total(t \cup {y}) = z.change + Total((t \cup {y}) \ {z})
    BY <2>1, TotalChosen
  <2>3. /\ y.change \in Int /\ z.change \in Int
        /\ Total(t) \in Int /\ Total(u) \in Int
    BY <2>1, <2>2, TotalType
  <2> HIDE DEF z
  <2>4. CASE z = y
    <3>1. (t \cup {y}) \ {z} = t
      BY <2>4
    <3>2. Total(t \cup {y}) = y.change + Total(t)
      BY <2>2, <2>4, <3>1
    <3> QED
      BY <2>3, <3>2
  <2>5. CASE z # y
    <3>1. /\ (t \cup {y}) \ {z} = u \cup {y}
          /\ u \cup {z} = t
          /\ u \in Good /\ y \in S \ u /\ z \in S \ u
      BY <1>1, <2>2, <2>5
    <3>2. /\ Total(u \cup {y}) = Total(u) + y.change
          /\ Total(t) = Total(u) + z.change
      BY <3>1
    <3>3. Total(t \cup {y}) = z.change + Total(u \cup {y})
      BY <2>2, <3>1
    <3> HIDE DEF u
    <3> QED
      BY <2>3, <3>2, <3>3
  <2> QED
    BY <2>4, <2>5
<1>2. \A t \in SUBSET S :
        (\A u \in SUBSET t : u # t => u \in Good) => t \in Good
  BY <1>1
<1> HIDE DEF Good
<1>3. s \in Good
  BY <1>2, SubsetInduction
<1> QED
  BY <1>3 DEF Good

-----------------------------------------------------------------------------
(* The rows of a settlement.                                               *)

RowsOf(w) == {e \in ledger : e.wallet = w}

(* Request r settles with a fee, as far as the rows are concerned.         *)
Settles(r, fee) ==
    /\ r \in Requests /\ fee \in Fees(r)
    /\ ~ Settled(r.tx) /\ Valid(r)
    /\ ledger' = ledger \cup Entries(r, fee)

(* Every wallet the request names gets exactly one row, a new one.         *)
LEMMA RowsGrow ==
    ASSUME NEW r, NEW fee, Settles(r, fee), NEW w \in Wallets
    PROVE  /\ EntryOf(r, fee, w) \notin ledger
           /\ EntryOf(r, fee, w).wallet = w
           /\ EntryOf(r, fee, w).change = Change(r, fee, w)
           /\ w \in Touched(r) => RowsOf(w)' = RowsOf(w) \cup {EntryOf(r, fee, w)}
           /\ w \notin Touched(r) => RowsOf(w)' = RowsOf(w)
<1>1. Entries(r, fee) = {EntryOf(r, fee, v) : v \in Touched(r)}
  BY DEF Entries
<1>2. \A v : EntryOf(r, fee, v).wallet = v /\ EntryOf(r, fee, v).tx = r.tx
             /\ EntryOf(r, fee, v).change = Change(r, fee, v)
  BY DEF EntryOf
<1>3. EntryOf(r, fee, w) \notin ledger
  BY <1>2 DEF Settles, Settled
<1> QED
  BY <1>1, <1>2, <1>3 DEF Settles, RowsOf

(* A settlement adds finitely many rows, all of the type of rows.          *)
LEMMA SettlesFinite ==
    ASSUME NEW r, NEW fee, Settles(r, fee), IsFiniteSet(ledger),
           ledger \subseteq EntryType
    PROVE  IsFiniteSet(ledger') /\ ledger' \subseteq EntryType
<1>1. ledger' = (ledger \cup {EntryOf(r, fee, r.wallet)})
                        \cup {EntryOf(r, fee, r.toWallet)}
  BY DEF Settles, Entries, Touched
<1>2. IsFiniteSet(ledger')
  BY <1>1, FS_AddElement
<1>3. /\ r.tx \in TxIds /\ fee \in Int
      /\ r.wallet \in Wallets /\ r.toWallet \in Wallets
      /\ \A w \in Wallets : Change(r, fee, w) \in Int
  BY BodyType, FeeType, ChangeType DEF Settles, Valid, ValidWallet
<1> QED
  BY <1>1, <1>2, <1>3 DEF EntryOf, TypeOfEntry, EntryTypes, EntryType

-----------------------------------------------------------------------------
(* The abstract ledger reconciles, so the system that implements it does.  *)

Whole ==
    \A t \in TxIds : Settled(t) =>
        \E r \in Requests : \E fee \in Fees(r) :
            /\ r.tx = t
            /\ {e \in ledger : e.tx = t} = Entries(r, fee)

LedgerInv ==
    /\ balance \in [Wallets -> Int]
    /\ ledger \subseteq EntryType
    /\ IsFiniteSet(ledger)
    /\ \A w \in Wallets : balance[w] = InitialBalance[w] + Total(RowsOf(w))
    /\ Whole

(* A step of the abstract ledger, in the words of the system.              *)
LEMMA LedgerStep ==
    ASSUME Ledger!LNext
    PROVE  \E r, fee :
             /\ Settles(r, fee)
             /\ balance' = [w \in Wallets |-> balance[w] + Change(r, fee, w)]
<1>1. PICK r \in Requests : \E fee \in Ledger!Fees(r) : Ledger!Settle(r, fee)
  BY DEF Ledger!LNext
<1>2. PICK fee \in Ledger!Fees(r) : Ledger!Settle(r, fee)
  BY <1>1
<1>3. fee \in Fees(r)
  BY <1>2 DEF Fees, FeeOptions, Ledger!Fees, Ledger!FeeOptions
<1>4. /\ Settles(r, fee)
      /\ balance' = [w \in Wallets |-> balance[w] + Change(r, fee, w)]
  BY <1>2, <1>3
     DEF Settles, Ledger!Settle, Ledger!Settled, Settled, Valid, ValidWallet,
         Debits, Change, Entries, EntryOf, TypeOfEntry, Touched, Ledger!Valid,
         Ledger!ValidWallet, Ledger!Debits, Ledger!Change, Ledger!Entries,
         Ledger!EntryOf, Ledger!TypeOfEntry, Ledger!Touched
<1> QED
  BY <1>4

(* SettledWhole says it in the words of the abstract ledger.               *)
LEMMA WholeIs == SettledWhole <=> Whole
BY DEF Whole, SettledWhole, Ledger!SettledWhole, Ledger!Settled, Settled, Fees,
       FeeOptions, Ledger!Fees, Ledger!FeeOptions, Entries, EntryOf, Touched,
       TypeOfEntry, Change, Debits, Ledger!Entries, Ledger!EntryOf,
       Ledger!TypeOfEntry, Ledger!Touched, Ledger!Change, Ledger!Debits

(* A settlement keeps the rows of a wallet in step with its balance.       *)
LEMMA SettlesReconciled ==
    ASSUME LedgerInv, NEW r, NEW fee, Settles(r, fee), NEW w \in Wallets,
           balance' = [v \in Wallets |-> balance[v] + Change(r, fee, v)]
    PROVE  balance'[w] = InitialBalance[w] + Total(RowsOf(w)')
<1> DEFINE c == Change(r, fee, w)
<1>1. IsFiniteSet(ledger') /\ ledger' \subseteq EntryType
  BY SettlesFinite DEF LedgerInv
<1>2. /\ InitialBalance[w] \in Int /\ balance[w] \in Int /\ c \in Int
      /\ balance[w] = InitialBalance[w] + Total(RowsOf(w))
      /\ balance'[w] = balance[w] + c
  BY ChangeType, TablesAssumption DEF LedgerInv, Settles
<1>3. Total(RowsOf(w)) \in Int
  <2>1. IsFiniteSet(RowsOf(w)) /\ \A e \in RowsOf(w) : e.change \in Int
    BY FS_Subset DEF LedgerInv, RowsOf, EntryType
  <2> QED
    BY <2>1, TotalType
<1>4. CASE w \in Touched(r)
  <2> DEFINE x == EntryOf(r, fee, w)
             S == RowsOf(w)'
  <2>1. /\ S = RowsOf(w) \cup {x}
        /\ RowsOf(w) \in SUBSET S /\ x \in S \ RowsOf(w)
        /\ x.change = c
    BY <1>4, RowsGrow DEF RowsOf
  <2>2. IsFiniteSet(S) /\ \A e \in S : e.change \in Int
    BY <1>1, FS_Subset DEF RowsOf, EntryType
  <2> HIDE DEF x, S, c
  <2>3. Total(S) = Total(RowsOf(w)) + c
    BY <2>1, <2>2, TotalAdd
  <2> QED
    BY <1>2, <1>3, <2>3 DEF S, c
<1>5. CASE w \notin Touched(r)
  <2>1. RowsOf(w)' = RowsOf(w)
    BY <1>5, RowsGrow
  <2>2. c = 0
    BY <1>5 DEF Change, Touched
  <2> QED
    BY <1>2, <1>3, <2>1, <2>2
<1> QED
  BY <1>4, <1>5

(* A settlement is of a txId that has no rows, and leaves the others.      *)
LEMMA SettlesWhole ==
    ASSUME Whole, NEW r, NEW fee, Settles(r, fee)
    PROVE  Whole'
<1> SUFFICES
      ASSUME NEW t \in TxIds, Settled(t)'
      PROVE  \E q \in Requests : \E f \in Fees(q) :
               q.tx = t /\ {e \in ledger' : e.tx = t} = Entries(q, f)
  BY DEF Whole
<1>1. \A e \in Entries(r, fee) : e.tx = r.tx
  BY DEF Entries, EntryOf
<1>2. CASE t = r.tx
  BY <1>1, <1>2 DEF Settles, Settled
<1>3. CASE t # r.tx
  <2>1. {e \in ledger' : e.tx = t} = {e \in ledger : e.tx = t}
    BY <1>1, <1>3 DEF Settles
  <2>2. Settled(t)
    BY <2>1 DEF Settled
  <2> QED
    BY <2>1, <2>2 DEF Whole
<1> QED
  BY <1>2, <1>3

(* The inductive invariant of the abstract ledger.                         *)
THEOREM LedgerInvariance == Ledger!LSpec => []LedgerInv
<1>1. Ledger!LInit => LedgerInv
  <2> SUFFICES ASSUME Ledger!LInit PROVE LedgerInv
    OBVIOUS
  <2>1. ledger = {} /\ balance = InitialBalance
    BY DEF Ledger!LInit
  <2>2. \A w \in Wallets : RowsOf(w) = {}
    BY <2>1 DEF RowsOf
  <2>3. Whole
    BY <2>1 DEF Whole, Settled
  <2> QED
    BY <2>1, <2>2, <2>3, TotalEmpty, FS_EmptySet, TablesAssumption
       DEF LedgerInv
<1>2. LedgerInv /\ [Ledger!LNext]_(Ledger!lvars) => LedgerInv'
  <2> SUFFICES ASSUME LedgerInv, [Ledger!LNext]_(Ledger!lvars)
               PROVE  LedgerInv'
    OBVIOUS
  <2>1. CASE Ledger!LNext
    <3>1. PICK r, fee :
            /\ Settles(r, fee)
            /\ balance' = [w \in Wallets |-> balance[w] + Change(r, fee, w)]
      BY <2>1, LedgerStep
    <3>2. balance' \in [Wallets -> Int]
      BY <3>1, ChangeType DEF LedgerInv, Settles
    <3>3. IsFiniteSet(ledger') /\ ledger' \subseteq EntryType
      BY <3>1, SettlesFinite DEF LedgerInv
    <3>4. \A w \in Wallets :
            balance'[w] = InitialBalance[w] + Total(RowsOf(w)')
      BY <3>1, SettlesReconciled
    <3>5. Whole'
      BY <3>1, SettlesWhole DEF LedgerInv
    <3> QED
      BY <3>2, <3>3, <3>4, <3>5 DEF LedgerInv
  <2>2. CASE UNCHANGED Ledger!lvars
    <3>1. balance' = balance /\ ledger' = ledger
      BY <2>2 DEF Ledger!lvars
    <3> QED
      BY <3>1 DEF LedgerInv, RowsOf, Whole, Settled
  <2> QED
    BY <2>1, <2>2
<1> QED
  BY <1>1, <1>2, PTL DEF Ledger!LSpec

(* The sum in Reconciled is Total.                                         *)
LEMMA ReconciledIs ==
    Reconciled <=>
        \A w \in Wallets : balance[w] = InitialBalance[w] + Total(RowsOf(w))
BY DEF Reconciled, Ledger!Reconciled, Total, RowsOf, MapThenSumSet,
       MapThenFoldSet, Ledger!MapThenSumSet, Ledger!MapThenFoldSet

(* Every balance is the initial one plus the Transaction rows.             *)
THEOREM AuditTrail == Spec => []Reconciled
<1>1. LedgerInv => Reconciled
  BY ReconciledIs DEF LedgerInv
<1> QED
  BY <1>1, Implementation, LedgerInvariance, PTL DEF ImplementsLedger

(* The rows of a txId are those of one request, whatever is redelivered,   *)
(* published again or sent twice.                                          *)
THEOREM SettlesOnceWhole == Spec => []SettledWhole
<1>1. LedgerInv => SettledWhole
  BY WholeIs DEF LedgerInv
<1> QED
  BY <1>1, Implementation, LedgerInvariance, PTL DEF ImplementsLedger

-----------------------------------------------------------------------------
(* Versions count rows.  This is not in the abstract ledger, which has no  *)
(* versions: it takes the row locks.                                       *)

VersionInv == IsFiniteSet(ledger) /\ VersionCountsRows

(* A commit writes one row for every version it increments.                *)
LEMMA ApplyCounts ==
    ASSUME IInv, VersionInv, NEW j \in Jobs, pc[j] = "commit", Apply(j)
    PROVE  VersionInv'
<1> DEFINE r == job[j]
<1>1. PICK fee \in Fees(r) : ledger' = ledger \cup Entries(r, fee)
  BY DEF Apply
<1>2. /\ Valid(r) /\ r.wallet \in Wallets /\ r.toWallet \in Wallets
      /\ snap[j].from = version[r.wallet] /\ snap[j].to = version[r.toWallet]
  BY DEF IInv, SnapshotsHold, LocksHoldVersions, Valid, ValidWallet, From, To
<1>3. Settles(r, fee)
  BY <1>1, <1>2 DEF Settles, IInv, Bodies, OwnerLogged, BeforeCommit, TxSteps,
                    TxOf
<1>4. IsFiniteSet(ledger')
  BY <1>3, SettlesFinite DEF VersionInv, IInv, TypeOK, StoreTypeOK
<1>5. \A w \in Wallets :
        version'[w] = IF w \in Touched(r) THEN version[w] + 1 ELSE version[w]
  BY <1>2 DEF Apply, From, To, Touched, IInv, TypeOK, StoreTypeOK
<1>6. ASSUME NEW w \in Wallets
      PROVE  version'[w] = Cardinality(RowsOf(w)')
  <2>1. version[w] = Cardinality(RowsOf(w)) /\ IsFiniteSet(RowsOf(w))
    BY FS_Subset DEF VersionInv, VersionCountsRows, RowsOf
  <2>2. CASE w \in Touched(r)
    <3>1. /\ RowsOf(w)' = RowsOf(w) \cup {EntryOf(r, fee, w)}
          /\ EntryOf(r, fee, w) \notin RowsOf(w)
      BY <1>3, <2>2, RowsGrow DEF RowsOf
    <3>2. Cardinality(RowsOf(w)') = Cardinality(RowsOf(w)) + 1
      BY <2>1, <3>1, FS_AddElement
    <3> QED
      BY <1>5, <2>1, <2>2, <3>2
  <2>3. CASE w \notin Touched(r)
    BY <1>3, <1>5, <2>1, <2>3, RowsGrow
  <2> QED
    BY <2>2, <2>3
<1> QED
  BY <1>4, <1>6 DEF VersionInv, VersionCountsRows, RowsOf

(* A wallet's version is the number of its Transaction rows.               *)
THEOREM VersionsCount == Spec => []VersionCountsRows
<1>1. Init => VersionInv
  <2> SUFFICES ASSUME Init PROVE VersionInv
    OBVIOUS
  <2>1. \A w \in Wallets : version[w] = 0 /\ RowsOf(w) = {}
    BY DEF Init, StoreInit, RowsOf
  <2>2. IsFiniteSet(ledger)
    BY FS_EmptySet DEF Init, StoreInit
  <2> QED
    BY <2>1, <2>2, FS_EmptySet DEF VersionInv, VersionCountsRows, RowsOf
<1>2. IInv /\ VersionInv /\ [Next]_vars => VersionInv'
  <2> SUFFICES ASSUME IInv, VersionInv, [Next]_vars PROVE VersionInv'
    OBVIOUS
  <2>1. CASE \E j \in Jobs : pc[j] = "commit" /\ Apply(j)
    BY <2>1, ApplyCounts
  <2>2. CASE UNCHANGED <<balance, version, ledger>>
    BY <2>2 DEF VersionInv, VersionCountsRows
  <2> QED
    BY <2>1, <2>2, NextCommits
<1>3. VersionInv => VersionCountsRows
  BY DEF VersionInv
<1> QED
  BY <1>1, <1>2, <1>3, Invariance, PTL DEF Spec
=============================================================================
