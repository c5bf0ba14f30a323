---------------------------- MODULE ClaimsProofs ----------------------------
(***************************************************************************)
(* Theorems about Claims, for every number of bots, admins and users, every *)
(* quota and every size of the pool.                                       *)
(*                                                                         *)
(* That a quota is exact and never exceeded depends on what a claimer that *)
(* holds the write lock knows of rows it read before it had the lock; that *)
(* is what Knowledge says.                                                 *)
(***************************************************************************)
EXTENDS Claims, FiniteSetTheorems, WellFoundedInduction, TLAPS

Procs == Claimers \union Admins
Holding == {"addressed", "read", "refused"} \union Writing

\* Whoever holds an address holds one with no free address below it, although
\* it may be taken by now.
HeldIsLowest ==
    \A p \in Procs : pc[p] \in Holding =>
        ip[p] \in Usable /\ \A l \in Free : ip[p] <= l

\* Every claim under way is some user's.  A snapshot nobody has committed
\* after, and so every claimer with the write lock, knows the quota; and the
\* lock's holder was the first to insert its address.
Knowledge ==
    \A c \in Claimers :
        /\ pc[c] # "idle" => user[c] \in Users
        /\ (pc[c] = "read" /\ c \notin stale) \/ pc[c] \in Writing =>
               quotaUsed[user[c]] < PerUserQuota
        /\ pc[c] \in Writing => ip[c] \notin Used

QuotasAreFinite == \A u \in Users : IsFiniteSet(OwnedBy(u))

IInv ==
    /\ TypeOK
    /\ HeldIsLowest
    /\ Knowledge
    /\ QuotasAreFinite
    /\ QuotaIsExact
    /\ AddressesUnique

\* The initial state satisfies the inductive invariant.
LEMMA InitIInv == Init => IInv
  <1> SUFFICES ASSUME Init PROVE IInv
    OBVIOUS
  <1> USE TakenAssumption, NamesAssumption, QuotaAssumption DEF Init
  <1>1. TypeOK
    BY SizeAssumption DEF TypeOK, Row, ClaimerAt, AdminAt, Writing
  <1>2. HeldIsLowest /\ Knowledge
    BY DEF HeldIsLowest, Knowledge, Procs, Holding, Writing
  <1>3. \A u \in Users : OwnedBy(u) = {}
    BY DEF OwnedBy
  <1>4. QuotasAreFinite /\ QuotaIsExact
    BY <1>3, FS_EmptySet DEF QuotasAreFinite, QuotaIsExact
  <1>5. AddressesUnique
    BY DEF AddressesUnique
  <1> QED
    BY <1>1, <1>2, <1>4, <1>5 DEF IInv

\* Only an admin's insert and a claim's commit write what grants and quotas
\* are read from.
LEMMA RowSteps ==
    ASSUME [Next]_vars
    PROVE  \/ UNCHANGED <<rows, claims, quotaUsed>>
           \/ \E a \in Admins : WebCreate(a)
           \/ \E c \in Claimers : Commit(c)
  BY DEF Next, Bot, Web, vars, UpsertTelegramUser, BotAllocate, ReadQuota,
         InsertPeer, InsertClaim, IncrementQuota, Abort, TellQuotaExceeded,
         WebAllocate, WebFails, DisablePeer, OtherCommit

\* Types are kept by every step.
LEMMA TypeStep == IInv /\ [Next]_vars => TypeOK'
  <1> SUFFICES ASSUME IInv, [Next]_vars PROVE TypeOK'
    OBVIOUS
  <1> USE NamesAssumption, QuotaAssumption, TakenAssumption
          DEF IInv, TypeOK, Row, ClaimerAt, AdminAt, Writing, Goto, CommitBy
  <1>1. ASSUME NEW a \in Admins, WebAllocate(a) PROVE TypeOK'
    BY <1>1 DEF WebAllocate, Allocate, Free
  <1>2. ASSUME NEW a \in Admins, WebCreate(a) PROVE TypeOK'
    BY <1>2 DEF WebCreate, Finish, HeldIsLowest, Procs, Holding
  <1>3. ASSUME NEW a \in Admins, WebFails(a) PROVE TypeOK'
    BY <1>3 DEF WebFails, Finish
  <1>4. ASSUME NEW h \in Usable, DisablePeer(h) PROVE TypeOK'
    BY <1>4 DEF DisablePeer, Used
  <1>5. CASE OtherCommit
    BY <1>5 DEF OtherCommit
  <1>6. ASSUME NEW c \in Claimers, NEW u \in Users, UpsertTelegramUser(c, u)
        PROVE  TypeOK'
    BY <1>6 DEF UpsertTelegramUser
  <1>7. ASSUME NEW c \in Claimers, BotAllocate(c) PROVE TypeOK'
    BY <1>7 DEF BotAllocate, Allocate, Free
  <1>8. ASSUME NEW c \in Claimers, ReadQuota(c) PROVE TypeOK'
    BY <1>8 DEF ReadQuota
  <1>9. ASSUME NEW c \in Claimers, InsertPeer(c) PROVE TypeOK'
    BY <1>9 DEF InsertPeer
  <1>10. ASSUME NEW c \in Claimers, InsertClaim(c) \/ IncrementQuota(c)
         PROVE  TypeOK'
    BY <1>10 DEF InsertClaim, IncrementQuota
  <1>11. ASSUME NEW c \in Claimers, Commit(c) PROVE TypeOK'
    BY <1>11 DEF Commit, Written, Finish, HeldIsLowest, Procs, Holding, Knowledge
  <1>12. ASSUME NEW c \in Claimers, Abort(c) PROVE TypeOK'
    BY <1>12 DEF Abort, Finish
  <1>13. ASSUME NEW c \in Claimers, TellQuotaExceeded(c) PROVE TypeOK'
    BY <1>13 DEF TellQuotaExceeded, Finish
  <1>14. CASE UNCHANGED vars
    BY <1>14 DEF vars
  <1> QED
    BY <1>1, <1>2, <1>3, <1>4, <1>5, <1>6, <1>7, <1>8, <1>9, <1>10, <1>11,
       <1>12, <1>13, <1>14 DEF Next, Bot, Web

-----------------------------------------------------------------------------
\* The address a claimer commits, or an admin inserts, is free till then and
\* below all others that are.
LEMMA WrittenIsLowest ==
    ASSUME IInv, NEW p \in Procs,
           \/ p \in Admins /\ WebCreate(p)
           \/ p \in Claimers /\ Commit(p)
    PROVE  ip[p] \in Free /\ \A l \in Free : ip[p] <= l
  BY NamesAssumption
     DEF IInv, HeldIsLowest, Knowledge, Holding, Writing, Procs, Free, WebCreate, Commit

\* No address becomes free, and one in use stays in use.
LEMMA FreeShrinks ==
    ASSUME [Next]_vars
    PROVE  Free' \subseteq Free /\ Used \subseteq Used'
  <1>1. rows \subseteq rows'
    BY RowSteps DEF WebCreate, Commit, Written
  <1> QED
    BY <1>1 DEF Free, Used

\* Addresses held stay the lowest: rows are never deleted.
LEMMA HeldStep == IInv /\ [Next]_vars => HeldIsLowest'
  <1> SUFFICES ASSUME IInv, [Next]_vars,
                      NEW p \in Procs, pc'[p] \in Holding
               PROVE  ip'[p] \in Usable /\ \A l \in Free' : ip'[p] <= l
    BY DEF HeldIsLowest, Procs, Holding, Writing
  <1> USE NamesAssumption DEF IInv, TypeOK, Procs, Holding, Writing, Goto
  <1>1. CASE ip'[p] = ip[p] /\ pc[p] \in Holding
    BY <1>1, FreeShrinks DEF HeldIsLowest
  <1>2. CASE ip'[p] \in Allocate
    BY <1>2, FreeShrinks DEF Allocate, Free
  <1>3. ASSUME NEW a \in Admins, Web(a)
        PROVE  \/ ip'[p] = ip[p] /\ pc[p] \in Holding
               \/ ip'[p] \in Allocate
    BY <1>3 DEF Web, WebAllocate, WebCreate, WebFails, Finish, Allocate
  <1>4. ASSUME NEW c \in Claimers, Bot(c)
        PROVE  \/ ip'[p] = ip[p] /\ pc[p] \in Holding
               \/ ip'[p] \in Allocate
    <2>1. CASE BotAllocate(c)
      BY <2>1 DEF BotAllocate, Allocate
    <2>2. CASE \/ \E u \in Users : UpsertTelegramUser(c, u)
               \/ ReadQuota(c) \/ InsertPeer(c) \/ InsertClaim(c) \/ IncrementQuota(c)
      BY <2>2 DEF UpsertTelegramUser, ReadQuota, InsertPeer, InsertClaim, IncrementQuota
    <2>3. CASE Commit(c) \/ Abort(c) \/ TellQuotaExceeded(c)
      BY <2>3 DEF Commit, Abort, TellQuotaExceeded, Finish
    <2> QED
      BY <1>4, <2>1, <2>2, <2>3 DEF Bot
  <1>5. CASE (\E h \in Usable : DisablePeer(h)) \/ OtherCommit \/ UNCHANGED vars
    BY <1>5, <1>1 DEF DisablePeer, OtherCommit, vars
  <1> QED
    BY <1>1, <1>2, <1>3, <1>4, <1>5 DEF Next

\* A commit makes every other snapshot stale, and the lock is for one: so what
\* a claimer knows of the quota and of its address stays true.
LEMMA KnowledgeStep == IInv /\ [Next]_vars => Knowledge'
  <1> SUFFICES ASSUME IInv, [Next]_vars PROVE Knowledge'
    OBVIOUS
  <1> USE NamesAssumption, QuotaAssumption
          DEF IInv, TypeOK, ClaimerAt, AdminAt, Writing, Knowledge, Goto, CommitBy
  <1>1. ASSUME NEW a \in Admins, WebCreate(a) PROVE Knowledge'
    BY <1>1 DEF WebCreate, Finish
  <1>2. ASSUME NEW a \in Admins, WebAllocate(a) \/ WebFails(a) PROVE Knowledge'
    BY <1>2 DEF WebAllocate, WebFails, Finish, Used
  <1>3. CASE (\E h \in Usable : DisablePeer(h)) \/ OtherCommit
    BY <1>3 DEF DisablePeer, OtherCommit, Used
  <1>4. ASSUME NEW c \in Claimers, NEW u \in Users, UpsertTelegramUser(c, u)
        PROVE  Knowledge'
    BY <1>4 DEF UpsertTelegramUser, Used
  <1>5. ASSUME NEW c \in Claimers, BotAllocate(c) PROVE Knowledge'
    BY <1>5 DEF BotAllocate, Used
  <1>6. ASSUME NEW c \in Claimers, ReadQuota(c) PROVE Knowledge'
    BY <1>6 DEF ReadQuota, Used
  <1>7. ASSUME NEW c \in Claimers, InsertPeer(c) PROVE Knowledge'
    BY <1>7 DEF InsertPeer, Used
  <1>8. ASSUME NEW c \in Claimers, InsertClaim(c) \/ IncrementQuota(c)
        PROVE  Knowledge'
    BY <1>8 DEF InsertClaim, IncrementQuota, Used
  <1>9. ASSUME NEW c \in Claimers, Commit(c) PROVE Knowledge'
    BY <1>9 DEF Commit, Written, Finish
  <1>10. ASSUME NEW c \in Claimers, Abort(c) PROVE Knowledge'
    BY <1>10 DEF Abort, Finish, Used
  <1>11. ASSUME NEW c \in Claimers, TellQuotaExceeded(c) PROVE Knowledge'
    BY <1>11 DEF TellQuotaExceeded, Finish, Used
  <1>12. CASE UNCHANGED vars
    BY <1>12 DEF vars, Used
  <1> QED
    BY <1>1, <1>2, <1>3, <1>4, <1>5, <1>6, <1>7, <1>8, <1>9, <1>10, <1>11,
       <1>12 DEF Next, Bot, Web

-----------------------------------------------------------------------------
\* One row more, of a user: what that does to the rows each user has.
LEMMA OneMoreRow ==
    ASSUME NEW h, NEW u \in Users, h \notin Used, QuotasAreFinite,
           rows' = rows \union {[ip |-> h, by |-> u]}
    PROVE  /\ QuotasAreFinite'
           /\ Cardinality(OwnedBy(u))' = Cardinality(OwnedBy(u)) + 1
           /\ \A w \in Users \ {u} : OwnedBy(w)' = OwnedBy(w)
  <1> DEFINE row == [ip |-> h, by |-> u]
  <1>1. row \notin OwnedBy(u)
    BY DEF OwnedBy, Used
  <1>2. OwnedBy(u)' = OwnedBy(u) \union {row}
    BY DEF OwnedBy
  <1>3. \A w \in Users \ {u} : OwnedBy(w)' = OwnedBy(w)
    BY DEF OwnedBy
  <1>4. /\ IsFiniteSet(OwnedBy(u)')
        /\ Cardinality(OwnedBy(u)') = Cardinality(OwnedBy(u)) + 1
    <2>1. IsFiniteSet(OwnedBy(u))
      BY DEF QuotasAreFinite
    <2> HIDE DEF row
    <2> QED
      BY <1>1, <1>2, <2>1, FS_AddElement
  <1>5. QuotasAreFinite'
    BY <1>3, <1>4 DEF QuotasAreFinite
  <1> QED
    BY <1>3, <1>4, <1>5

\* Rows, claims and quotas agree after every step.
LEMMA RowsStep ==
    IInv /\ [Next]_vars => (QuotasAreFinite /\ QuotaIsExact /\ AddressesUnique)'
  <1> SUFFICES ASSUME IInv, [Next]_vars
               PROVE  (QuotasAreFinite /\ QuotaIsExact /\ AddressesUnique)'
    OBVIOUS
  <1> USE NamesAssumption
  <1>1. CASE UNCHANGED <<rows, claims, quotaUsed>>
    BY <1>1 DEF IInv, QuotasAreFinite, QuotaIsExact, AddressesUnique, OwnedBy
  <1>2. ASSUME NEW a \in Admins, WebCreate(a)
        PROVE  (QuotasAreFinite /\ QuotaIsExact /\ AddressesUnique)'
    <2>1. \A u \in Users : OwnedBy(u)' = OwnedBy(u)
      BY <1>2 DEF WebCreate, OwnedBy
    <2>2. QuotasAreFinite'
      BY <2>1 DEF IInv, QuotasAreFinite
    <2>3. QuotaIsExact'
      BY <1>2, <2>1 DEF IInv, QuotaIsExact, WebCreate
    <2>4. AddressesUnique'
      BY <1>2 DEF IInv, AddressesUnique, WebCreate, Used
    <2> QED
      BY <2>2, <2>3, <2>4
  <1>3. ASSUME NEW c \in Claimers, Commit(c)
        PROVE  (QuotasAreFinite /\ QuotaIsExact /\ AddressesUnique)'
    <2>1. ip[c] \notin Used /\ user[c] \in Users
      BY <1>3 DEF IInv, Knowledge, Commit, Writing
    <2> PICK h : h = ip[c]
      OBVIOUS
    <2> PICK u \in Users : u = user[c]
      BY <2>1
    <2> DEFINE row == [ip |-> h, by |-> u]
    <2>2. /\ rows' = rows \union {row} /\ claims' = claims \union {row}
          /\ quotaUsed' = [quotaUsed EXCEPT ![u] = @ + 1]
      BY <1>3 DEF Commit, Written
    <2>3. /\ QuotasAreFinite'
          /\ Cardinality(OwnedBy(u))' = Cardinality(OwnedBy(u)) + 1
          /\ \A w \in Users \ {u} : OwnedBy(w)' = OwnedBy(w)
      BY <2>1, <2>2, OneMoreRow DEF IInv
    <2>4. \A w \in Users : quotaUsed'[w] = Cardinality(OwnedBy(w))'
      BY <2>2, <2>3 DEF IInv, TypeOK, QuotaIsExact
    <2>5. claims' = {r \in rows' : r.by # NoUser}
      BY <2>2 DEF IInv, QuotaIsExact
    <2>6. AddressesUnique'
      BY <2>1, <2>2 DEF IInv, AddressesUnique, Used
    <2> QED
      BY <2>3, <2>4, <2>5, <2>6 DEF QuotaIsExact
  <1> QED
    BY <1>1, <1>2, <1>3, RowSteps

-----------------------------------------------------------------------------
\* The inductive invariant holds in every reachable state.
THEOREM SpecIInv == Spec => []IInv
  <1>1. IInv /\ [Next]_vars => IInv'
    BY TypeStep, HeldStep, KnowledgeStep, RowsStep DEF IInv
  <1> QED
    BY <1>1, InitIInv, PTL DEF Spec

\* Types: above all, no quota_used is ever above per_user_quota, and the write
\* lock is held by who is writing.
THEOREM SpecTypeOK == Spec => []TypeOK
  <1>1. IInv => TypeOK
    BY DEF IInv
  <1> QED
    BY <1>1, SpecIInv, PTL

\* quota_used, telegram_claims and the peers table say the same of each user
\* (ClaimPeerForTelegramUser's one transaction).
THEOREM SpecQuotaIsExact == Spec => []QuotaIsExact
  <1>1. IInv => QuotaIsExact
    BY DEF IInv
  <1> QED
    BY <1>1, SpecIInv, PTL

\* No number of bots gives a user more peers than the quota.
THEOREM SpecQuotaNeverExceeded == Spec => []QuotaNeverExceeded
  <1>1. IInv => QuotaNeverExceeded
    BY QuotaAssumption DEF IInv, TypeOK, QuotaIsExact, QuotaNeverExceeded
  <1> QED
    BY <1>1, SpecIInv, PTL

\* No two peers have one address, whoever chose theirs at the same time.
THEOREM SpecAddressesUnique == Spec => []AddressesUnique
  <1>1. IInv => AddressesUnique
    BY DEF IInv
  <1> QED
    BY <1>1, SpecIInv, PTL

\* No address is skipped, if none was to begin with.
THEOREM SpecPoolIsCompact == Spec => []PoolIsCompact
  <1>1. ASSUME Init PROVE PoolIsCompact
    <2>1. Used = Taken
      <3>1. \A r \in rows : r.ip \in Taken
        BY <1>1 DEF Init
      <3>2. ASSUME NEW h \in Taken PROVE h \in Used
        <4>1. [ip |-> h, by |-> NoUser] \in rows
          BY <1>1 DEF Init
        <4>2. [ip |-> h, by |-> NoUser].ip = h
          OBVIOUS
        <4> QED
          BY <4>1, <4>2 DEF Used
      <3> QED
        BY <3>1, <3>2 DEF Used
    <2> QED
      BY <2>1, CompactAssumption DEF PoolIsCompact, Free
  <1>2. ASSUME IInv, PoolIsCompact, [Next]_vars
        PROVE  PoolIsCompact'
    <2>1. CASE UNCHANGED rows
      BY <1>2, <2>1 DEF PoolIsCompact, Free, Used
    <2>2. ASSUME NEW p \in Procs, NEW u,
                 \/ p \in Admins /\ WebCreate(p)
                 \/ p \in Claimers /\ Commit(p),
                 rows' = rows \union {[ip |-> ip[p], by |-> u]}
          PROVE  PoolIsCompact'
      <3>1. ip[p] \in Free /\ \A l \in Free : ip[p] <= l
        BY <1>2, <2>2, WrittenIsLowest
      <3>2. \A h \in Used' : h \in Used \/ h = ip[p]
        BY <2>2 DEF Used
      <3>3. ip[p] \in Used'
        <4>1. [ip |-> ip[p], by |-> u].ip = ip[p]
          OBVIOUS
        <4> QED
          BY <2>2, <4>1 DEF Used
      <3>4. Free \subseteq Int
        BY SizeAssumption DEF Free, Usable, Addresses
      <3> SUFFICES ASSUME NEW l \in Free', NEW h \in Used' PROVE h < l
        BY DEF PoolIsCompact
      <3>5. l \in Free /\ l # ip[p]
        BY <1>2, <3>3, FreeShrinks DEF Free
      <3>6. CASE h \in Used
        BY <1>2, <3>5, <3>6 DEF PoolIsCompact
      <3>7. CASE h = ip[p]
        <4>1. h \in Int /\ l \in Int /\ h <= l
          BY <3>1, <3>4, <3>5, <3>7
        <4> QED
          BY <4>1, <3>5, <3>7
      <3> QED
        BY <3>2, <3>6, <3>7
    <2>3. ASSUME NEW a \in Admins, WebCreate(a) PROVE PoolIsCompact'
      BY <2>2, <2>3 DEF WebCreate, Procs
    <2>4. ASSUME NEW c \in Claimers, Commit(c) PROVE PoolIsCompact'
      BY <2>2, <2>4 DEF Commit, Written, Procs
    <2> QED
      BY <1>2, <2>1, <2>3, <2>4, RowSteps
  <1> QED
    BY <1>1, <1>2, SpecIInv, PTL DEF Spec

-----------------------------------------------------------------------------
\* The users who are being told no, as the refinement mapping has them.
LEMMA ToldUnchanged ==
    ASSUME \A d \in Claimers :
               /\ pc'[d] = "refused" <=> pc[d] = "refused"
               /\ pc[d] = "refused" => user'[d] = user[d]
    PROVE  {user[c] : c \in {d \in Claimers : pc[d] = "refused"}}' =
           {user[c] : c \in {d \in Claimers : pc[d] = "refused"}}
  OBVIOUS

\* Every step of Claims is a step of the ledger or leaves it alone: an insert
\* gives, a claim's commit grants, the read of the quota refuses.
LEMMA StepSimulates ==
    ASSUME IInv, [Next]_vars
    PROVE  [Ledger!Next]_(Ledger!vars)
  <1> DEFINE told == {user[c] : c \in {d \in Claimers : pc[d] = "refused"}}
  <1> USE NamesAssumption DEF IInv, TypeOK, ClaimerAt, AdminAt, Writing, Goto
  <1>1. Ledger!Free = Free
    BY DEF Ledger!Free, Free, Used
  <1>h. ASSUME NEW u \in Users PROVE Ledger!Has(u) = quotaUsed[u]
    <2>1. Ledger!Has(u) = Cardinality(OwnedBy(u))
      BY DEF OwnedBy, Ledger!Has, Cardinality, Ledger!Cardinality
    <2> QED
      BY <2>1 DEF QuotaIsExact
  <1>2. ASSUME NEW a \in Admins, WebCreate(a)
        PROVE  Ledger!Next
    <2>1. told' = told
      BY <1>2, ToldUnchanged DEF WebCreate, Finish
    <2>2. PICK h : h = ip[a]
      OBVIOUS
    <2>3. h \in Free /\ \A l \in Free : h <= l
      BY <1>2, <2>2, WrittenIsLowest DEF Procs
    <2>4. rows' = rows \union {[ip |-> h, by |-> NoUser]}
      BY <1>2, <2>2 DEF WebCreate
    <2>5. Ledger!Give(h, NoUser)
      BY <1>1, <2>1, <2>3, <2>4 DEF Ledger!Give
    <2> QED
      BY <1>1, <2>3, <2>5 DEF Ledger!Next
  <1>3. ASSUME NEW c \in Claimers, Commit(c)
        PROVE  Ledger!Next
    <2>1. told' = told
      BY <1>3, ToldUnchanged DEF Commit, Finish
    <2>2. PICK h : h = ip[c]
      OBVIOUS
    <2>3. PICK u \in Users : u = user[c]
      BY <1>3 DEF Knowledge, Commit
    <2>4. h \in Free /\ \A l \in Free : h <= l
      BY <1>3, <2>2, WrittenIsLowest DEF Procs
    <2>5. rows' = rows \union {[ip |-> h, by |-> u]}
      BY <1>3, <2>2, <2>3 DEF Commit, Written
    <2>6. Ledger!Has(u) < PerUserQuota
      BY <1>3, <1>h, <2>3 DEF Knowledge, Commit
    <2>7. Ledger!Claim(h, u)
      BY <1>1, <2>1, <2>4, <2>5, <2>6 DEF Ledger!Claim, Ledger!Give
    <2> QED
      BY <1>1, <2>4, <2>7 DEF Ledger!Next
  <1>4. ASSUME NEW c \in Claimers, ReadQuota(c)
        PROVE  Ledger!Next \/ UNCHANGED Ledger!vars
    <2>1. UNCHANGED rows
      BY <1>4 DEF ReadQuota
    <2>2. CASE quotaUsed[user[c]] < PerUserQuota
      <3>1. told' = told
        BY <1>4, <2>2, QuotaAssumption, ToldUnchanged DEF ReadQuota, Knowledge
      <3> QED
        BY <2>1, <3>1 DEF Ledger!vars
    <2>3. CASE quotaUsed[user[c]] >= PerUserQuota
      <3>1. PICK u \in Users : u = user[c]
        BY <1>4 DEF ReadQuota, Knowledge
      <3>2. told' = told \union {u}
        BY <1>4, <2>3, <3>1 DEF ReadQuota
      <3>3. Ledger!Has(u) >= PerUserQuota
        BY <1>h, <2>3, <3>1
      <3> QED
        BY <2>1, <3>2, <3>3 DEF Ledger!Refuse, Ledger!Next
    <2> QED
      BY <1>4, <2>2, <2>3, QuotaAssumption DEF ReadQuota, Knowledge
  <1>5. ASSUME NEW c \in Claimers, TellQuotaExceeded(c)
        PROVE  Ledger!Next \/ UNCHANGED Ledger!vars
    <2>1. UNCHANGED rows
      BY <1>5 DEF TellQuotaExceeded
    <2>2. PICK u \in Users : u = user[c]
      BY <1>5 DEF TellQuotaExceeded, Knowledge
    <2>3. told' = told \/ told' = told \ {u}
      BY <1>5, <2>2 DEF TellQuotaExceeded, Finish
    <2> QED
      BY <2>1, <2>3 DEF Ledger!vars, Ledger!Told, Ledger!Next
  <1>6. ASSUME UNCHANGED rows,
               \/ \E a \in Admins : WebAllocate(a) \/ WebFails(a)
               \/ \E h \in Usable : DisablePeer(h)
               \/ OtherCommit
               \/ \E c \in Claimers :
                     \/ \E u \in Users : UpsertTelegramUser(c, u)
                     \/ BotAllocate(c) \/ InsertPeer(c) \/ InsertClaim(c)
                     \/ IncrementQuota(c) \/ Abort(c)
               \/ UNCHANGED vars
        PROVE  UNCHANGED Ledger!vars
    <2>1. told' = told
      BY <1>6, ToldUnchanged
         DEF WebAllocate, WebFails, DisablePeer, OtherCommit, UpsertTelegramUser,
             BotAllocate, InsertPeer, InsertClaim, IncrementQuota, Abort, Finish, vars
    <2> QED
      BY <1>6, <2>1 DEF Ledger!vars
  <1> QED
    BY <1>2, <1>3, <1>4, <1>5, <1>6, RowSteps DEF Next, Bot, Web, WebCreate, Commit

\* Claims implements ClaimLedger: early reads, snapshots, lock and rollbacks
\* come to one grant or refusal at a time.
THEOREM SpecImplementsLedger == Spec => ImplementsLedger
  <1>1. Init => Ledger!Init
    BY DEF Init, Ledger!Init
  <1>2. IInv /\ [Next]_vars => [Ledger!Next]_(Ledger!vars)
    BY StepSimulates
  <1> QED
    BY <1>1, <1>2, SpecIInv, PTL DEF Spec, ImplementsLedger, Ledger!Spec

-----------------------------------------------------------------------------
\* A set of numbers with anything in it has a least element.
LEMMA LeastNumber ==
    ASSUME NEW S, S \subseteq Nat, S # {}
    PROVE  \E m \in S : \A n \in S : m <= n
  <1> DEFINE Less == {ss \in Nat \X Nat : ss[1] < ss[2]}
  <1>1. IsWellFoundedOn(Less, Nat)
    BY NatLessThanWellFounded, Zenon DEF OpToRel
  <1>2. PICK m \in S : \A n \in S : ~(<<n, m>> \in Less)
    BY <1>1, WFMin
  <1>3. \A n \in S : ~(n < m)
    BY <1>2
  <1> QED
    BY <1>3

\* Allocate answers with one address, a free one, as long as there is any; it
\* fails when every host is taken, and only then.
THEOREM AllocateFindsOne ==
    /\ Free # {} => \E h \in Free : Allocate = {h}
    /\ Free = {} => Allocate = {}
  <1>1. Free \subseteq Nat
    BY SizeAssumption DEF Free, Usable, Addresses
  <1>2. ASSUME Free # {} PROVE \E h \in Free : Allocate = {h}
    <2>1. PICK h \in Free : \A l \in Free : h <= l
      BY <1>1, <1>2, LeastNumber
    <2>2. \A g \in Allocate : g = h
      BY <1>1, <2>1 DEF Allocate
    <2> QED
      BY <2>1, <2>2 DEF Allocate
  <1> QED
    BY <1>2 DEF Allocate

=============================================================================
