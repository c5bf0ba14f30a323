----------------------------- MODULE BotProofs -----------------------------
(***************************************************************************)
(* Theorems about Bot, for any number of users and messages, any quota,    *)
(* any limit on an answer's updates and any number of restarts.            *)
(***************************************************************************)
EXTENDS Bot, FiniteSetTheorems, TLAPS

\* Update ids are handed out in order, and what has not arrived is nobody's.
ArrivedInOrder == \A m \in arrived, n \in Updates \ arrived : m < n

\* The batch is the front of the queue: what is above the offset and not in it
\* came after the poll, or did not fit into its answer.
BatchIsFront ==
    pc \in {"batch", "send"} =>
        \A m \in unconfirmed :
            m > offset => m \in batch \/ \A l \in batch : l < m

\* What this run has gone past is served: the next poll may acknowledge it.
PassedWereServed == \A m \in arrived : m <= offset => m \in served

\* A run grants a peer for an update only as it goes past it.
RunGrantsOnce ==
    \A m \in Updates :
        pc # "down" /\ m > offset /\ ~(pc = "send" /\ Current(m)) =>
            granted[m] <= restarts

\* A document being sent answers somebody's /start.
SentToSomebody == pc = "send" => \E m \in batch : Current(m) /\ from[m] # Nobody

\* The part of the invariant that is about updates, not about files.
UpdatesInv ==
    /\ ArrivedInOrder
    /\ BatchIsFront
    /\ PassedWereServed
    /\ RunGrantsOnce
    /\ SentToSomebody
    /\ AcknowledgedWereServed
    /\ DuplicateOnlyAfterRestart

IInv == TypeOK /\ UpdatesInv /\ ChargedMeansDelivered

\* The initial state satisfies the inductive invariant.
LEMMA InitIInv == Init => IInv
  <1> SUFFICES ASSUME Init PROVE IInv
    OBVIOUS
  <1> USE UpdatesAssumption, NobodyAssumption, BoundsAssumption DEF Init
  <1>1. TypeOK
    BY DEF TypeOK
  <1>2. UpdatesInv
    BY DEF UpdatesInv, ArrivedInOrder, BatchIsFront, PassedWereServed, RunGrantsOnce,
           SentToSomebody, AcknowledgedWereServed, DuplicateOnlyAfterRestart
  <1>3. ChargedMeansDelivered
    BY DEF ChargedMeansDelivered, BeingSent
  <1> QED
    BY <1>1, <1>2, <1>3 DEF IInv

\* The current update is the only one.
LEMMA OneCurrent ==
    ASSUME TypeOK, NEW m, Current(m), NEW n, Current(n) PROVE m = n
  BY UpdatesAssumption DEF TypeOK, Current

\* A message arrives above everything that was there, wherever the bot is.
LEMMA ArriveStep ==
    ASSUME IInv, NEW m \in Updates, NEW u \in Users \union {Nobody}, Arrive(m, u)
    PROVE  IInv'
  <1> USE UpdatesAssumption DEF IInv, Arrive, tg, hist
  <1>1. m \notin arrived /\ \A n \in arrived : n < m
    BY DEF UpdatesInv, ArrivedInOrder
  <1>2. TypeOK'
    BY DEF TypeOK
  <1>3. \A n : Current(n) <=> Current(n)'
    BY DEF Current
  <1>4. \A n \in batch : n \in arrived /\ n # m /\ from'[n] = from[n]
    BY <1>1 DEF TypeOK
  <1>5. UpdatesInv'
    <2> USE DEF UpdatesInv
    <2>1. ArrivedInOrder'
      BY <1>1 DEF ArrivedInOrder
    <2>2. BatchIsFront'
      BY <1>1, <1>4 DEF BatchIsFront
    <2>3. PassedWereServed'
      <3>1. offset < m
        BY <1>1 DEF TypeOK
      <3> QED
        BY <3>1 DEF PassedWereServed, TypeOK
    <2>4. RunGrantsOnce'
      BY <1>3 DEF RunGrantsOnce
    <2>5. SentToSomebody'
      BY <1>3, <1>4 DEF SentToSomebody
    <2>6. AcknowledgedWereServed' /\ DuplicateOnlyAfterRestart'
      BY DEF AcknowledgedWereServed, DuplicateOnlyAfterRestart
    <2> QED
      BY <2>1, <2>2, <2>3, <2>4, <2>5, <2>6
  <1>6. ChargedMeansDelivered'
    <2>1. \A v \in Users : BeingSent(v)' = BeingSent(v)
      BY <1>3, <1>4 DEF BeingSent
    <2> QED
      BY <2>1 DEF ChargedMeansDelivered
  <1> QED
    BY <1>2, <1>5, <1>6

\* What does not fit into the answer is above what does.
LEMMA FrontIsBelow ==
    ASSUME NEW queue \in SUBSET Nat, NEW m \in queue, m \notin Front(queue),
           NEW l \in Front(queue)
    PROVE  l < m
  <1> DEFINE upToL == {x \in queue : x <= l}
             upToM == {x \in queue : x <= m}
  <1>1. l \in Nat /\ m \in Nat
    BY DEF Front
  <1>2. SUFFICES ASSUME m <= l PROVE FALSE
    BY <1>1
  <1>3. IsFiniteSet(upToL)
    <2>1. IsFiniteSet(0..l)
      BY <1>1, FS_Interval
    <2>2. upToL \subseteq 0..l
      <3> SUFFICES ASSUME NEW x \in queue, x <= l PROVE x \in 0..l
        OBVIOUS
      <3> QED
        BY <1>1
    <2> QED
      BY <2>1, <2>2, FS_Subset
  <1>4. upToM \subseteq upToL
    <2> SUFFICES ASSUME NEW x \in queue, x <= m PROVE x <= l
      OBVIOUS
    <2> QED
      BY <1>1, <1>2
  <1>5. IsFiniteSet(upToM) /\ Cardinality(upToM) <= Cardinality(upToL)
    BY <1>3, <1>4, FS_Subset
  <1>6. Cardinality(upToL) \in Nat /\ Cardinality(upToM) \in Nat
    BY <1>3, <1>5, FS_CardinalityType
  <1>7. Cardinality(upToL) <= BatchLimit /\ ~(Cardinality(upToM) <= BatchLimit)
    BY DEF Front
  <1> QED
    BY <1>5, <1>6, <1>7, BoundsAssumption

\* What is acknowledged is below the offset, and so served.
LEMMA PollStep == IInv /\ (Poll \/ PollFails \/ PollTimesOut \/ EndOfBatch) => IInv'
  <1> SUFFICES ASSUME IInv, Poll \/ PollFails \/ PollTimesOut \/ EndOfBatch
               PROVE  IInv'
    OBVIOUS
  <1> USE UpdatesAssumption DEF IInv, tg, hist
  <1>1. /\ UNCHANGED <<arrived, from, quotaUsed, offset, confs, served, granted,
                       cutOff, restarts>>
        /\ pc \in {"poll", "batch"} /\ pc' \in {"poll", "batch", "stopped"}
        /\ unconfirmed' = unconfirmed \/ unconfirmed' = {m \in unconfirmed : m > offset}
    BY DEF Poll, PollFails, PollTimesOut, EndOfBatch, Acknowledge
  <1>2. /\ batch' \subseteq unconfirmed' /\ \A m \in batch' : m > offset
        /\ batch' # {} => pc' = "batch"
        /\ pc' = "batch" => \A m \in unconfirmed' \ batch', l \in batch' : l < m
    <2>1. CASE Poll
      <3>1. batch' = Front(unconfirmed') /\ pc' = "batch"
            /\ unconfirmed' = {m \in unconfirmed : m > offset}
        BY <2>1 DEF Poll, Acknowledge
      <3>2. unconfirmed' \in SUBSET Nat
        BY <3>1 DEF TypeOK
      <3>3. \A m \in unconfirmed' \ batch', l \in batch' : l < m
        BY <3>1, <3>2, FrontIsBelow
      <3> QED
        BY <3>1, <3>3 DEF Front
    <2>2. CASE PollFails \/ PollTimesOut
      BY <2>2 DEF PollFails, PollTimesOut, TypeOK
    <2>3. CASE EndOfBatch
      BY <2>3 DEF EndOfBatch
    <2> QED
      BY <2>1, <2>2, <2>3
  <1>3. TypeOK' /\ UpdatesInv'
    <2>1. TypeOK'
      BY <1>1, <1>2 DEF TypeOK
    <2>2. ArrivedInOrder' /\ PassedWereServed' /\ DuplicateOnlyAfterRestart'
      BY <1>1 DEF UpdatesInv, ArrivedInOrder, PassedWereServed, DuplicateOnlyAfterRestart
    <2>3. BatchIsFront' /\ SentToSomebody'
      BY <1>1, <1>2 DEF BatchIsFront, SentToSomebody
    <2>4. RunGrantsOnce'
      BY <1>1 DEF UpdatesInv, RunGrantsOnce
    <2>5. AcknowledgedWereServed'
      <3> SUFFICES ASSUME NEW m \in arrived, m \notin unconfirmed' PROVE m \in served
        BY <1>1 DEF AcknowledgedWereServed
      <3>1. CASE m \notin unconfirmed
        BY <3>1 DEF UpdatesInv, AcknowledgedWereServed
      <3>2. CASE m <= offset
        BY <3>2 DEF UpdatesInv, PassedWereServed
      <3> QED
        BY <1>1, <3>1, <3>2 DEF TypeOK
    <2> QED
      BY <2>1, <2>2, <2>3, <2>4, <2>5 DEF UpdatesInv
  <1>4. ChargedMeansDelivered'
    BY <1>1 DEF ChargedMeansDelivered, BeingSent
  <1> QED
    BY <1>3, <1>4

\* The bot goes past an update, in whatever way it was served: the ones below
\* it are served already.
LEMMA PassStep ==
    ASSUME TypeOK, UpdatesInv, NEW m \in Updates, NEW ok, Current(m), ServedAs(m, ok),
           pc \in {"batch", "send"},
           UNCHANGED <<arrived, from, unconfirmed, granted, restarts>>
    PROVE  UpdatesInv'
  <1> USE UpdatesAssumption DEF UpdatesInv, ServedAs
  <1>1. m \in batch /\ m \in unconfirmed /\ m > offset /\ offset \in Nat
        /\ unconfirmed \subseteq arrived /\ arrived \subseteq Updates
        /\ batch \subseteq unconfirmed
    BY DEF TypeOK, Current
  <1>2. ArrivedInOrder'
    BY DEF ArrivedInOrder
  <1>3. BatchIsFront'
    BY <1>1 DEF BatchIsFront, Current
  <1>4. PassedWereServed'
    <2> SUFFICES ASSUME NEW l \in arrived, l <= m, l # m, l > offset PROVE l \in served
      BY <1>1 DEF PassedWereServed
    <2>1. l \notin unconfirmed
      BY <1>1 DEF BatchIsFront, Current
    <2> QED
      BY <2>1 DEF AcknowledgedWereServed
  <1>5. RunGrantsOnce'
    <2> SUFFICES ASSUME NEW n \in Updates, n > m PROVE granted[n] <= restarts
      BY DEF RunGrantsOnce
    <2>1. n > offset /\ ~Current(n)
      BY <1>1, OneCurrent
    <2> QED
      BY <2>1 DEF RunGrantsOnce
  <1>6. SentToSomebody' /\ AcknowledgedWereServed' /\ DuplicateOnlyAfterRestart'
    BY DEF SentToSomebody, AcknowledgedWereServed, DuplicateOnlyAfterRestart
  <1> QED
    BY <1>2, <1>3, <1>4, <1>5, <1>6

\* A claim grants a peer for an update this run had granted none.
LEMMA ClaimStep == ASSUME IInv, NEW m \in Updates, Claim(m) PROVE IInv'
  <1> USE UpdatesAssumption, BoundsAssumption DEF IInv, Claim, tg
  <1>1. from[m] \in Users /\ quotaUsed[from[m]] \in Nat /\ m \in batch /\ m > offset
    BY DEF TypeOK, Current
  <1>2. TypeOK'
    BY <1>1 DEF TypeOK
  <1>3. \A n : Current(n) <=> Current(n)'
    BY DEF Current
  <1>4. UpdatesInv'
    <2> USE DEF UpdatesInv
    <2>1. granted[m] <= restarts
      BY <1>1 DEF RunGrantsOnce
    <2>2. RunGrantsOnce'
      BY <1>3 DEF RunGrantsOnce, TypeOK
    <2>3. DuplicateOnlyAfterRestart'
      BY <2>1 DEF DuplicateOnlyAfterRestart, TypeOK
    <2>4. SentToSomebody'
      BY <1>1, <1>3 DEF SentToSomebody
    <2>5. ArrivedInOrder' /\ BatchIsFront' /\ PassedWereServed' /\ AcknowledgedWereServed'
      BY DEF ArrivedInOrder, BatchIsFront, PassedWereServed, AcknowledgedWereServed
    <2> QED
      BY <2>2, <2>3, <2>4, <2>5
  <1>5. ChargedMeansDelivered'
    <2> SUFFICES ASSUME NEW u \in Users
                 PROVE  /\ confs[u] + BeingSent(u)' <= quotaUsed'[u]
                        /\ u \in cutOff \/ confs[u] + BeingSent(u)' = quotaUsed'[u]
      BY DEF ChargedMeansDelivered
    <2>1. BeingSent(u) = 0
      BY DEF BeingSent
    <2>2. BeingSent(u)' = IF u = from[m] THEN 1 ELSE 0
      BY <1>1, <1>3, OneCurrent DEF BeingSent
    <2>3. quotaUsed'[u] = quotaUsed[u] + IF u = from[m] THEN 1 ELSE 0
      BY <1>1 DEF TypeOK
    <2>4. quotaUsed[u] \in Nat /\ confs[u] \in Nat
      BY DEF TypeOK
    <2>5. /\ confs[u] <= quotaUsed[u]
          /\ u \in cutOff \/ confs[u] = quotaUsed[u]
      BY <2>1, <2>4 DEF ChargedMeansDelivered
    <2> QED
      BY <2>2, <2>3, <2>4, <2>5
  <1> QED
    BY <1>2, <1>4, <1>5

\* What is refused, ignored or fails costs nothing and delivers nothing.
LEMMA NoPeerStep ==
    ASSUME IInv, NEW m \in Updates, Ignore(m) \/ Refuse(m) \/ Fail(m) PROVE IInv'
  <1> USE DEF IInv
  <1>1. /\ pc = "batch" /\ Current(m) /\ \E ok \in BOOLEAN : ServedAs(m, ok)
        /\ UNCHANGED <<arrived, from, unconfirmed, quotaUsed, confs, granted, cutOff,
                       restarts>>
    BY DEF Ignore, Refuse, Fail, tg
  <1>2. TypeOK'
    BY <1>1, UpdatesAssumption DEF TypeOK, ServedAs, Current
  <1>3. UpdatesInv'
    BY <1>1, PassStep
  <1>4. ChargedMeansDelivered'
    BY <1>1 DEF ServedAs, ChargedMeansDelivered, BeingSent
  <1> QED
    BY <1>2, <1>3, <1>4

\* Whose file is on its way, and what it does to what users have, whether the
\* attempt ends with an answer, an error or the daemon.
LEMMA SentStep ==
    ASSUME TypeOK, ChargedMeansDelivered, pc = "send", pc' # "send",
           NEW m \in batch, Current(m), from[m] \in Users,
           UNCHANGED quotaUsed,
           \/ Delivered(m) /\ UNCHANGED cutOff
           \/ (Delivered(m) \/ UNCHANGED confs) /\ cutOff' = cutOff \union {from[m]}
    PROVE  ChargedMeansDelivered' /\ confs' \in [Users -> 0..PerUserQuota]
  <1>1. ASSUME NEW u \in Users
        PROVE  /\ confs'[u] + BeingSent(u)' <= quotaUsed'[u]
               /\ u \in cutOff' \/ confs'[u] + BeingSent(u)' = quotaUsed'[u]
               /\ confs'[u] \in 0..PerUserQuota
    <2>1. BeingSent(u) = IF u = from[m] THEN 1 ELSE 0
      BY OneCurrent DEF BeingSent
    <2>2. BeingSent(u)' = 0
      BY DEF BeingSent
    <2>3. \/ confs'[u] = confs[u] + IF u = from[m] THEN 1 ELSE 0
          \/ confs'[u] = confs[u] /\ (u = from[m] => u \in cutOff')
      BY DEF Delivered, TypeOK
    <2>4. cutOff \subseteq cutOff'
      OBVIOUS
    <2>5. quotaUsed[u] \in 0..PerUserQuota /\ confs[u] \in Nat
      BY DEF TypeOK
    <2>6. /\ confs[u] + BeingSent(u) <= quotaUsed[u]
          /\ u \in cutOff \/ confs[u] + BeingSent(u) = quotaUsed[u]
      BY DEF ChargedMeansDelivered
    <2> QED
      BY <2>1, <2>2, <2>3, <2>4, <2>5, <2>6, BoundsAssumption
  <1>2. confs' = [u \in Users |-> confs'[u]]
    BY DEF Delivered, TypeOK
  <1> QED
    BY <1>1, <1>2 DEF ChargedMeansDelivered

\* So does the file that is sent, and the one that is not.
LEMMA SendStep == ASSUME IInv, NEW m \in Updates, Send(m) PROVE IInv'
  <1> USE DEF IInv
  <1>1. /\ pc = "send" /\ Current(m) /\ \E ok \in BOOLEAN : ServedAs(m, ok)
        /\ UNCHANGED <<arrived, from, unconfirmed, quotaUsed, granted, restarts>>
        /\ \/ Delivered(m) /\ UNCHANGED cutOff
           \/ (Delivered(m) \/ UNCHANGED confs) /\ cutOff' = cutOff \union {from[m]}
    BY DEF Send, tg
  <1>2. m \in batch /\ from[m] \in Users
    BY <1>1, OneCurrent DEF UpdatesInv, SentToSomebody, TypeOK, Current
  <1>3. UpdatesInv'
    BY <1>1, PassStep
  <1>4. ChargedMeansDelivered' /\ confs' \in [Users -> 0..PerUserQuota]
    BY <1>1, <1>2, SentStep DEF ServedAs
  <1>5. TypeOK'
    BY <1>1, <1>2, <1>4, UpdatesAssumption DEF TypeOK, ServedAs, Current
  <1> QED
    BY <1>3, <1>4, <1>5

\* The daemon's end forgets the offset, and what it had granted above it is
\* one for this run.
LEMMA StopStep == IInv /\ Stop => IInv'
  <1> SUFFICES ASSUME IInv, Stop PROVE IInv'
    OBVIOUS
  <1> USE UpdatesAssumption DEF IInv, Stop, tg
  <1>1. UpdatesInv'
    BY DEF UpdatesInv, TypeOK, ArrivedInOrder, BatchIsFront, PassedWereServed,
           RunGrantsOnce, SentToSomebody, AcknowledgedWereServed,
           DuplicateOnlyAfterRestart
  <1>2. ChargedMeansDelivered' /\ confs' \in [Users -> 0..PerUserQuota]
        /\ cutOff' \subseteq Users
    <2>1. CASE pc # "send"
      BY <2>1 DEF ChargedMeansDelivered, BeingSent, TypeOK
    <2>2. CASE pc = "send"
      <3>1. PICK m \in batch : /\ Current(m)
                               /\ Delivered(m) \/ UNCHANGED confs
                               /\ cutOff' = cutOff \union {from[m]}
        BY <2>2
      <3>2. from[m] \in Users
        BY <2>2, <3>1, OneCurrent DEF UpdatesInv, SentToSomebody, TypeOK
      <3> QED
        BY <2>2, <3>1, <3>2, SentStep DEF TypeOK
    <2> QED
      BY <2>1, <2>2
  <1>3. TypeOK'
    BY <1>2 DEF TypeOK
  <1> QED
    BY <1>1, <1>2, <1>3

\* A new run may grant each update once more.
LEMMA StartStep == IInv /\ Start => IInv'
  <1> SUFFICES ASSUME IInv, Start PROVE IInv'
    OBVIOUS
  <1> USE UpdatesAssumption, BoundsAssumption DEF IInv, Start, tg
  <1>1. TypeOK'
    BY DEF TypeOK
  <1>2. UpdatesInv'
    BY DEF UpdatesInv, TypeOK, ArrivedInOrder, BatchIsFront, PassedWereServed,
           RunGrantsOnce, SentToSomebody, AcknowledgedWereServed,
           DuplicateOnlyAfterRestart
  <1>3. ChargedMeansDelivered'
    BY DEF ChargedMeansDelivered, BeingSent
  <1> QED
    BY <1>1, <1>2, <1>3

\* Nothing happens.
LEMMA StutterStep == IInv /\ UNCHANGED vars => IInv'
  BY DEF vars, IInv, UpdatesInv, TypeOK, ArrivedInOrder, BatchIsFront,
         PassedWereServed, RunGrantsOnce, SentToSomebody, AcknowledgedWereServed,
         DuplicateOnlyAfterRestart, ChargedMeansDelivered, BeingSent, Current

-----------------------------------------------------------------------------
\* The inductive invariant holds in every reachable state.
THEOREM SpecIInv == Spec => []IInv
  <1>1. IInv /\ [Next]_vars => IInv'
    <2> SUFFICES ASSUME IInv, [Next]_vars PROVE IInv'
      OBVIOUS
    <2>1. ASSUME NEW m \in Updates, Serve(m) PROVE IInv'
      BY <2>1, NoPeerStep, ClaimStep, SendStep DEF Serve
    <2>2. CASE Loop
      BY <2>1, <2>2, PollStep DEF Loop
    <2> QED
      BY <2>2, ArriveStep, StopStep, StartStep, StutterStep DEF Next
  <1> QED
    BY <1>1, InitIInv, PTL DEF Spec

\* Types: the batch is of unconfirmed updates above the offset, and nobody has
\* more files than the quota.
THEOREM SpecTypeOK == Spec => []TypeOK
  <1>1. IInv => TypeOK
    BY DEF IInv
  <1> QED
    BY <1>1, SpecIInv, PTL

\* No update is acknowledged that no run has served (Run's offset).
THEOREM SpecAcknowledgedWereServed == Spec => []AcknowledgedWereServed
  <1>1. IInv => AcknowledgedWereServed
    BY DEF IInv, UpdatesInv
  <1> QED
    BY <1>1, SpecIInv, PTL

\* An update grants at most one peer per run of the daemon.
THEOREM SpecDuplicateOnlyAfterRestart == Spec => []DuplicateOnlyAfterRestart
  <1>1. IInv => DuplicateOnlyAfterRestart
    BY DEF IInv, UpdatesInv
  <1> QED
    BY <1>1, SpecIInv, PTL

\* A user is charged for the files they have, but for the ones that were cut
\* off (handleUpdate, which sends after the claim).
THEOREM SpecChargedMeansDelivered == Spec => []ChargedMeansDelivered
  <1>1. IInv => ChargedMeansDelivered
    BY DEF IInv
  <1> QED
    BY <1>1, SpecIInv, PTL

=============================================================================
