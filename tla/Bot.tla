-------------------------------- MODULE Bot --------------------------------
(***************************************************************************)
(* The Telegram bot's long-poll loop (internal/telegram/bot.go): updates,  *)
(* their acknowledgement, and what a user gets for a /start.               *)
(*                                                                         *)
(* Telegram keeps an update until a getUpdates call with a higher offset   *)
(* acknowledges it.  The bot's offset lives in memory only, so whatever it *)
(* served since its last poll is served again after a restart.  A claim    *)
(* commits (see Claims) before the .conf is sent.                          *)
(***************************************************************************)
EXTENDS Integers, FiniteSets

CONSTANTS
    Updates,    \* update ids; bounds the number of messages
    Users,      \* Telegram users
    Nobody,     \* sender of what the bot ignores: another chat, another text
    PerUserQuota,
    BatchLimit, \* updates one getUpdates returns at most (Telegram's is 100)
    MaxRestarts \* bounds the number of times the daemon is started again

ASSUME UpdatesAssumption == Updates \subseteq Nat \ {0}
ASSUME NobodyAssumption == Nobody \notin Users
ASSUME BoundsAssumption ==
    PerUserQuota \in Nat /\ BatchLimit \in Nat \ {0} /\ MaxRestarts \in Nat

VARIABLES
    \* Telegram.
    arrived,    \* updates there have been
    from,       \* whose /start an update is
    unconfirmed, \* updates not acknowledged yet
    \* The database.
    quotaUsed,
    \* The bot.
    pc,         \* "poll", "batch", "send", "stopped" (Run has returned), "down"
    offset,     \* the last update served, in this run
    batch,      \* updates of the last poll still to be served
    \* What users have.
    confs,      \* .conf files each user received
    \* History variables.
    served,     \* updates some run finished with
    granted,    \* peers claimed for each update
    cutOff,     \* users with a claim whose .conf may not have got through
    restarts

tg   == <<arrived, from>>
hist == <<served, granted, cutOff, restarts>>
vars == <<arrived, from, unconfirmed, quotaUsed, pc, offset, batch, confs,
          served, granted, cutOff, restarts>>

TypeOK ==
    /\ arrived \subseteq Updates
    /\ from \in [Updates -> Users \union {Nobody}]
    /\ unconfirmed \subseteq arrived
    /\ quotaUsed \in [Users -> 0..PerUserQuota]
    /\ pc \in {"poll", "batch", "send", "stopped", "down"}
    /\ offset \in arrived \union {0}
    /\ batch \subseteq {m \in unconfirmed : m > offset}
    /\ pc \in {"poll", "down"} => batch = {}
    /\ confs \in [Users -> 0..PerUserQuota]
    /\ served \subseteq arrived
    /\ granted \in [Updates -> Nat]
    /\ cutOff \subseteq Users
    /\ restarts \in 0..MaxRestarts

Init ==
    /\ arrived = {} /\ from = [m \in Updates |-> Nobody] /\ unconfirmed = {}
    /\ quotaUsed = [u \in Users |-> 0]
    /\ pc = "poll" /\ offset = 0 /\ batch = {}
    /\ confs = [u \in Users |-> 0]
    /\ served = {} /\ granted = [m \in Updates |-> 0] /\ cutOff = {}
    /\ restarts = 0

-----------------------------------------------------------------------------
\* A message in some chat of the bot's.
Arrive(m, u) ==
    /\ m \notin arrived /\ \A l \in Updates \ arrived : m <= l
    /\ arrived' = arrived \union {m}
    /\ unconfirmed' = unconfirmed \union {m}
    /\ from' = [from EXCEPT ![m] = u]
    /\ UNCHANGED <<quotaUsed, pc, offset, batch, confs, hist>>

\* Mutated form of Acknowledge: the poll asks from offset, not offset + 1.
AcknowledgeOneLess == unconfirmed' = {m \in unconfirmed : m >= offset}

\* What getUpdates(offset + 1) does on Telegram's side.
Acknowledge == unconfirmed' = {m \in unconfirmed : m > offset}

\* What it answers with: the lowest updates, as many as one answer holds.
Front(queue) ==
    {m \in queue : Cardinality({l \in queue : l <= m}) <= BatchLimit}

Poll ==
    /\ pc = "poll"
    /\ Acknowledge
    /\ batch' = Front(unconfirmed')
    /\ pc' = "batch"
    /\ UNCHANGED <<tg, quotaUsed, offset, confs, hist>>

\* The answer is lost; the loop sleeps and polls again.  (A call that fails on
\* its way there changes nothing.)
PollFails ==
    /\ pc = "poll"
    /\ Acknowledge
    /\ UNCHANGED <<tg, quotaUsed, pc, offset, batch, confs, hist>>

\* The call runs into the HTTP client's timeout, or the dial into the
\* transport's: net/http and net report those as context.DeadlineExceeded,
\* on which Run returns as if it had been cancelled.
PollTimesOut ==
    /\ pc = "poll"
    /\ \/ Acknowledge
       \/ UNCHANGED unconfirmed
    /\ pc' = "stopped"
    /\ UNCHANGED <<tg, quotaUsed, offset, batch, confs, hist>>

Current(m) == m \in batch /\ \A l \in batch : m <= l

\* Mutated form of ServedAs: an error ends the batch.
ServedAsBatch(m, ok) ==
    /\ batch' = IF ok THEN batch \ {m} ELSE {}
    /\ offset' = CHOOSE n \in {m} \union (IF ok THEN {} ELSE batch) :
                     \A l \in {m} \union (IF ok THEN {} ELSE batch) : l <= n
    /\ served' = served \union {m}
    /\ pc' = "batch"

\* Mutated form of ServedAs: an update that failed is left to be tried again.
ServedAsRetried(m, ok) ==
    /\ batch' = IF ok THEN batch \ {m} ELSE {}
    /\ offset' = IF ok THEN m ELSE offset
    /\ served' = served \union {m}
    /\ pc' = "batch"

\* handleUpdate returned: an error is logged, and the offset moves on.
ServedAs(m, ok) ==
    /\ batch' = batch \ {m}
    /\ offset' = m
    /\ served' = served \union {m}
    /\ pc' = "batch"

Ignore(m) ==
    /\ pc = "batch" /\ Current(m) /\ from[m] = Nobody
    /\ ServedAs(m, TRUE)
    /\ UNCHANGED <<tg, unconfirmed, quotaUsed, confs, granted, cutOff, restarts>>

\* ClaimPeerForTelegramUser commits.
Claim(m) ==
    /\ pc = "batch" /\ Current(m) /\ from[m] # Nobody
    /\ quotaUsed[from[m]] < PerUserQuota
    /\ quotaUsed' = [quotaUsed EXCEPT ![from[m]] = @ + 1]
    /\ granted' = [granted EXCEPT ![m] = @ + 1]
    /\ pc' = "send"
    /\ UNCHANGED <<tg, unconfirmed, offset, batch, confs, served, cutOff, restarts>>

\* ErrQuotaExceeded: the user is told, if the message gets through.
Refuse(m) ==
    /\ pc = "batch" /\ Current(m) /\ from[m] # Nobody
    /\ quotaUsed[from[m]] >= PerUserQuota
    /\ ServedAs(m, TRUE)
    /\ UNCHANGED <<tg, unconfirmed, quotaUsed, confs, granted, cutOff, restarts>>

\* Mutated form of Fail: the quota is counted outside the transaction.
FailCharged(m) ==
    /\ pc = "batch" /\ Current(m) /\ from[m] # Nobody
    /\ quotaUsed[from[m]] < PerUserQuota
    /\ quotaUsed' = [quotaUsed EXCEPT ![from[m]] = @ + 1]
    /\ ServedAs(m, FALSE)
    /\ UNCHANGED <<tg, unconfirmed, confs, granted, cutOff, restarts>>

\* The upsert, the key pair, the address or the claim fails: nothing is
\* written, and the /start is not tried again.
Fail(m) ==
    /\ pc = "batch" /\ Current(m) /\ from[m] # Nobody
    /\ ServedAs(m, FALSE)
    /\ UNCHANGED <<tg, unconfirmed, quotaUsed, confs, granted, cutOff, restarts>>

Delivered(m) == confs' = [confs EXCEPT ![from[m]] = @ + 1]

\* SendDocument after the claim; if it (or the read-back before it) fails the
\* peer and its place in the quota stay.  The user may have the file all the
\* same: the error can be the answer's.
Send(m) ==
    /\ pc = "send" /\ Current(m)
    /\ \/ /\ Delivered(m)
          /\ ServedAs(m, TRUE)
          /\ UNCHANGED cutOff
       \/ /\ Delivered(m) \/ UNCHANGED confs
          /\ ServedAs(m, FALSE)
          /\ cutOff' = cutOff \union {from[m]}
    /\ UNCHANGED <<tg, unconfirmed, quotaUsed, granted, restarts>>

EndOfBatch ==
    /\ pc = "batch" /\ batch = {}
    /\ pc' = "poll"
    /\ UNCHANGED <<tg, unconfirmed, quotaUsed, offset, batch, confs, hist>>

\* The daemon dies or is stopped, at any point: between the claim and the
\* file, or with the file on its way.
Stop ==
    /\ pc # "down"
    /\ pc' = "down"
    /\ offset' = 0 /\ batch' = {}
    /\ \/ pc # "send" /\ UNCHANGED <<confs, cutOff>>
       \/ \E m \in batch :
             /\ pc = "send" /\ Current(m)
             /\ Delivered(m) \/ UNCHANGED confs
             /\ cutOff' = cutOff \union {from[m]}
    /\ UNCHANGED <<tg, unconfirmed, quotaUsed, served, granted, restarts>>

Start ==
    /\ pc = "down"
    /\ restarts < MaxRestarts
    /\ restarts' = restarts + 1
    /\ pc' = "poll"
    /\ UNCHANGED <<tg, unconfirmed, quotaUsed, offset, batch, confs, served, granted, cutOff>>

-----------------------------------------------------------------------------
Serve(m) == Ignore(m) \/ Claim(m) \/ Refuse(m) \/ Fail(m) \/ Send(m)

Loop == Poll \/ PollFails \/ PollTimesOut \/ EndOfBatch \/ \E m \in Updates : Serve(m)

Next ==
    \/ \E m \in Updates, u \in Users \union {Nobody} : Arrive(m, u)
    \/ Loop
    \/ Stop \/ Start

Spec == Init /\ [][Next]_vars

\* The goroutine keeps running, polls do not fail for ever, and a daemon that
\* stopped is started again (as often as the bound lets it).
Fairness ==
    /\ SF_vars(Poll)
    /\ WF_vars(EndOfBatch \/ \E m \in Updates : Serve(m))
    /\ WF_vars(Start)

FairSpec == Spec /\ Fairness

-----------------------------------------------------------------------------
\* No update is acknowledged to Telegram that no run of the bot has served.
AcknowledgedWereServed == arrived \ unconfirmed \subseteq served

\* Within one run an update grants at most one peer: more than one takes a
\* restart between the claim and the poll that acknowledges the update.
DuplicateOnlyAfterRestart == \A m \in Updates : granted[m] <= 1 + restarts

BeingSent(u) == IF pc = "send" /\ \E m \in batch : Current(m) /\ from[m] = u
                THEN 1 ELSE 0

\* No user gets a .conf that was not charged, and a user's quota is charged
\* for a .conf the user has or is being sent, save for those whose sending
\* failed or was cut off.
ChargedMeansDelivered ==
    \A u \in Users :
        /\ confs[u] + BeingSent(u) <= quotaUsed[u]
        /\ u \in cutOff \/ confs[u] + BeingSent(u) = quotaUsed[u]

\* While the loop is alive every update is served and acknowledged.
EveryUpdateAcknowledged ==
    <>[](pc \notin {"down", "stopped"}) =>
        \A m \in Updates : (m \in unconfirmed) ~> (m \notin unconfirmed)

\* "Run long-polls the Bot API until ctx is cancelled ... Errors from the
\* network layer (GetUpdates) are retried on the next tick": while the daemon
\* is up, every update is served.  A poll that times out ends that.
EveryUpdateServedWhileUp ==
    <>[](pc # "down") =>
        \A m \in Updates : (m \in unconfirmed) ~> (m \in served)

=============================================================================
