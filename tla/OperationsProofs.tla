-------------------------- MODULE OperationsProofs -------------------------
(***************************************************************************)
(* What the reference implementations compute, proved: the retries of      *)
(* reliability.py and the replays after them, the metrics of analytics.py  *)
(* (both in src/checkin_platform) and the view next to them, and the       *)
(* days of the archive and its reporting view.  The three share nothing    *)
(* but this module, with one section for each.  The last section puts      *)
(* them, and the operator tools, together as MCOperations does.            *)
(***************************************************************************)
EXTENDS MCOperations, VaultSmokeProofs, FiniteSetTheorems

-----------------------------------------------------------------------------
(* Metrics *)

\* What is delivered next to what was.
LEMMA DeliveredNext ==
  ASSUME NEW S, NEW s \in Seq(S), NEW e \in S
  PROVE  /\ Append(s, e) \in Seq(S)
         /\ {Append(s, e)[i] : i \in DOMAIN Append(s, e)} = {s[i] : i \in DOMAIN s} \union {e}
<1> DEFINE t == Append(s, e)
           n == Len(s) + 1
<1>1. /\ t \in Seq(S) /\ DOMAIN s = 1..Len(s) /\ DOMAIN t = 1..n /\ n \in Nat
      /\ \A i \in 1..Len(s) : t[i] = s[i]
      /\ t[n] = e
  OBVIOUS
<1>2. n \in DOMAIN t /\ \A i \in DOMAIN t : i \in DOMAIN s \/ i = n
  BY <1>1
<1>3. \A i \in DOMAIN s : i \in DOMAIN t
  BY <1>1
<1> HIDE DEF t, n
<1> QED
  BY <1>1, <1>2, <1>3 DEF t

\* As long as no id was taken by another event, the ledger is the set of sound
\* events that were delivered.
SoundDelivered == {e \in {delivered[i] : i \in DOMAIN delivered} : Sound(e)}

LedgerInv == MetricsTypeOK /\ (~conflict => ledger = SoundDelivered)

LEMMA InitLedger == MetricsInit => LedgerInv
<1> SUFFICES ASSUME MetricsInit PROVE LedgerInv
  OBVIOUS
<1>1. ledger = {} /\ delivered = <<>> /\ expectations = <<>>
  BY DEF MetricsInit
<1>2. conflict \in BOOLEAN
  BY Zenon DEF MetricsInit
<1>3. SoundDelivered = {}
  BY <1>1 DEF SoundDelivered
<1> QED
  BY <1>1, <1>2, <1>3 DEF LedgerInv, MetricsTypeOK

LEMMA LedgerInductive == LedgerInv /\ [MetricsNext]_metricsVars => LedgerInv'
<1> SUFFICES ASSUME LedgerInv, [MetricsNext]_metricsVars PROVE LedgerInv'
  OBVIOUS
<1>0. MetricsTypeOK /\ (~conflict => ledger = SoundDelivered)
  BY DEF LedgerInv
<1>1. CASE UNCHANGED metricsVars
  BY <1>0, <1>1 DEF metricsVars, LedgerInv, MetricsTypeOK, SoundDelivered
<1>2. ASSUME NEW x \in Expected, Record(x)
      PROVE  LedgerInv'
  <2>1. expectations' \in Seq(Expected) /\ UNCHANGED <<ledger, delivered, conflict>>
    BY <1>0, <1>2, DeliveredNext DEF Record, MetricsTypeOK
  <2> QED
    BY <1>0, <2>1 DEF LedgerInv, MetricsTypeOK, SoundDelivered
<1>3. ASSUME NEW e \in Stream, Deliver(e)
      PROVE  LedgerInv'
  <2>1. delivered' = Append(delivered, e) /\ expectations' = expectations
    BY <1>3 DEF Deliver
  <2>2. /\ delivered' \in Seq(Stream)
        /\ {delivered'[i] : i \in DOMAIN delivered'} = {delivered[i] : i \in DOMAIN delivered} \union {e}
    BY <1>0, <2>1, DeliveredNext DEF MetricsTypeOK
  <2>3. SoundDelivered' = IF Sound(e) THEN SoundDelivered \union {e} ELSE SoundDelivered
    BY <2>2 DEF SoundDelivered, Sound
  <2>4. CASE Accept(e)
    <3>1. Sound(e)
      BY <2>4 DEF Accept, Sound
    <3>2. CASE {f \in ledger : f.id = e.id} = {} /\ ledger' = ledger \union {e} /\ UNCHANGED conflict
      BY <1>0, <2>1, <2>2, <2>3, <3>1, <3>2 DEF LedgerInv, MetricsTypeOK
    <3>3. CASE /\ {f \in ledger : f.id = e.id} # {}
               /\ conflict' = (conflict \/ \E f \in {f \in ledger : f.id = e.id} : PayloadHash(f) # PayloadHash(e))
               /\ ledger' = ledger
      <4>1. ~conflict' => ~conflict /\ e \in ledger
        BY <3>3 DEF PayloadHash
      <4>2. conflict' \in BOOLEAN
        BY <3>3, Zenon
      <4> QED
        BY <1>0, <2>1, <2>2, <2>3, <3>1, <3>3, <4>1, <4>2 DEF LedgerInv, MetricsTypeOK
    <3> QED
      BY <2>4, <3>2, <3>3 DEF Accept
  <2>5. CASE Refuse(e)
    <3>1. ~Sound(e) /\ UNCHANGED <<ledger, conflict>>
      BY <2>5 DEF Refuse, Sound
    <3> QED
      BY <1>0, <2>1, <2>2, <2>3, <3>1 DEF LedgerInv, MetricsTypeOK
  <2> QED
    BY <1>3, <2>4, <2>5 DEF Deliver
<1> QED
  BY <1>1, <1>2, <1>3 DEF MetricsNext

\* Types: the ledger holds events of the stream, and the rest is recorded in order.
THEOREM MetricsTypes == MetricsSpec => []MetricsTypeOK
<1>1. LedgerInv => MetricsTypeOK
  BY DEF LedgerInv
<1> QED
  BY <1>1, InitLedger, LedgerInductive, PTL DEF MetricsSpec

LEMMA ExpectedUsersAreFinite ==
  ASSUME MetricsTypeOK, NEW g
  PROVE  IsFiniteSet(ExpectedUsers(g))
<1> DEFINE I == {i \in DOMAIN expectations :
                   /\ \A j \in DOMAIN expectations : j > i => expectations[j].id # expectations[i].id
                   /\ expectations[i].group = g /\ expectations[i].state = "expected"}
           f == [i \in I |-> expectations[i].user]
<1>1. IsFiniteSet(DOMAIN expectations)
  BY FS_Interval DEF MetricsTypeOK
<1>2. IsFiniteSet(I)
  BY <1>1, FS_Subset
<1>3. f \in Surjection(I, ExpectedUsers(g))
  BY DEF Surjection, ExpectedUsers, Deduplicated
<1> HIDE DEF f, I
<1> QED
  BY <1>2, <1>3, FS_Surjection

\* Whoever the view counts submitted and is expected, and so is counted by the
\* reference; where codes agree it counts everybody.
LEMMA ViewCounts ==
  ASSUME MetricsTypeOK, NEW g
  PROVE  LET users == {e.user : e \in Named(ledger, g, "checkin.submitted")} \intersect ExpectedUsers(g)
             seen == {pair[2].user : pair \in Joined(g)}
         IN  /\ Cardinality(users) <= Cardinality(ExpectedUsers(g))
             /\ Cardinality(seen) <= Cardinality(users)
             /\ CodesAgree(g) => seen = users
<1> DEFINE users == {e.user : e \in Named(ledger, g, "checkin.submitted")} \intersect ExpectedUsers(g)
           seen == {pair[2].user : pair \in Joined(g)}
<1>1. IsFiniteSet(ExpectedUsers(g))
  BY ExpectedUsersAreFinite
<1>2. users \in SUBSET ExpectedUsers(g)
  OBVIOUS
<1>3. seen \in SUBSET users
  <2>1. SUFFICES ASSUME NEW x \in Deduplicated, NEW e \in ledger, <<x, e>> \in Joined(g)
                 PROVE  e.user \in users
    BY DEF Joined
  <2> QED
    BY <2>1 DEF Joined, Named, ExpectedUsers
<1>4. ASSUME CodesAgree(g)
      PROVE  users \subseteq seen
  <2>1. SUFFICES ASSUME NEW e \in Named(ledger, g, "checkin.submitted"), e.user \in ExpectedUsers(g)
                 PROVE  e.user \in seen
    OBVIOUS
  <2>2. PICK x \in Deduplicated :
          x.user = e.user /\ x.group = g /\ x.state = "expected" /\ x.code = e.code
    BY <1>4, <2>1 DEF CodesAgree
  <2>3. <<x, e>> \in Joined(g) /\ <<x, e>>[2] = e
    BY <2>2 DEF Joined, Named
  <2> QED
    BY <2>3
<1> HIDE DEF users, seen
<1>5. IsFiniteSet(users) /\ Cardinality(users) <= Cardinality(ExpectedUsers(g))
  BY <1>1, <1>2, FS_Subset
<1>6. Cardinality(seen) <= Cardinality(users)
  BY <1>3, <1>5, FS_Subset
<1> QED
  BY <1>3, <1>4, <1>5, <1>6 DEF users, seen

\* The rows of both for a group, whichever of them has one.
LEMMA RowsCount ==
  ASSUME NEW g
  PROVE  LET users == {e.user : e \in Named(ledger, g, "checkin.submitted")} \intersect ExpectedUsers(g)
             seen == {pair[2].user : pair \in Joined(g)}
             reference == ReconcileMetrics(ledger)
         IN  /\ RowOf(reference, g).expected = Cardinality(ExpectedUsers(g))
             /\ RowOf(reference, g).submitted = Cardinality(users)
             /\ RowOf(DailyMetrics, g).expected = Cardinality(ExpectedUsers(g))
             /\ RowOf(DailyMetrics, g).submitted = Cardinality(seen)
<1> DEFINE users == {e.user : e \in Named(ledger, g, "checkin.submitted")} \intersect ExpectedUsers(g)
           seen == {pair[2].user : pair \in Joined(g)}
           reference == ReconcileMetrics(ledger)
<1>1. DOMAIN reference = Groups(ledger) /\ DOMAIN DailyMetrics = {x.group : x \in Deduplicated}
  BY DEF ReconcileMetrics, DailyMetrics
<1>2. g \in Groups(ledger) =>
        reference[g].expected = Cardinality(ExpectedUsers(g)) /\ reference[g].submitted = Cardinality(users)
  BY DEF ReconcileMetrics
<1>3. g \in {x.group : x \in Deduplicated} =>
        /\ DailyMetrics[g].expected = Cardinality(ExpectedUsers(g))
        /\ DailyMetrics[g].submitted = Cardinality(seen)
  BY DEF DailyMetrics
<1>4. g \notin Groups(ledger) \/ g \notin {x.group : x \in Deduplicated} =>
        ExpectedUsers(g) = {} /\ users = {} /\ seen = {}
  <2>1. g \notin Groups(ledger) \/ g \notin {x.group : x \in Deduplicated} =>
          \A x \in Deduplicated : ~(x.group = g /\ x.state = "expected")
    BY DEF Groups
  <2> QED
    BY <2>1 DEF ExpectedUsers, Joined
<1>5. Cardinality({}) = 0
  BY FS_EmptySet
<1> HIDE DEF users, seen, reference
<1> QED
  BY <1>1, <1>2, <1>3, <1>4, <1>5 DEF RowOf, users, seen, reference

LEMMA LedgerReconciles == LedgerInv => MetricsReconcile
<1> SUFFICES ASSUME LedgerInv PROVE MetricsReconcile
  OBVIOUS
<1> DEFINE reference == ReconcileMetrics(ledger)
<1>1. MetricsTypeOK /\ (~conflict => ledger = SoundDelivered)
  BY DEF LedgerInv
<1>2. ASSUME NEW g
      PROVE  /\ RowOf(reference, g).submitted <= RowOf(reference, g).expected
             /\ RowOf(DailyMetrics, g).expected = RowOf(reference, g).expected
             /\ RowOf(DailyMetrics, g).submitted <= RowOf(reference, g).submitted
             /\ CodesAgree(g) => RowOf(DailyMetrics, g).submitted = RowOf(reference, g).submitted
  <2> DEFINE users == {e.user : e \in Named(ledger, g, "checkin.submitted")} \intersect ExpectedUsers(g)
             seen == {pair[2].user : pair \in Joined(g)}
  <2>1. /\ RowOf(reference, g).expected = Cardinality(ExpectedUsers(g))
        /\ RowOf(reference, g).submitted = Cardinality(users)
        /\ RowOf(DailyMetrics, g).expected = Cardinality(ExpectedUsers(g))
        /\ RowOf(DailyMetrics, g).submitted = Cardinality(seen)
    BY RowsCount
  <2>2. /\ Cardinality(users) <= Cardinality(ExpectedUsers(g))
        /\ Cardinality(seen) <= Cardinality(users)
        /\ CodesAgree(g) => seen = users
    BY <1>1, ViewCounts
  <2> HIDE DEF users, seen, reference
  <2> QED
    BY <2>1, <2>2
<1>3. ~conflict => ReconcileMetrics(SoundDelivered) = reference
  BY <1>1
<1> HIDE DEF reference
<1> QED
  BY <1>2, <1>3 DEF MetricsReconcile, SoundDelivered, reference

\* For any stream, any expectations and any order of both: the reference counts
\* nobody who is not expected; of every group the view has as many expected,
\* never more submitted, and as many where codes agree; and unless an id came
\* with two contents, the reference counts the same from stream and ledger.  Of
\* the view, these two columns only.
THEOREM MetricsAgree == MetricsSpec => []MetricsReconcile
BY InitLedger, LedgerInductive, LedgerReconciles, PTL DEF MetricsSpec

-----------------------------------------------------------------------------
(* Retries *)

\* A valid policy's delays are ordered and bounded.
LEMMA DelaysShape ==
  ASSUME NEW p \in Policies, RetryPolicy(p)
  PROVE  /\ p.attempts \in Nat \ {0}
         /\ DOMAIN Delays(p) = 1..p.attempts
         /\ \A i \in 1..p.attempts : Delays(p)[i] \in 1..MaxDelay
         /\ \A i, j \in 1..p.attempts : i <= j => Delays(p)[i] <= Delays(p)[j]
         /\ \A i \in 1..p.attempts :
              Delays(p)[i] = IF i < p.attempts THEN p.between[i] ELSE p.dlq
<1>1. /\ p.attempts \in 1..MaxAttempts /\ MaxAttempts \in Nat /\ MaxDelay \in Nat
      /\ p.between \in Seq(Int) /\ p.dlq \in Int /\ Len(p.between) = p.attempts - 1
  BY PoliciesAreIntegers, RetryBounds DEF RetryPolicy
<1>2. p.attempts \in Nat \ {0}
  BY <1>1
<1>3. /\ DOMAIN Delays(p) = 1..p.attempts
      /\ \A i \in 1..p.attempts :
           Delays(p)[i] = IF i < p.attempts THEN p.between[i] ELSE p.dlq
  BY <1>1, <1>2 DEF Delays
<1>4. /\ \A i \in DOMAIN Delays(p) : Delays(p)[i] \in 1..MaxDelay
      /\ \A i, j \in DOMAIN Delays(p) : i < j => Delays(p)[i] <= Delays(p)[j]
  BY DEF RetryPolicy
<1>5. ASSUME NEW i \in 1..p.attempts, NEW j \in 1..p.attempts, i <= j
      PROVE  Delays(p)[i] <= Delays(p)[j]
  <2>1. Delays(p)[i] \in 1..MaxDelay
    BY <1>3, <1>4
  <2>2. i < j \/ i = j
    BY <1>1, <1>5
  <2>3. i < j => Delays(p)[i] <= Delays(p)[j]
    BY <1>3, <1>4
  <2> QED
    BY <1>1, <2>1, <2>2, <2>3
<1> QED
  BY <1>2, <1>3, <1>4, <1>5

Tries == [began : Nat, ended : Nat]

Rows ==
  [status : {"none", "pending", "replaying", "resolved"}, next : Nat, started : Nat,
   owner : Workers \union {None}, replays : Nat]

RetryTypes ==
  /\ retry \in Policies /\ RetryPolicy(retry)
  /\ clock \in 0..MaxTime
  /\ step \in {"trying", "succeeded", "failed", "row"}
  /\ tried \in Seq(Tries)
  /\ row \in Rows

Last == tried[Len(tried)]

\* The pause after the i-th try: the delay of the loop; the last delay or more
\* before the first replay; before every other at least what is left of a lease
\* after the longest replay.
PauseIsLong(i) ==
  LET pause == tried[i + 1].began - tried[i].ended IN
  /\ i < retry.attempts => pause = Delays(retry)[i]
  /\ i = retry.attempts => pause >= Delays(retry)[i]
  /\ i > retry.attempts => pause >= Lease - ReplayTime

\* The loop has slept when it tries again.  A row waits for its last delay, and
\* a lease is as old as the replay it was taken for.
Waits ==
  /\ \A i \in 1..Len(tried) - 1 : PauseIsLong(i)
  /\ step # "row" => row = NoRow
  /\ step = "trying" =>
       /\ Len(tried) < retry.attempts
       /\ Len(tried) > 0 => clock = Last.ended + Delays(retry)[Len(tried)]
  /\ step = "succeeded" => Len(tried) <= retry.attempts
  /\ step = "failed" => 0 < Len(tried) /\ Len(tried) <= retry.attempts /\ clock = Last.ended
  /\ step = "row" => Len(tried) = retry.attempts + row.replays /\ row.status # "none"
  /\ row.status = "pending" =>
       row.replays = 0 /\ row.next >= Last.ended + Delays(retry)[retry.attempts]
  /\ row.status = "replaying" => row.replays > 0 /\ Last.ended <= row.started + ReplayTime

RetryInv == RetryTypes /\ Waits

LEMMA NoRowTyped ==
  /\ NoRow \in Rows /\ NoRow.status = "none" /\ NoRow.replays = 0
BY DEF NoRow, Rows

LEMMA InitRetry == RetryInit => RetryInv
<1> SUFFICES ASSUME RetryInit PROVE RetryInv
  OBVIOUS
<1>1. /\ retry \in Policies /\ RetryPolicy(retry) /\ clock = 0 /\ step = "trying"
      /\ tried = <<>> /\ row = NoRow
  BY DEF RetryInit
<1>2. retry.attempts \in Nat \ {0}
  BY <1>1, DelaysShape
<1>3. RetryTypes
  BY <1>1, RetryBounds, NoRowTyped DEF RetryTypes
<1>4. Waits
  BY <1>1, <1>2, NoRowTyped DEF Waits
<1> QED
  BY <1>3, <1>4 DEF RetryInv

\* One more try.
LEMMA Tried ==
  ASSUME RetryTypes, NEW took \in Nat, Try(took)
  PROVE  /\ tried' \in Seq(Tries) /\ Len(tried') = Len(tried) + 1
         /\ \A i \in 1..Len(tried) : tried'[i] = tried[i]
         /\ Last' = [began |-> clock, ended |-> clock + took]
         /\ Last'.began = clock /\ Last'.ended = clock + took
<1> DEFINE new == [began |-> clock, ended |-> clock + took]
<1>1. clock \in Nat /\ tried \in Seq(Tries)
  BY RetryBounds DEF RetryTypes
<1>2. new \in Tries
  BY <1>1 DEF Tries
<1>3. tried' = Append(tried, new)
  BY DEF Try
<1>4. new.began = clock /\ new.ended = clock + took
  OBVIOUS
<1> HIDE DEF new
<1>5. /\ tried' \in Seq(Tries) /\ Len(tried') = Len(tried) + 1
      /\ \A i \in 1..Len(tried) : tried'[i] = tried[i]
      /\ tried'[Len(tried) + 1] = new
  BY <1>1, <1>2, <1>3
<1>6. Last' = new
  BY <1>5 DEF Last
<1> QED
  BY <1>4, <1>5, <1>6 DEF new

LEMMA TriesTyped ==
  ASSUME RetryTypes
  PROVE  /\ Len(tried) \in Nat /\ clock \in Nat
         /\ \A i \in 1..Len(tried) : tried[i].began \in Nat /\ tried[i].ended \in Nat
         /\ Len(tried) > 0 => Last = tried[Len(tried)] /\ Last.ended \in Nat
<1>1. tried \in Seq(Tries) /\ clock \in Nat
  BY RetryBounds DEF RetryTypes
<1>2. \A i \in 1..Len(tried) : tried[i] \in Tries
  BY <1>1
<1>3. \A i \in 1..Len(tried) : tried[i].began \in Nat /\ tried[i].ended \in Nat
  BY <1>2 DEF Tries
<1>4. Len(tried) \in Nat
  BY <1>1
<1> QED
  BY <1>1, <1>3, <1>4 DEF Last

\* The pauses before a new try stay, and its own is as long as it has to be.
LEMMA PausesKept ==
  ASSUME RetryTypes, \A i \in 1..Len(tried) - 1 : PauseIsLong(i),
         NEW took \in Nat, Try(took), retry' = retry,
         Len(tried) > 0 =>
           LET pause == clock - Last.ended IN
           /\ Len(tried) < retry.attempts => pause = Delays(retry)[Len(tried)]
           /\ Len(tried) = retry.attempts => pause >= Delays(retry)[Len(tried)]
           /\ Len(tried) > retry.attempts => pause >= Lease - ReplayTime
  PROVE  \A i \in 1..Len(tried') - 1 : PauseIsLong(i)'
<1> DEFINE n == Len(tried)
<1>1. /\ Len(tried') = n + 1 /\ \A i \in 1..n : tried'[i] = tried[i]
      /\ Last'.began = clock /\ n \in Nat
  BY Tried, TriesTyped
<1>2. tried'[n + 1].began = clock
  BY <1>1 DEF Last
<1>3. SUFFICES ASSUME NEW i \in 1..n PROVE PauseIsLong(i)'
  BY <1>1
<1>4. CASE i < n
  <2>1. i \in 1..n - 1 /\ i + 1 \in 1..n
    BY <1>1, <1>4
  <2>2. tried'[i] = tried[i] /\ tried'[i + 1] = tried[i + 1] /\ PauseIsLong(i)
    BY <1>1, <2>1
  <2> QED
    BY <2>2 DEF PauseIsLong
<1>5. CASE i = n
  <2>1. tried'[i] = Last /\ tried'[i + 1].began = clock
    BY <1>1, <1>2, <1>5 DEF Last
  <2>2. n > 0
    BY <1>1, <1>5
  <2> QED
    BY <1>5, <2>1, <2>2 DEF PauseIsLong
<1> QED
  BY <1>1, <1>4, <1>5

\* A try of the loop.
LEMMA LoopTries ==
  ASSUME RetryInv, NEW took \in {0, 1}, Attempt(took)
  PROVE  /\ \A i \in 1..Len(tried') - 1 : PauseIsLong(i)'
         /\ step = "trying" /\ retry' = retry /\ row' = NoRow /\ row = NoRow
         /\ tried' \in Seq(Tries) /\ Len(tried') = Len(tried) + 1
         /\ Last'.ended = clock + took
         /\ Len(tried) \in Nat /\ Len(tried) < retry.attempts
<1>1. RetryTypes /\ Waits
  BY DEF RetryInv
<1>2. step = "trying" /\ Try(took) /\ retry' = retry /\ row' = row
  BY DEF Attempt
<1>3. /\ row = NoRow /\ Len(tried) < retry.attempts
      /\ Len(tried) > 0 => clock = Last.ended + Delays(retry)[Len(tried)]
      /\ \A i \in 1..Len(tried) - 1 : PauseIsLong(i)
  BY <1>1, <1>2 DEF Waits
<1>4. Len(tried) \in Nat /\ (Len(tried) > 0 => Last.ended \in Nat) /\ clock \in Nat
  BY <1>1, TriesTyped
<1>5. retry.attempts \in Nat \ {0} /\ \A i \in 1..retry.attempts : Delays(retry)[i] \in 1..MaxDelay
  BY <1>1, DelaysShape DEF RetryTypes
<1>6. Len(tried) > 0 => clock - Last.ended = Delays(retry)[Len(tried)]
  <2>1. Len(tried) > 0 => Delays(retry)[Len(tried)] \in 1..MaxDelay
    BY <1>3, <1>4, <1>5
  <2> QED
    BY <1>3, <1>4, <2>1, RetryBounds
<1>7. Len(tried) > 0 =>
        LET pause == clock - Last.ended IN
        /\ Len(tried) < retry.attempts => pause = Delays(retry)[Len(tried)]
        /\ Len(tried) = retry.attempts => pause >= Delays(retry)[Len(tried)]
        /\ Len(tried) > retry.attempts => pause >= Lease - ReplayTime
  BY <1>3, <1>4, <1>5, <1>6
<1>8. \A i \in 1..Len(tried') - 1 : PauseIsLong(i)'
  BY <1>1, <1>2, <1>3, <1>7, PausesKept
<1>9. /\ tried' \in Seq(Tries) /\ Len(tried') = Len(tried) + 1 /\ Last'.ended = clock + took
  BY <1>1, <1>2, Tried
<1> QED
  BY <1>2, <1>3, <1>4, <1>8, <1>9

LEMMA RetryInductive == RetryInv /\ [RetryNext]_retryVars => RetryInv'
<1> SUFFICES ASSUME RetryInv, [RetryNext]_retryVars PROVE RetryInv'
  OBVIOUS
<1>0. RetryTypes /\ Waits
  BY DEF RetryInv
<1>a. retry.attempts \in Nat \ {0} /\ \A i \in 1..retry.attempts : Delays(retry)[i] \in 1..MaxDelay
  BY <1>0, DelaysShape DEF RetryTypes
<1>b. /\ Len(tried) \in Nat /\ clock \in Nat
      /\ Len(tried) > 0 => Last.ended \in Nat
  BY <1>0, TriesTyped
<1>c. /\ row \in Rows /\ row.next \in Nat /\ row.started \in Nat /\ row.replays \in Nat
  BY <1>0 DEF RetryTypes, Rows
<1>1. CASE UNCHANGED retryVars
  BY <1>0, <1>1 DEF RetryInv, RetryTypes, Waits, PauseIsLong, Last, retryVars
<1>2. ASSUME clock' <= MaxTime, NEW took \in 0..1, AttemptSucceeds(took)
      PROVE  RetryInv'
  <2>1. Attempt(took) /\ step' = "succeeded" /\ clock' = clock + took /\ took \in {0, 1}
    BY <1>2 DEF AttemptSucceeds
  <2>2. RetryTypes'
    BY <1>0, <1>2, <1>b, <2>1, LoopTries, NoRowTyped, RetryBounds DEF RetryTypes
  <2>3. Waits'
    BY <1>a, <1>b, <2>1, LoopTries, NoRowTyped DEF Waits
  <2> QED
    BY <2>2, <2>3 DEF RetryInv
<1>3. ASSUME clock' <= MaxTime, NEW took \in 0..1, NEW s, AttemptGivesUp(took, s)
      PROVE  RetryInv'
  <2>1. Attempt(took) /\ step' = "failed" /\ clock' = clock + took /\ took \in {0, 1}
    BY <1>3 DEF AttemptGivesUp
  <2>2. RetryTypes'
    BY <1>0, <1>3, <1>b, <2>1, LoopTries, NoRowTyped, RetryBounds DEF RetryTypes
  <2>3. /\ Len(tried') = Len(tried) + 1 /\ Last'.ended = clock + took /\ retry' = retry
        /\ Len(tried) < retry.attempts
    BY <2>1, LoopTries
  <2>4. 0 < Len(tried') /\ Len(tried') <= retry'.attempts /\ clock' = Last'.ended
    BY <1>a, <1>b, <2>1, <2>3
  <2>5. Waits'
    BY <2>1, <2>4, LoopTries, NoRowTyped DEF Waits
  <2> QED
    BY <2>2, <2>5 DEF RetryInv
<1>4. ASSUME clock' <= MaxTime, NEW took \in 0..1, NEW s, AttemptFails(took, s)
      PROVE  RetryInv'
  <2>1. /\ Attempt(took) /\ step' = step /\ took \in {0, 1}
        /\ clock' = clock + took + Sleep(Len(tried) + 1) /\ Len(tried) + 1 < retry.attempts
    BY <1>4 DEF AttemptFails
  <2>2. Sleep(Len(tried) + 1) = Delays(retry)[Len(tried) + 1]
    BY <1>0, <1>b, <2>1, <1>a, DelaysShape DEF Sleep, RetryTypes
  <2>3. Delays(retry)[Len(tried) + 1] \in Nat
    BY <1>a, <1>b, <2>1, RetryBounds
  <2>4. RetryTypes'
    BY <1>0, <1>4, <1>b, <2>1, <2>2, <2>3, LoopTries, NoRowTyped, RetryBounds DEF RetryTypes
  <2>5. Len(tried') = Len(tried) + 1 /\ Last'.ended = clock + took /\ retry' = retry
    BY <2>1, LoopTries
  <2>6. clock' = Last'.ended + Delays(retry')[Len(tried')]
    BY <2>1, <2>2, <2>5
  <2>7. Waits'
    BY <1>a, <1>b, <2>1, <2>5, <2>6, LoopTries, NoRowTyped DEF Waits
  <2> QED
    BY <2>4, <2>7 DEF RetryInv
<1>5. ASSUME clock' <= MaxTime, NEW delay \in 0..1, BuildDlqRecord(delay)
      PROVE  RetryInv'
  <2>1. /\ step = "failed" /\ Len(tried) = retry.attempts /\ step' = "row"
        /\ clock' = clock + delay /\ delay \in {0, 1} /\ retry' = retry /\ tried' = tried
        /\ row' = [NoRow EXCEPT !.status = "pending", !.next = clock + delay + retry.dlq]
    BY <1>5 DEF BuildDlqRecord
  <2>2. retry.dlq = Delays(retry)[retry.attempts]
    BY <1>0, <1>a, DelaysShape DEF RetryTypes
  <2>3. Delays(retry)[retry.attempts] \in Nat
    BY <1>a, RetryBounds
  <2> DEFINE next == clock + delay + retry.dlq
  <2>4. /\ row' \in Rows /\ row'.status = "pending" /\ row'.replays = 0
        /\ row'.next = clock + delay + Delays(retry)[retry.attempts]
    <3>1. row' = [status |-> "pending", next |-> next, started |-> 0, owner |-> None, replays |-> 0]
      BY <2>1 DEF NoRow
    <3>2. next \in Nat /\ next = clock + delay + Delays(retry)[retry.attempts]
      BY <1>b, <2>1, <2>2, <2>3
    <3> HIDE DEF next
    <3> QED
      BY <3>1, <3>2 DEF Rows
  <2>5. clock = Last.ended /\ Last' = Last
    BY <1>0, <2>1 DEF Waits, Last
  <2>6. RetryTypes'
    BY <1>0, <1>5, <1>b, <2>1, <2>4, RetryBounds DEF RetryTypes
  <2>7. row'.next >= Last'.ended + Delays(retry')[retry'.attempts]
    BY <1>b, <2>1, <2>3, <2>4, <2>5
  <2>8. Waits'
    BY <1>0, <1>a, <2>1, <2>4, <2>7 DEF Waits, PauseIsLong
  <2> QED
    BY <2>6, <2>8 DEF RetryInv
<1>6. ASSUME clock' <= MaxTime, NEW w \in Workers, NEW took \in 0..ReplayTime, PlanReplay(w, took)
      PROVE  RetryInv'
  <2>1. /\ step = "row" /\ Replayable /\ Try(took) /\ UNCHANGED <<retry, clock, step>>
        /\ row' = [row EXCEPT !.status = "replaying", !.started = clock, !.owner = w,
                              !.replays = @ + 1]
    BY <1>6 DEF PlanReplay
  <2>0. took \in Nat /\ took <= ReplayTime
    BY RetryBounds
  <2>2. /\ row' \in Rows /\ row'.status = "replaying" /\ row'.started = clock
        /\ row'.replays = row.replays + 1
    <3>1. row = [status |-> row.status, next |-> row.next, started |-> row.started,
                 owner |-> row.owner, replays |-> row.replays]
      BY <1>c DEF Rows
    <3>2. row' = [status |-> "replaying", next |-> row.next, started |-> clock, owner |-> w,
                  replays |-> row.replays + 1]
      BY <2>1, <3>1
    <3>3. row.replays + 1 \in Nat
      BY <1>c
    <3> QED
      BY <1>b, <1>c, <3>2, <3>3 DEF Rows
  <2>3. /\ tried' \in Seq(Tries) /\ Len(tried') = Len(tried) + 1 /\ Last'.ended = clock + took
    BY <1>0, <2>0, <2>1, Tried
  <2>4. Len(tried) = retry.attempts + row.replays /\ Len(tried) > 0
    BY <1>0, <1>a, <1>c, <2>1 DEF Waits
  <2>5. \/ row.status = "pending" /\ Len(tried) = retry.attempts
             /\ clock - Last.ended >= Delays(retry)[retry.attempts]
        \/ row.status = "replaying" /\ Len(tried) > retry.attempts
             /\ clock - Last.ended >= Lease - ReplayTime
    <3>1. CASE row.status = "pending" /\ clock >= row.next
      <4>1. row.replays = 0 /\ row.next >= Last.ended + Delays(retry)[retry.attempts]
        BY <1>0, <3>1 DEF Waits
      <4>2. Delays(retry)[retry.attempts] \in Nat
        BY <1>a, RetryBounds
      <4> QED
        BY <1>a, <1>b, <1>c, <2>4, <3>1, <4>1, <4>2
    <3>2. CASE row.status = "replaying" /\ clock >= row.started + Lease
      <4>1. row.replays > 0 /\ Last.ended <= row.started + ReplayTime
        BY <1>0, <3>2 DEF Waits
      <4>2. Lease \in Nat /\ ReplayTime \in Nat
        BY RetryBounds
      <4> QED
        BY <1>a, <1>b, <1>c, <2>4, <3>2, <4>1, <4>2
    <3> QED
      BY <2>1, <3>1, <3>2 DEF Replayable
  <2>6. \A i \in 1..Len(tried) - 1 : PauseIsLong(i)
    BY <1>0 DEF Waits
  <2>7. Len(tried) > 0 =>
          LET pause == clock - Last.ended IN
          /\ Len(tried) < retry.attempts => pause = Delays(retry)[Len(tried)]
          /\ Len(tried) = retry.attempts => pause >= Delays(retry)[Len(tried)]
          /\ Len(tried) > retry.attempts => pause >= Lease - ReplayTime
    BY <1>a, <1>b, <2>5
  <2>8. \A i \in 1..Len(tried') - 1 : PauseIsLong(i)'
    BY <1>0, <2>0, <2>1, <2>6, <2>7, PausesKept
  <2>9. RetryTypes'
    BY <1>0, <2>1, <2>2, <2>3 DEF RetryTypes
  <2>10. Last'.ended <= row'.started + ReplayTime /\ Len(tried') = retry'.attempts + row'.replays
    <3>1. Last'.ended = clock + took /\ row'.started = clock /\ clock \in Nat
      BY <1>b, <2>2, <2>3
    <3>2. Last'.ended <= row'.started + ReplayTime
      BY <2>0, <3>1, RetryBounds
    <3>3. Len(tried') = retry'.attempts + row'.replays
      <4>1. retry' = retry
        BY <2>1
      <4> QED
        BY <1>a, <1>b, <1>c, <2>2, <2>3, <2>4, <4>1
    <3> QED
      BY <3>2, <3>3
  <2>11. Waits'
    BY <1>c, <2>1, <2>2, <2>8, <2>10 DEF Waits
  <2> QED
    BY <2>9, <2>11 DEF RetryInv
<1>7. CASE ResolvedDlqPatch
  <2>1. /\ row.status = "replaying" /\ row' = [row EXCEPT !.status = "resolved"]
        /\ UNCHANGED <<retry, clock, step, tried>>
    BY <1>7 DEF ResolvedDlqPatch
  <2>2. row' \in Rows /\ row'.status = "resolved" /\ row'.replays = row.replays
    BY <1>c, <2>1 DEF Rows
  <2>3. step = "row"
    BY <1>0, <2>1, NoRowTyped DEF Waits
  <2>4. RetryTypes'
    BY <1>0, <2>1, <2>2 DEF RetryTypes
  <2>5. Waits'
    BY <1>0, <2>1, <2>2, <2>3 DEF Waits, PauseIsLong
  <2> QED
    BY <2>4, <2>5 DEF RetryInv
<1>8. CASE TimePasses /\ clock' <= MaxTime
  <2>1. step = "row" /\ clock' = clock + 1 /\ UNCHANGED <<retry, step, tried, row>>
    BY <1>8 DEF TimePasses
  <2>2. RetryTypes'
    BY <1>0, <1>8, <1>b, <2>1, RetryBounds DEF RetryTypes
  <2>3. Waits'
    BY <1>0, <2>1 DEF Waits, PauseIsLong, Last
  <2> QED
    BY <2>2, <2>3 DEF RetryInv
<1> QED
  BY <1>1, <1>2, <1>3, <1>4, <1>5, <1>6, <1>7, <1>8 DEF RetryNext

LEMMA RetryIsTyped == RetryInv => RetryTypeOK
<1> SUFFICES ASSUME RetryInv PROVE RetryTypeOK
  OBVIOUS
<1>1. RetryTypes /\ Waits /\ Len(tried) \in Nat
  BY TriesTyped DEF RetryInv
<1>2. retry.attempts \in Nat \ {0} /\ row \in Rows /\ row.replays \in Nat
  BY <1>1, DelaysShape DEF RetryTypes, Rows
<1>3. row.owner \in Workers \union {None} /\ row.status \in {"none", "pending", "replaying", "resolved"}
  BY <1>2 DEF Rows
<1>4. Len(tried) <= retry.attempts + row.replays
  BY <1>1, <1>2 DEF Waits, RetryTypes
<1> QED
  BY <1>1, <1>2, <1>3, <1>4 DEF RetryTypes, RetryTypeOK

\* Types: a row is tried as often as it was tried first and replayed.
THEOREM RetryTypesHold == RetrySpec => []RetryTypeOK
BY InitRetry, RetryInductive, RetryIsTyped, PTL DEF RetrySpec

LEMMA LongPausesSlowDown == RetryInv => RetriesSlowDown
<1> SUFFICES ASSUME RetryInv PROVE RetriesSlowDown
  OBVIOUS
<1> DEFINE n == retry.attempts
           pause == [i \in 1..Len(tried) - 1 |-> tried[i + 1].began - tried[i].ended]
<1>1. RetryTypes /\ Waits
  BY DEF RetryInv
<1>2. /\ n \in Nat \ {0} /\ DOMAIN Delays(retry) = 1..n
      /\ \A i \in 1..n : Delays(retry)[i] \in 1..MaxDelay
      /\ \A i, j \in 1..n : i <= j => Delays(retry)[i] <= Delays(retry)[j]
  BY <1>1, DelaysShape DEF RetryTypes
<1>3. /\ Len(tried) \in Nat
      /\ \A i \in 1..Len(tried) : tried[i].began \in Nat /\ tried[i].ended \in Nat
  BY <1>1, TriesTyped
<1>4. \A i \in 1..Len(tried) - 1 :
        /\ pause[i] \in Int
        /\ i < n => pause[i] = Delays(retry)[i]
        /\ i = n => pause[i] >= Delays(retry)[i]
        /\ i > n => pause[i] >= Lease - ReplayTime
  BY <1>1, <1>3 DEF Waits, PauseIsLong
<1>5. DOMAIN pause = 1..Len(tried) - 1
  OBVIOUS
<1> HIDE DEF pause
<1>6. ASSUME NEW i \in DOMAIN pause, NEW j \in DOMAIN pause, i < j, j <= n
      PROVE  pause[i] <= pause[j]
  <2>1. i \in 1..n /\ j \in 1..n /\ i < n /\ i <= j
    BY <1>2, <1>3, <1>5, <1>6
  <2>2. pause[i] = Delays(retry)[i] /\ pause[j] >= Delays(retry)[j] /\ pause[j] \in Int
    BY <1>2, <1>4, <1>5, <1>6, <2>1
  <2> QED
    BY <1>2, <2>1, <2>2
<1>7. ASSUME NEW i \in DOMAIN pause, i > n, NEW m \in DOMAIN Delays(retry)
      PROVE  pause[i] >= Delays(retry)[m]
  <2>1. pause[i] >= Lease - ReplayTime /\ pause[i] \in Int
    BY <1>4, <1>5, <1>7
  <2>2. Delays(retry)[m] \in 1..MaxDelay
    BY <1>2
  <2> QED
    BY <2>1, <2>2, RetryBounds, LeaseLongerThanDelays
<1> QED
  BY <1>6, <1>7 DEF RetriesSlowDown, pause

\* Pauses between tries do not get shorter up to the first replay, and replays
\* after it are further apart than any delay, for every valid policy.
THEOREM RetriesSlow == RetrySpec => []RetriesSlowDown
BY InitRetry, RetryInductive, LongPausesSlowDown, PTL DEF RetrySpec

-----------------------------------------------------------------------------
(* Months *)

IsDate(t) ==
  /\ t = [y |-> t.y, m |-> t.m, d |-> t.d]
  /\ t.y \in Nat /\ t.m \in 1..12 /\ t.d \in 1..DaysIn(t.y, t.m)

LEMMA MonthLengths ==
  ASSUME NEW y, NEW m
  PROVE  DaysIn(y, m) \in 28..31
BY DEF DaysIn

\* Twelve months make a year.
LEMMA MonthOfNumber ==
  ASSUME NEW n \in Nat
  PROVE  n \div 12 \in Nat /\ (n % 12) + 1 \in 1..12 /\ 12 * (n \div 12) + ((n % 12) + 1) - 1 = n
OBVIOUS

LEMMA NumberOfMonth ==
  ASSUME NEW y \in Nat, NEW m \in 1..12
  PROVE  (12 * y + m - 1) \div 12 = y /\ ((12 * y + m - 1) % 12) + 1 = m
OBVIOUS

LEMMA InMonthIsDate ==
  ASSUME NEW n \in Nat, NEW t, t.d \in Nat \ {0}
  PROVE  /\ IsDate(InMonth(n, t)) /\ MonthNumber(InMonth(n, t)) = n
         /\ LET last == DaysIn(n \div 12, (n % 12) + 1) IN
              InMonth(n, t).d = IF t.d <= last THEN t.d ELSE last
<1> DEFINE y == n \div 12
           m == (n % 12) + 1
           last == DaysIn(y, m)
           d == IF t.d <= last THEN t.d ELSE last
<1>1. y \in Nat /\ m \in 1..12 /\ 12 * y + m - 1 = n
  BY MonthOfNumber
<1>2. last \in 28..31
  BY MonthLengths
<1>3. InMonth(n, t) = [y |-> y, m |-> m, d |-> d]
  BY DEF InMonth
<1>4. d \in 1..last
  BY <1>2
<1> HIDE DEF y, m, d
<1> QED
  BY <1>1, <1>3, <1>4 DEF IsDate, MonthNumber, d

\* Dates of one month have one year and one month.
LEMMA SameMonth ==
  ASSUME NEW s, NEW t, IsDate(s), IsDate(t), MonthNumber(s) = MonthNumber(t)
  PROVE  /\ s.y = t.y /\ s.m = t.m
         /\ s.d = t.d => s = t
<1>1. s.y \in Nat /\ t.y \in Nat /\ s.m \in 1..12 /\ t.m \in 1..12
  BY DEF IsDate
<1>2. s.y = t.y /\ s.m = t.m
  <2>1. 12 * s.y + s.m - 1 = 12 * t.y + t.m - 1
    BY DEF MonthNumber
  <2>2. /\ (12 * s.y + s.m - 1) \div 12 = s.y /\ ((12 * s.y + s.m - 1) % 12) + 1 = s.m
        /\ (12 * t.y + t.m - 1) \div 12 = t.y /\ ((12 * t.y + t.m - 1) % 12) + 1 = t.m
    BY <1>1, NumberOfMonth
  <2> QED
    BY <1>1, <2>1, <2>2
<1>3. /\ s = [y |-> s.y, m |-> s.m, d |-> s.d]
      /\ t = [y |-> t.y, m |-> t.m, d |-> t.d]
  BY Zenon DEF IsDate
<1> QED
  BY <1>2, <1>3

LEMMA MonthsAreNumbered ==
  ASSUME NEW t, IsDate(t)
  PROVE  MonthNumber(t) \in Nat
BY DEF IsDate, MonthNumber

\* The next day is in the same month, or the first of the next one.
LEMMA NextDayIs ==
  ASSUME NEW t, IsDate(t)
  PROVE  /\ IsDate(NextDay(t))
         /\ \/ /\ t.d < DaysIn(t.y, t.m) /\ MonthNumber(NextDay(t)) = MonthNumber(t)
               /\ NextDay(t).d = t.d + 1
            \/ /\ t.d = DaysIn(t.y, t.m) /\ MonthNumber(NextDay(t)) = MonthNumber(t) + 1
               /\ NextDay(t).d = 1
<1>1. /\ t = [y |-> t.y, m |-> t.m, d |-> t.d]
      /\ t.y \in Nat /\ t.m \in 1..12 /\ t.d \in 1..DaysIn(t.y, t.m)
  BY DEF IsDate
<1>2. DaysIn(t.y, t.m) \in 28..31 /\ MonthNumber(t) \in Nat
  BY MonthLengths, MonthsAreNumbered
<1>3. CASE t.d < DaysIn(t.y, t.m)
  <2>1. NextDay(t) = [y |-> t.y, m |-> t.m, d |-> t.d + 1]
    BY <1>1, <1>3 DEF NextDay
  <2> QED
    BY <1>1, <1>2, <1>3, <2>1 DEF IsDate, MonthNumber
<1>4. CASE ~(t.d < DaysIn(t.y, t.m))
  <2> DEFINE n == MonthNumber(t) + 1
             s == InMonth(n, t)
  <2>1. NextDay(t) = [InMonth(n, t) EXCEPT !.d = 1]
    BY <1>4 DEF NextDay
  <2>2. n \in Nat /\ t.d \in Nat \ {0}
    BY <1>1, <1>2
  <2> HIDE DEF n
  <2>3. IsDate(s) /\ MonthNumber(s) = n
    BY <2>2, InMonthIsDate
  <2>4. NextDay(t) = [y |-> s.y, m |-> s.m, d |-> 1]
    BY <2>1 DEF InMonth
  <2> HIDE DEF s
  <2>5. DaysIn(s.y, s.m) \in 28..31
    BY MonthLengths
  <2>6. IsDate(NextDay(t)) /\ MonthNumber(NextDay(t)) = n
    BY <2>3, <2>4, <2>5 DEF IsDate, MonthNumber
  <2>7. t.d = DaysIn(t.y, t.m)
    BY <1>1, <1>2, <1>4
  <2> QED
    BY <2>4, <2>6, <2>7 DEF n
<1> QED
  BY <1>3, <1>4

-----------------------------------------------------------------------------
(* The archive *)

\* Months from the day to its last date in detail, the month of its refresh.
Age(t) == MonthNumber(t) - MonthNumber(day)

\* The date on which the refresh names the day is over, or at least its refresh.
Passed ==
  \/ Age(today) > 23
  \/ Age(today) = 23 /\ today.d > day.d
  \/ Age(today) = 23 /\ today.d = day.d /\ refresh # "due"

DatesOK ==
  /\ day \in Dates /\ IsDate(day) /\ IsDate(today)
  /\ Age(today) >= 22
  /\ archived \in BOOLEAN /\ detail \in BOOLEAN /\ missed \in BOOLEAN
  /\ refresh \in {"due", "done", "failed"}

\* The day is archived when its date has passed, if it has one and its refresh
\* did not fail, and its detail does not expire before the month after.
Kept24 ==
  /\ HasLaterDay(day) /\ Passed /\ ~missed => archived
  /\ archived => HasLaterDay(day)
  /\ ~detail => Age(today) > 23

AInv == DatesOK /\ Kept24

LEMMA DatesAreDates ==
  ASSUME NEW t \in Dates
  PROVE  IsDate(t)
<1>1. t \in [y : FirstYear..LastYear, m : 1..12, d : 1..31] /\ t.d <= DaysIn(t.y, t.m)
  BY DEF Dates
<1>2. DaysIn(t.y, t.m) \in 28..31
  BY MonthLengths
<1>3. FirstYear \in Nat /\ LastYear \in Nat
  BY YearsAreNatural
<1>4. /\ t = [y |-> t.y, m |-> t.m, d |-> t.d] /\ t.y \in FirstYear..LastYear /\ t.m \in 1..12 /\ t.d \in 1..31
  BY <1>1
<1> QED
  BY <1>1, <1>2, <1>3, <1>4 DEF IsDate

LEMMA DayNumbers ==
  ASSUME DatesOK
  PROVE  /\ MonthNumber(day) \in Nat /\ MonthNumber(day) > 0 /\ MonthNumber(today) \in Nat
         /\ day.d \in Nat \ {0} /\ today.d \in Nat \ {0}
         /\ day.d <= DaysIn(day.y, day.m) /\ today.d <= DaysIn(today.y, today.m)
<1>1. IsDate(day) /\ IsDate(today) /\ day \in Dates
  BY DEF DatesOK
<1>2. day.y \in FirstYear..LastYear
  BY <1>1 DEF Dates
<1>3. MonthNumber(day) \in Nat /\ MonthNumber(today) \in Nat
  BY <1>1, MonthsAreNumbered
<1>4. DaysIn(day.y, day.m) \in 28..31 /\ DaysIn(today.y, today.m) \in 28..31
  BY MonthLengths
<1>5. MonthNumber(day) > 0
  BY <1>1, <1>2, YearsAreNatural DEF MonthNumber, IsDate
<1> QED
  BY <1>1, <1>3, <1>4, <1>5 DEF IsDate

\* The date 23 months ago, from the month in which the day is due on.
LEMMA MonthsAgo ==
  ASSUME DatesOK
  PROVE  /\ IsDate(Refreshed) /\ MonthNumber(Refreshed) = MonthNumber(today) - 23
         /\ Age(today) = 23 =>
              /\ Refreshed.d = IF today.d <= DaysIn(day.y, day.m) THEN today.d ELSE DaysIn(day.y, day.m)
              /\ Refreshed.d = day.d => Refreshed = day
<1> DEFINE n == MonthNumber(today) - 23
<1>1. /\ MonthNumber(day) \in Nat /\ MonthNumber(day) > 0 /\ MonthNumber(today) \in Nat
      /\ today.d \in Nat \ {0}
  BY DayNumbers
<1>2. n \in Nat
  BY <1>1 DEF DatesOK, Age
<1>3. Refreshed = InMonth(n, today)
  BY DEF Refreshed, MinusMonths
<1> HIDE DEF n
<1>4. /\ IsDate(Refreshed) /\ MonthNumber(Refreshed) = n
      /\ LET last == DaysIn(n \div 12, (n % 12) + 1) IN
           Refreshed.d = IF today.d <= last THEN today.d ELSE last
  BY <1>1, <1>2, <1>3, InMonthIsDate
<1>5. ASSUME Age(today) = 23
      PROVE  /\ n \div 12 = day.y /\ (n % 12) + 1 = day.m
             /\ MonthNumber(Refreshed) = MonthNumber(day)
  <2>1. n = MonthNumber(day)
    BY <1>1, <1>5 DEF n, Age
  <2>2. day.y \in Nat /\ day.m \in 1..12
    BY DEF DatesOK, IsDate
  <2>3. n = 12 * day.y + day.m - 1
    BY <2>1 DEF MonthNumber
  <2> QED
    BY <1>4, <2>1, <2>2, <2>3, NumberOfMonth
<1>6. IsDate(day)
  BY DEF DatesOK
<1> QED
  BY <1>4, <1>5, <1>6, SameMonth DEF n

\* What the report takes from the archive has passed.
LEMMA BeforePassed ==
  ASSUME DatesOK
  PROVE  /\ Before(day, Refreshed) => Passed
         /\ Age(today) > 23 => Before(day, Refreshed)
<1>1. MonthNumber(Refreshed) = MonthNumber(today) - 23
  BY MonthsAgo
<1>2. /\ MonthNumber(day) \in Nat /\ MonthNumber(today) \in Nat
      /\ day.d \in Nat \ {0} /\ today.d \in Nat \ {0}
      /\ DaysIn(day.y, day.m) \in 28..31
  BY DayNumbers, MonthLengths
<1>3. Age(today) = 23 =>
        Refreshed.d = IF today.d <= DaysIn(day.y, day.m) THEN today.d ELSE DaysIn(day.y, day.m)
  BY MonthsAgo
<1>4. ASSUME Before(day, Refreshed)
      PROVE  Passed
  <2>1. CASE MonthNumber(day) < MonthNumber(Refreshed)
    BY <1>1, <1>2, <2>1 DEF Passed, Age
  <2>2. CASE MonthNumber(day) = MonthNumber(Refreshed) /\ day.d < Refreshed.d
    <3>1. Age(today) = 23
      BY <1>1, <1>2, <2>2 DEF Age
    <3>2. today.d > day.d
      BY <1>2, <1>3, <2>2, <3>1
    <3> QED
      BY <3>1, <3>2 DEF Passed
  <2> QED
    BY <1>4, <2>1, <2>2 DEF Before
<1>5. Age(today) > 23 => Before(day, Refreshed)
  BY <1>1, <1>2 DEF Age, Before
<1> QED
  BY <1>4, <1>5

\* On the date itself the refresh names the day.
LEMMA NamedOnDate ==
  ASSUME DatesOK, Age(today) = 23, today.d = day.d
  PROVE  Refreshed = day
<1>1. day.d <= DaysIn(day.y, day.m)
  BY DayNumbers
<1> QED
  BY <1>1, MonthsAgo

\* The last day of the month in which the day is due.
LEMMA LaterDay ==
  ASSUME DatesOK, Age(today) = 23
  PROVE  HasLaterDay(day) <=> day.d <= DaysIn(today.y, today.m)
<1> DEFINE n == MonthNumber(day) + 23
           later == [day EXCEPT !.d = 31]
<1>1. /\ MonthNumber(day) \in Nat /\ MonthNumber(today) \in Nat /\ day.d \in Nat \ {0}
  BY DayNumbers
<1>2. n \in Nat /\ later.d = 31
  BY <1>1 DEF DatesOK, IsDate
<1>3. HasLaterDay(day) <=> day.d <= InMonth(n, later).d
  BY DEF HasLaterDay
<1>4. n = MonthNumber(today)
  BY <1>1 DEF Age
<1> HIDE DEF n, later
<1>5. InMonth(n, later).d = DaysIn(n \div 12, (n % 12) + 1)
  <2>1. DaysIn(n \div 12, (n % 12) + 1) \in 28..31
    BY MonthLengths
  <2> QED
    BY <1>2, <2>1, InMonthIsDate
<1>6. n \div 12 = today.y /\ (n % 12) + 1 = today.m
  <2>1. today.y \in Nat /\ today.m \in 1..12
    BY DEF DatesOK, IsDate
  <2> QED
    BY <1>4, <2>1, NumberOfMonth DEF MonthNumber
<1> QED
  BY <1>3, <1>5, <1>6

\* A refresh names a day in its month, on its date or, at the end of a shorter
\* month than that, later.
LEMMA NamedHasLaterDay ==
  ASSUME DatesOK, Refreshed = day
  PROVE  HasLaterDay(day) /\ Age(today) = 23
<1>1. /\ MonthNumber(day) \in Nat /\ MonthNumber(today) \in Nat
      /\ day.d \in Nat \ {0} /\ today.d \in Nat \ {0} /\ today.d <= DaysIn(today.y, today.m)
  BY DayNumbers
<1>2. DaysIn(day.y, day.m) \in 28..31 /\ DaysIn(today.y, today.m) \in 28..31
  BY MonthLengths
<1>3. Age(today) = 23
  BY <1>1, MonthsAgo DEF Age
<1>4. day.d <= today.d
  BY <1>1, <1>2, <1>3, MonthsAgo
<1> QED
  BY <1>1, <1>2, <1>3, <1>4, LaterDay

\* Until the month after, nothing has expired.
LEMMA ExpiredLate ==
  ASSUME DatesOK, Expired
  PROVE  Age(today) > 23
<1> DEFINE n == MonthNumber(day) + 24
<1>1. /\ MonthNumber(day) \in Nat /\ MonthNumber(today) \in Nat /\ day.d \in Nat \ {0}
  BY DayNumbers
<1>2. n \in Nat
  BY <1>1
<1>3. PlusMonths(day, 24) = InMonth(n, day)
  BY DEF PlusMonths
<1> HIDE DEF n
<1>4. MonthNumber(PlusMonths(day, 24)) = n
  BY <1>1, <1>2, <1>3, InMonthIsDate
<1>5. ~(MonthNumber(today) < n)
  BY <1>4 DEF Expired, Before
<1> QED
  BY <1>1, <1>5 DEF Age, n

LEMMA InitArchive == ArchiveInit => AInv
<1> SUFFICES ASSUME ArchiveInit PROVE AInv
  OBVIOUS
<1> DEFINE n == MonthNumber(day) + 22
           s == InMonth(n, day)
<1>1. day \in Dates /\ IsDate(day)
  BY DatesAreDates DEF ArchiveInit
<1>2. MonthNumber(day) \in Nat /\ day.d \in Nat \ {0}
  BY <1>1, MonthsAreNumbered, MonthLengths DEF IsDate
<1>3. n \in Nat
  BY <1>2
<1>4. today = [s EXCEPT !.d = 28]
  BY DEF ArchiveInit
<1> HIDE DEF n
<1>5. IsDate(s) /\ MonthNumber(s) = n
  BY <1>2, <1>3, InMonthIsDate
<1>6. today = [y |-> s.y, m |-> s.m, d |-> 28]
  BY <1>4 DEF InMonth
<1> HIDE DEF s
<1>7. DaysIn(s.y, s.m) \in 28..31
  BY MonthLengths
<1>8. IsDate(today) /\ MonthNumber(today) = n
  BY <1>5, <1>6, <1>7 DEF IsDate, MonthNumber
<1>9. Age(today) = 22
  BY <1>2, <1>8 DEF Age, n
<1>10. archived \in BOOLEAN /\ detail \in BOOLEAN
  BY Zenon DEF ArchiveInit
<1>11. detail /\ refresh = "due" /\ ~archived
  BY DEF ArchiveInit
<1>12. missed \in BOOLEAN
  BY Zenon DEF ArchiveInit
<1> QED
  BY <1>1, <1>8, <1>9, <1>10, <1>11, <1>12 DEF AInv, DatesOK, Kept24, Passed

LEMMA ArchiveInductive == AInv /\ [ArchiveNext]_archiveVars => AInv'
<1> SUFFICES ASSUME AInv, [ArchiveNext]_archiveVars PROVE AInv'
  OBVIOUS
<1>0. DatesOK /\ Kept24
  BY DEF AInv
<1>a. /\ MonthNumber(day) \in Nat /\ MonthNumber(today) \in Nat
      /\ day.d \in Nat \ {0} /\ today.d \in Nat \ {0}
      /\ today.d <= DaysIn(today.y, today.m)
  BY <1>0, DayNumbers
<1>1. CASE UNCHANGED archiveVars
  BY <1>0, <1>1 DEF archiveVars, AInv, DatesOK, Kept24, Passed, Age
<1>2. CASE Refresh
  <2>1. /\ refresh' = "done" /\ day' = day /\ today' = today /\ detail' = detail
        /\ missed' = missed
        /\ archived' = (archived \/ (Refreshed = day /\ detail))
    BY <1>2 DEF Refresh
  <2>2. archived' \in BOOLEAN
    BY <2>1, Zenon
  <2>3. DatesOK'
    BY <1>0, <2>1, <2>2 DEF DatesOK, Age
  <2>4. Passed' => Passed \/ (Age(today) = 23 /\ today.d = day.d)
    BY <2>1 DEF Passed, Age
  <2>5. Age(today) = 23 /\ today.d = day.d => archived'
    <3>1. SUFFICES ASSUME Age(today) = 23, today.d = day.d PROVE archived'
      OBVIOUS
    <3>2. Refreshed = day
      BY <1>0, <3>1, NamedOnDate
    <3>3. ~(Age(today) > 23)
      BY <3>1
    <3>4. detail
      BY <1>0, <3>3, Zenon DEF Kept24
    <3> QED
      BY <2>1, <3>2, <3>4, Zenon
  <2>6. archived' => HasLaterDay(day)
    BY <1>0, <2>1, NamedHasLaterDay DEF Kept24
  <2>7. Kept24'
    BY <1>0, <2>1, <2>4, <2>5, <2>6 DEF Kept24, Age
  <2> QED
    BY <2>3, <2>7 DEF AInv
<1>3. CASE RefreshFails
  <2>1. /\ refresh' = "failed" /\ UNCHANGED <<day, today, archived, detail>>
        /\ missed' = (missed \/ Refreshed = day)
    BY <1>3 DEF RefreshFails
  <2>2. missed' \in BOOLEAN
    BY <2>1, Zenon
  <2>3. Passed' => Passed \/ (Age(today) = 23 /\ today.d = day.d)
    BY <2>1 DEF Passed, Age
  <2>4. Age(today) = 23 /\ today.d = day.d => missed'
    BY <1>0, <2>1, NamedOnDate
  <2>5. DatesOK'
    BY <1>0, <2>1, <2>2 DEF DatesOK, Age
  <2>6. Kept24'
    BY <1>0, <2>1, <2>3, <2>4 DEF Kept24, Age
  <2> QED
    BY <2>5, <2>6 DEF AInv
<1>4. CASE Expire
  <2>1. Expired /\ detail' = FALSE /\ UNCHANGED <<day, today, archived, refresh, missed>>
    BY <1>4 DEF Expire
  <2>2. Age(today) > 23
    BY <1>0, <2>1, ExpiredLate
  <2>3. detail' \in BOOLEAN
    BY <2>1, Zenon
  <2> QED
    BY <1>0, <2>1, <2>2, <2>3 DEF AInv, DatesOK, Kept24, Passed, Age
<1>5. CASE Midnight
  <2>1. /\ refresh # "due" /\ today' = NextDay(today) /\ refresh' = "due"
        /\ UNCHANGED <<day, archived, detail, missed>>
    BY <1>5 DEF Midnight
  <2> DEFINE t == NextDay(today)
  <2>2. /\ IsDate(t)
        /\ \/ /\ MonthNumber(t) = MonthNumber(today) /\ t.d = today.d + 1
           \/ /\ today.d = DaysIn(today.y, today.m)
              /\ MonthNumber(t) = MonthNumber(today) + 1 /\ t.d = 1
    BY <1>0, NextDayIs DEF DatesOK
  <2> HIDE DEF t
  <2>3. Age(today)' = MonthNumber(t) - MonthNumber(day)
    BY <2>1 DEF Age, t
  <2>4. DatesOK'
    BY <1>0, <1>a, <2>1, <2>2, <2>3 DEF DatesOK, Age, t
  <2>5. ASSUME HasLaterDay(day), Age(today) = 23, today.d = DaysIn(today.y, today.m)
        PROVE  today.d >= day.d
    BY <1>0, <2>5, LaterDay
  <2>6. HasLaterDay(day) /\ Passed' => Passed
    <3>1. SUFFICES ASSUME HasLaterDay(day), Passed' PROVE Passed
      OBVIOUS
    <3>2. \/ MonthNumber(t) - MonthNumber(day) > 23
          \/ MonthNumber(t) - MonthNumber(day) = 23 /\ t.d > day.d
      BY <2>1, <2>3, <3>1 DEF Passed, Age, t
    <3>3. \/ Age(today) > 23
          \/ Age(today) = 23 /\ today.d >= day.d
      <4>1. CASE MonthNumber(t) = MonthNumber(today) /\ t.d = today.d + 1
        BY <1>a, <3>2, <4>1 DEF Age
      <4>2. CASE /\ today.d = DaysIn(today.y, today.m)
                 /\ MonthNumber(t) = MonthNumber(today) + 1 /\ t.d = 1
        <5>1. MonthNumber(t) - MonthNumber(day) > 23
          BY <1>a, <3>2, <4>2
        <5>2. Age(today) > 23 \/ Age(today) = 23
          BY <1>a, <4>2, <5>1 DEF Age
        <5> QED
          BY <2>5, <3>1, <4>2, <5>2
      <4> QED
        BY <2>2, <4>1, <4>2
    <3>4. CASE Age(today) = 23 /\ today.d = day.d
      BY <2>1, <3>4 DEF Passed
    <3> QED
      BY <1>a, <3>3, <3>4 DEF Passed
  <2>7. Age(today) > 23 => Age(today)' > 23
    BY <1>a, <2>2, <2>3 DEF Age
  <2>8. Kept24'
    BY <1>0, <2>1, <2>6, <2>7 DEF Kept24
  <2> QED
    BY <2>4, <2>8 DEF AInv
<1> QED
  BY <1>1, <1>2, <1>3, <1>4, <1>5 DEF ArchiveNext

\* Types: the day that is followed stays one.
THEOREM ArchiveTypes == ArchiveSpec => []ArchiveTypeOK
<1>1. AInv => ArchiveTypeOK
  BY DEF AInv, DatesOK, ArchiveTypeOK
<1> QED
  BY <1>1, InitArchive, ArchiveInductive, PTL DEF ArchiveSpec

LEMMA KeptIsReported == AInv => DayReported
<1> SUFFICES ASSUME AInv PROVE DayReported
  OBVIOUS
<1>1. DatesOK /\ Kept24
  BY DEF AInv
<1>2. MinusMonths(today, 23) = Refreshed
  BY DEF Refreshed
<1>3. CASE Before(day, Refreshed)
  <2>1. HasLaterDay(day) /\ ~missed => archived
    BY <1>1, <1>3, BeforePassed DEF Kept24
  <2>2. archived => HasLaterDay(day)
    BY <1>1 DEF Kept24
  <2> QED
    BY <1>2, <1>3, <2>1, <2>2 DEF Reported, DayReported
<1>4. CASE ~Before(day, Refreshed)
  <2>1. detail
    BY <1>1, <1>4, BeforePassed DEF Kept24
  <2> QED
    BY <1>2, <1>4, <2>1 DEF Reported, DayReported
<1> QED
  BY <1>3, <1>4

\* Whatever the day, the years that are followed, the refreshes that fail and the
\* time at which its detail is deleted, a day is reported exactly once until the
\* view takes it from the archive; afterwards too if its month 23 has such a day
\* and no refresh of it failed; and if that month has no such day, never again.
THEOREM DaysAreReported == ArchiveSpec => []DayReported
BY InitArchive, ArchiveInductive, KeptIsReported, PTL DEF ArchiveSpec

-----------------------------------------------------------------------------
(* Together *)

\* A Vault with everything of a configuration is a store of Vault.
LEMMA DeployedStoreTyped == DeployedStore \in [Resources -> Bodies \union {Absent}]
<1>1. \A r \in Resources : EmptyStore[r] \in Bodies \union {Absent}
  BY EmptyStoreTyped
<1>2. \A put \in Range(Plan(Deployed)) : put.body \in Bodies
  BY DeployedIsPlannable, PlanShape DEF Range
<1>3. ASSUME NEW r \in Resources
      PROVE  DeployedStore[r] \in Bodies \union {Absent}
  <2>1. CASE \E put \in Range(Plan(Deployed)) : put.at = r
    <3>1. DeployedStore[r] = (CHOOSE put \in Range(Plan(Deployed)) : put.at = r).body
      BY <2>1 DEF DeployedStore
    <3>2. (CHOOSE put \in Range(Plan(Deployed)) : put.at = r) \in Range(Plan(Deployed))
      BY <2>1
    <3> QED
      BY <1>2, <3>1, <3>2
  <2>2. CASE ~ \E put \in Range(Plan(Deployed)) : put.at = r
    <3>1. DeployedStore[r] = EmptyStore[r]
      BY <2>2 DEF DeployedStore
    <3> QED
      BY <1>1, <3>1
  <2> QED
    BY <2>1, <2>2
<1> QED
  BY <1>3 DEF DeployedStore

\* Every part has what its own proofs rest on.
PartsInv == subject \in Subjects /\ TInv /\ SInv /\ RetryInv /\ LedgerInv /\ AInv

LEMMA InitParts == Init => PartsInv
<1> SUFFICES ASSUME Init PROVE PartsInv
  OBVIOUS
<1>1. subject \in Subjects /\ SInv /\ RetryInv /\ LedgerInv /\ AInv
  BY InitSmoke, InitRetry, InitLedger, InitArchive DEF Init
<1>2. DeployersIdle /\ store \in [Resources -> Bodies \union {Absent}]
  BY EmptyStoreTyped, DeployedStoreTyped DEF Init
<1>3. TInv
  BY <1>2, IdleTypes
<1> QED
  BY <1>1, <1>3 DEF PartsInv

\* A step of one part is a step of it, or none, for each of them.
LEMMA PartSteps ==
  [Next]_<<subject, vaultVars, retryVars, metricsVars, archiveVars>>
    => /\ UNCHANGED subject
       /\ [DeployNext]_deployVars
       /\ UNCHANGED smokeVars \/ [SmokeNext]_vaultVars
       /\ [RetryNext]_retryVars /\ [MetricsNext]_metricsVars /\ [ArchiveNext]_archiveVars
<1> SUFFICES ASSUME [Next]_<<subject, vaultVars, retryVars, metricsVars, archiveVars>>
             PROVE  /\ UNCHANGED subject
                    /\ [DeployNext]_deployVars
                    /\ UNCHANGED smokeVars \/ [SmokeNext]_vaultVars
                    /\ [RetryNext]_retryVars /\ [MetricsNext]_metricsVars
                    /\ [ArchiveNext]_archiveVars
  OBVIOUS
<1>1. CASE UNCHANGED <<subject, vaultVars, retryVars, metricsVars, archiveVars>>
  BY <1>1 DEF vaultVars
<1>2. CASE Next
  <2>1. ASSUME NEW choice, DeployOnly(choice)
        PROVE  DeployNext /\ UNCHANGED <<smokeVars, retryVars, metricsVars, archiveVars>>
    BY <2>1 DEF DeployOnly, DeployNext
  <2> QED
    BY <1>2, <2>1, SmokeDeploys DEF Next, vaultVars
<1> QED
  BY <1>1, <1>2

LEMMA PartsInductive ==
  PartsInv /\ [Next]_<<subject, vaultVars, retryVars, metricsVars, archiveVars>> => PartsInv'
<1> SUFFICES ASSUME PartsInv, [Next]_<<subject, vaultVars, retryVars, metricsVars, archiveVars>>
             PROVE  PartsInv'
  OBVIOUS
<1>1. SInv'
  <2>1. UNCHANGED smokeVars => SInv'
    BY SmokeStays DEF PartsInv, SInv, SmokeTypeOK, smokeVars
  <2> QED
    BY <2>1, PartSteps, SmokeInductive DEF PartsInv
<1>2. TInv' /\ RetryInv' /\ LedgerInv' /\ AInv' /\ UNCHANGED subject
  BY PartSteps, TypesInductive, RetryInductive, LedgerInductive, ArchiveInductive DEF PartsInv
<1> QED
  BY <1>1, <1>2 DEF PartsInv

\* Whatever the subject, every variable of the tools and of the references has
\* its type, a Vault that is deployed already included.
THEOREM TypesHold == Spec => []TypesOK
<1>1. PartsInv => TypesOK
  BY RetryIsTyped DEF PartsInv, TInv, SInv, LedgerInv, AInv, DatesOK, ArchiveTypeOK, TypesOK
<1> QED
  BY <1>1, InitParts, PartsInductive, PTL DEF Spec
=============================================================================
