-------------------------- MODULE ComplianceProofs --------------------------
(***************************************************************************)
(* Proofs about ComplianceWorker, for any roster, rules, leave, holidays   *)
(* and any bounds: types, that only what was done is committed, and that a *)
(* digest names only recorded violations.                                  *)
(*                                                                         *)
(* What holds a run together is its plan: every action of it is one for    *)
(* expectations of the snapshot that somebody has to meet (RunInv), and    *)
(* the branches come in an order in which a node behind the creation of    *)
(* violations finds all of the plan's on record (UpsertsRecorded).         *)
(***************************************************************************)
EXTENDS ComplianceWorker, FiniteSetTheorems, WellFoundedInduction, TLAPS

-----------------------------------------------------------------------------
(* Numbers *)

\* A set of numbers that is not empty has a least one.
LEMMA HasLeast ==
  ASSUME NEW T \in SUBSET Nat, T # {}
  PROVE  \E x \in T : \A y \in T : x <= y
<1>1. IsWellFoundedOn(OpToRel(<, Nat), Nat)
  BY NatLessThanWellFounded
<1>2. PICK x \in T : \A y \in T : ~(<<y, x>> \in OpToRel(<, Nat))
  BY <1>1, WFMin, Zenon
<1>3. SUFFICES ASSUME NEW y \in T PROVE x <= y
  OBVIOUS
<1>4. x \in Nat /\ y \in Nat
  OBVIOUS
<1>5. <<y, x>> \notin OpToRel(<, Nat)
  BY <1>2
<1>6. ~(y < x)
  BY <1>4, <1>5 DEF OpToRel
<1> QED
  BY <1>4, <1>6
-----------------------------------------------------------------------------
(* Expectations and ids *)

\* The expectations that somebody has to meet.
Expected(i) == {e \in Built[i] : e.state = "expected"}

LEMMA ApplicationShape ==
  ASSUME NEW i \in DOMAIN Inputs, NEW e \in Built[i]
  PROVE  \E member \in Inputs[i].roster, rule \in Inputs[i].rules :
           /\ Applies(rule, member) /\ <<member, rule>> \in Applications(Inputs[i])
           /\ e.user = member.user /\ e.pod = member.pod /\ e.date = CycleDay
           /\ e.type = rule.type /\ e.code = rule.code
           /\ e.due = LocalDue(CycleDay, member.zone, rule.at)
           /\ e.state = AttendanceState(member, CycleDay, Inputs[i])
           /\ e = [user |-> member.user, pod |-> member.pod, date |-> CycleDay,
                   type |-> rule.type, code |-> rule.code,
                   due |-> LocalDue(CycleDay, member.zone, rule.at),
                   state |-> AttendanceState(member, CycleDay, Inputs[i])]
<1>1. PICK mr \in Applications(Inputs[i]) :
        e = [user |-> mr[1].user, pod |-> mr[1].pod, date |-> CycleDay,
             type |-> mr[2].type, code |-> mr[2].code,
             due |-> LocalDue(CycleDay, mr[1].zone, mr[2].at),
             state |-> AttendanceState(mr[1], CycleDay, Inputs[i])]
  BY DEF Built, Expectations
<1>2. /\ mr[1] \in Inputs[i].roster /\ mr[2] \in Inputs[i].rules
      /\ Applies(mr[2], mr[1]) /\ mr = <<mr[1], mr[2]>>
  BY DEF Applications
<1> QED
  BY <1>1, <1>2

LEMMA BuiltShape ==
  ASSUME NEW i \in Usable, NEW e \in Built[i]
  PROVE  /\ e.user \in Nat /\ e.pod \in Nat /\ e.code \in Nat /\ e.due \in Int
         /\ e.date = CycleDay /\ e.type \in {"SOD", "EOD"}
<1>1. PICK member \in Inputs[i].roster, rule \in Inputs[i].rules :
        /\ e.user = member.user /\ e.pod = member.pod /\ e.date = CycleDay
        /\ e.type = rule.type /\ e.code = rule.code
        /\ e.due = LocalDue(CycleDay, member.zone, rule.at)
  BY ApplicationShape DEF Usable
<1>2. rule.type \in {"SOD", "EOD"}
  BY DEF Usable, Broken, BuildFails
<1>3. /\ member.user \in Nat /\ member.pod \in Nat /\ member.zone[CycleDay] \in Int
      /\ rule.code \in Nat /\ rule.at \in Int /\ CycleDay \in Int
  BY InputsAssumption DEF Usable
<1>4. LocalDue(CycleDay, member.zone, rule.at) \in Int
  BY <1>3, TimingAssumption DEF LocalDue
<1> QED
  BY <1>1, <1>2, <1>3, <1>4

LEMMA SlotIsKnown ==
  ASSUME NEW i \in DOMAIN Inputs, NEW e \in Built[i]
  PROVE  /\ e \in Slots /\ Key(e) \in Keys /\ Group(e) \in Groups /\ NudgeId(e) \in SlotIds
         /\ NudgeId(e) \in Ids /\ UpsertId(Key(e)) \in Ids /\ ResolutionId(Key(e)) \in Ids
         /\ EscalationId(Group(e)) \in Ids
BY DEF Slots, Keys, Groups, SlotIds, Ids

\* The ids of the four kinds of action differ, and name what they are about.
LEMMA IdsDiffer ==
  /\ \A e, k : NudgeId(e) # UpsertId(k) /\ NudgeId(e) # ResolutionId(k) /\ NudgeId(e) # EscalationId(k)
  /\ \A k, l : UpsertId(k) # ResolutionId(l) /\ UpsertId(k) # EscalationId(l)
                 /\ ResolutionId(k) # EscalationId(l)
  /\ \A k, l : (UpsertId(k) = UpsertId(l) => k = l) /\ (ResolutionId(k) = ResolutionId(l) => k = l)
                 /\ (EscalationId(k) = EscalationId(l) => k = l)
  /\ \A e, f : NudgeId(e) = NudgeId(f) => /\ e.user = f.user /\ Key(e) = Key(f) /\ e.code = f.code
  /\ \A e, f : Key(e) = Key(f) => e.user = f.user /\ e.date = f.date /\ e.type = f.type
BY DEF NudgeId, UpsertId, ResolutionId, EscalationId, Key

-----------------------------------------------------------------------------
(* What a run may plan *)

NudgeOf(e)     == [kind |-> "nudge", id |-> NudgeId(e), key |-> Key(e), rows |-> {e}]
UpsertOf(e)    == [kind |-> "upsert", id |-> UpsertId(Key(e)), key |-> Key(e), rows |-> {e}]
ResolveOf(e)   == [kind |-> "resolve", id |-> ResolutionId(Key(e)), key |-> Key(e), rows |-> {}]
DigestOf(g, R) == [kind |-> "digest", id |-> EscalationId(g), key |-> g, rows |-> R]

\* Action a is one for expectations of input i that somebody has to meet.
PlannedFor(a, i) ==
  \/ \E e \in Expected(i) : a = NudgeOf(e)
  \/ \E e \in Expected(i) : a = UpsertOf(e)
  \/ \E e \in Expected(i) : a = ResolveOf(e)
  \/ \E e \in Expected(i) : \E R \in SUBSET {f \in Expected(i) : Group(f) = Group(e)} :
       a = DigestOf(Group(e), R)

LEMMA PlannedKinds ==
  ASSUME NEW i, NEW a, PlannedFor(a, i)
  PROVE  /\ a.kind \in {"nudge", "upsert", "resolve", "digest"}
         /\ a.kind = "nudge" => \E e \in Expected(i) : a = NudgeOf(e)
         /\ a.kind = "upsert" => \E e \in Expected(i) : a = UpsertOf(e)
         /\ a.kind = "resolve" => \E e \in Expected(i) : a = ResolveOf(e)
         /\ a.kind = "digest" =>
              \E e \in Expected(i) : \E R \in SUBSET {f \in Expected(i) : Group(f) = Group(e)} :
                a = DigestOf(Group(e), R)
<1>1. \A e : NudgeOf(e).kind = "nudge" /\ UpsertOf(e).kind = "upsert" /\ ResolveOf(e).kind = "resolve"
  BY DEF NudgeOf, UpsertOf, ResolveOf
<1>2. \A g, R : DigestOf(g, R).kind = "digest"
  BY DEF DigestOf
<1> QED
  BY <1>1, <1>2 DEF PlannedFor

LEMMA PlannedShape ==
  ASSUME NEW i, NEW a, PlannedFor(a, i)
  PROVE  /\ a.kind = "nudge" => \E e \in Expected(i) : a.id = NudgeId(e) /\ a.key = Key(e)
         /\ a.kind = "upsert" =>
              \E e \in Expected(i) : a = UpsertOf(e) /\ a.id = UpsertId(a.key) /\ a.key = Key(e)
         /\ a.kind = "resolve" =>
              \E e \in Expected(i) : a.id = ResolutionId(a.key) /\ a.key = Key(e)
         /\ a.kind = "digest" =>
              \E e \in Expected(i) : /\ a.id = EscalationId(a.key) /\ a.key = Group(e)
                                     /\ a.rows \subseteq {f \in Expected(i) : Group(f) = a.key}
<1>1. \A e : /\ NudgeOf(e).id = NudgeId(e) /\ NudgeOf(e).key = Key(e)
             /\ UpsertOf(e).id = UpsertId(UpsertOf(e).key) /\ UpsertOf(e).key = Key(e)
             /\ ResolveOf(e).id = ResolutionId(ResolveOf(e).key) /\ ResolveOf(e).key = Key(e)
  BY DEF NudgeOf, UpsertOf, ResolveOf
<1>2. \A g, R : DigestOf(g, R).id = EscalationId(g) /\ DigestOf(g, R).key = g /\ DigestOf(g, R).rows = R
  BY DEF DigestOf
<1>3. a.kind = "digest" =>
        \E e \in Expected(i) : /\ a.id = EscalationId(a.key) /\ a.key = Group(e)
                               /\ a.rows \subseteq {f \in Expected(i) : Group(f) = a.key}
  BY <1>2, PlannedKinds
<1>4. a.kind = "nudge" => \E e \in Expected(i) : a.id = NudgeId(e) /\ a.key = Key(e)
  BY <1>1, PlannedKinds
<1>5. a.kind = "upsert" =>
        \E e \in Expected(i) : a = UpsertOf(e) /\ a.id = UpsertId(a.key) /\ a.key = Key(e)
  BY <1>1, PlannedKinds
<1>6. a.kind = "resolve" => \E e \in Expected(i) : a.id = ResolutionId(a.key) /\ a.key = Key(e)
  BY <1>1, PlannedKinds
<1> QED
  BY <1>3, <1>4, <1>5, <1>6

LEMMA PlannedIds ==
  ASSUME NEW i \in DOMAIN Inputs, NEW a, PlannedFor(a, i)
  PROVE  a.id \in Ids
<1>1. \A e \in Expected(i) : e \in Built[i]
  BY DEF Expected
<1> QED
  BY <1>1, PlannedKinds, PlannedShape, SlotIsKnown
-----------------------------------------------------------------------------
(* The first item of a node *)

\* The parts that order an id: user or pod, day, type, and code if there is one.
Ordered(a, n) ==
  /\ DOMAIN a.id[2] = 1..n
  /\ a.id[2][1] \in Nat /\ a.id[2][2] = CycleDay /\ a.id[2][3] \in {"SOD", "EOD"}
  /\ n = 4 => a.id[2][4] \in Nat

LEMMA PrecedesIf ==
  ASSUME NEW a, NEW b, NEW n \in {3, 4}, Ordered(a, n), Ordered(b, n),
         a.id[2][1] <= b.id[2][1],
         a.id[2][1] = b.id[2][1] => a.id[2][3] = b.id[2][3] \/ a.id[2][3] = "EOD",
         a.id[2][1] = b.id[2][1] /\ a.id[2][3] = b.id[2][3] /\ n = 4 => a.id[2][4] <= b.id[2][4]
  PROVE  Precedes(a, b)
<1> DEFINE x == a.id[2]
           y == b.id[2]
           differ == {j \in DOMAIN x : x[j] # y[j]}
           first == CHOOSE j \in differ : \A l \in differ : j <= l
<1>1. SUFFICES ASSUME differ # {}
               PROVE  IF first = 3 THEN x[3] = "EOD" ELSE x[first] < y[first]
  BY DEF Precedes
<1>2. /\ DOMAIN x = 1..n /\ x[2] = y[2] /\ x[1] \in Nat /\ y[1] \in Nat /\ x[1] <= y[1]
      /\ x[1] = y[1] => x[3] = y[3] \/ x[3] = "EOD"
      /\ n = 4 => x[4] \in Nat /\ y[4] \in Nat
      /\ x[1] = y[1] /\ x[3] = y[3] /\ n = 4 => x[4] <= y[4]
  BY DEF Ordered
<1> HIDE DEF x, y
<1>3. differ \subseteq {1, 3, 4} /\ (4 \in differ => n = 4)
  BY <1>2
<1>4. ASSUME NEW j \in differ, \A l \in differ : j <= l PROVE first = j
  <2>1. first \in differ /\ \A l \in differ : first <= l
    BY <1>4
  <2>2. first <= j /\ j <= first
    BY <1>4, <2>1
  <2> QED
    BY <1>3, <2>1, <2>2
<1>5. CASE 1 \in differ
  <2>1. \A l \in differ : 1 <= l
    BY <1>3
  <2>2. first = 1
    BY <1>4, <1>5, <2>1
  <2>3. x[1] # y[1]
    BY <1>5
  <2> QED
    BY <1>2, <2>2, <2>3
<1>6. CASE 1 \notin differ /\ 3 \in differ
  <2>1. \A l \in differ : 3 <= l
    BY <1>3, <1>6
  <2>2. first = 3
    BY <1>4, <1>6, <2>1
  <2>3. x[1] = y[1] /\ x[3] # y[3]
    BY <1>2, <1>6
  <2> QED
    BY <1>2, <2>2, <2>3
<1>7. CASE 1 \notin differ /\ 3 \notin differ
  <2>1. 4 \in differ /\ n = 4 /\ \A l \in differ : 4 <= l
    BY <1>1, <1>3, <1>7
  <2>2. first = 4
    BY <1>4, <2>1
  <2>3. x[1] = y[1] /\ x[3] = y[3] /\ x[4] # y[4]
    BY <1>2, <1>7, <2>1
  <2>4. x[4] <= y[4] /\ x[4] \in Nat /\ y[4] \in Nat
    BY <1>2, <2>1, <2>3
  <2>5. x[4] < y[4]
    BY <2>3, <2>4
  <2> HIDE DEF first
  <2> QED
    BY <2>2, <2>5
<1> QED
  BY <1>5, <1>6, <1>7

LEMMA FirstOfOrdered ==
  ASSUME NEW S, S # {}, NEW n \in {3, 4}, \A a \in S : Ordered(a, n)
  PROVE  First(S) \in S
<1>1. PICK u \in {a.id[2][1] : a \in S} : \A v \in {a.id[2][1] : a \in S} : u <= v
  <2>1. {a.id[2][1] : a \in S} \subseteq Nat /\ {a.id[2][1] : a \in S} # {}
    BY DEF Ordered
  <2> QED
    BY <2>1, HasLeast
<1> DEFINE S1 == {a \in S : a.id[2][1] = u}
           Ends == {a \in S1 : a.id[2][3] = "EOD"}
           S2 == IF Ends = {} THEN S1 ELSE Ends
<1>2. S1 # {}
  BY <1>1
<1>3. /\ S2 # {} /\ S2 \subseteq S1
      /\ \A a \in S2, b \in S1 : a.id[2][3] = b.id[2][3] \/ a.id[2][3] = "EOD"
      /\ \A a \in S2, b \in S1 : a.id[2][3] = b.id[2][3] => b \in S2
  BY <1>2 DEF Ordered
<1> HIDE DEF S2
<1>4. PICK m \in S2 : n = 4 => \A b \in S2 : m.id[2][4] <= b.id[2][4]
  <2>1. CASE n = 3
    BY <1>3, <2>1
  <2>2. CASE n = 4
    <3>1. {a.id[2][4] : a \in S2} \subseteq Nat /\ {a.id[2][4] : a \in S2} # {}
      BY <1>3, <2>2 DEF Ordered
    <3>2. PICK c \in {a.id[2][4] : a \in S2} : \A d \in {a.id[2][4] : a \in S2} : c <= d
      BY <3>1, HasLeast
    <3>3. PICK m \in S2 : m.id[2][4] = c
      OBVIOUS
    <3>4. \A b \in S2 : m.id[2][4] <= b.id[2][4]
      BY <3>2, <3>3
    <3> QED
      BY <3>4
  <2> QED
    BY <2>1, <2>2
<1>5. ASSUME NEW b \in S PROVE Precedes(m, b)
  <2>1. m \in S /\ m.id[2][1] = u
    BY <1>3
  <2>2. Ordered(m, n) /\ Ordered(b, n)
    BY <2>1
  <2>3. m.id[2][1] <= b.id[2][1]
    BY <1>1, <2>1
  <2>4. m.id[2][1] = b.id[2][1] => b \in S1
    BY <2>1
  <2>5. m.id[2][1] = b.id[2][1] => m.id[2][3] = b.id[2][3] \/ m.id[2][3] = "EOD"
    BY <1>3, <2>4
  <2>6. m.id[2][1] = b.id[2][1] /\ m.id[2][3] = b.id[2][3] /\ n = 4 => m.id[2][4] <= b.id[2][4]
    BY <1>3, <1>4, <2>4
  <2> QED
    BY <2>2, <2>3, <2>5, <2>6, PrecedesIf
<1>6. m \in S /\ \A b \in S : Precedes(m, b)
  BY <1>3, <1>5
<1> QED
  BY <1>6 DEF First

\* Items of one node are ordered.
LEMMA ItemsOrdered ==
  ASSUME NEW i \in Usable, NEW a, PlannedFor(a, i)
  PROVE  Ordered(a, IF a.kind = "nudge" THEN 4 ELSE 3)
<1>1. \A e \in Expected(i) :
        /\ e.user \in Nat /\ e.pod \in Nat /\ e.code \in Nat
        /\ e.date = CycleDay /\ e.type \in {"SOD", "EOD"}
  BY BuiltShape DEF Expected
<1>2. CASE a.kind = "nudge"
  <2>1. PICK e \in Expected(i) : a.id = NudgeId(e)
    BY <1>2, PlannedShape
  <2>2. a.id[2] = <<e.user, e.date, e.type, e.code>>
    BY <2>1 DEF NudgeId
  <2> QED
    BY <1>1, <1>2, <2>2 DEF Ordered
<1>3. CASE a.kind \in {"upsert", "resolve"}
  <2>1. PICK e \in Expected(i) : a.key = Key(e) /\ a.id \in {UpsertId(a.key), ResolutionId(a.key)}
    BY <1>3, PlannedShape
  <2>2. a.id[2] = <<e.user, e.date, e.type>>
    BY <2>1 DEF UpsertId, ResolutionId, Key
  <2> QED
    BY <1>1, <1>3, <2>2 DEF Ordered
<1>4. CASE a.kind = "digest"
  <2>1. PICK e \in Expected(i) : a.id = EscalationId(Group(e))
    BY <1>4, PlannedShape
  <2>2. a.id[2] = <<e.pod, e.date, e.type>>
    BY <2>1 DEF EscalationId, Group
  <2> QED
    BY <1>1, <1>4, <2>2 DEF Ordered
<1> QED
  BY <1>2, <1>3, <1>4, PlannedKinds

\* Of some items of a node one is committed, and nothing else.
LEMMA CommitsOne ==
  ASSUME NEW i \in Usable, NEW S, NEW kind,
         \A a \in S : PlannedFor(a, i) /\ a.kind = kind
  PROVE  /\ S = {} => Commit(S) = {}
         /\ S # {} => \E a \in S : Commit(S) = {a.id}
<1>1. ASSUME S # {} PROVE First(S) \in S
  <2>1. \A a \in S : Ordered(a, IF kind = "nudge" THEN 4 ELSE 3)
    BY ItemsOrdered
  <2>2. (IF kind = "nudge" THEN 4 ELSE 3) \in {3, 4}
    OBVIOUS
  <2> QED
    BY <1>1, <2>1, <2>2, FirstOfOrdered
<1> QED
  BY <1>1 DEF Commit
-----------------------------------------------------------------------------
(* Types *)

\* TypeOK in parts: the world, the saved ids, the run.
WorldOK ==
  /\ clock \in 0..Horizon
  /\ checkins \in [Keys -> {"none", "on_time", "late"}]
  /\ violations \in [Keys -> {"none", "open", "resolved", "waived"}]
  /\ nudged \in [SlotIds -> 0..MaxSent]
  /\ digested \in [Groups -> 0..MaxSent]
  /\ troubles \in Nat

SavedOK == static \subseteq Ids /\ Cardinality(static) <= KeepIds /\ evicted \in BOOLEAN

RunOK ==
  /\ staged \subseteq {a.id : a \in plan}
  /\ at \in RunPhases
  /\ missing \subseteq plan
  /\ tries \in 1..MaxTries

LEMMA TypeParts ==
  /\ TypeOK <=> WorldOK /\ SavedOK /\ RunOK
  /\ TypeOK' <=> WorldOK' /\ SavedOK' /\ RunOK'
BY DEF TypeOK, WorldOK, SavedOK, RunOK

\* What a run holds at each node: nothing when there is none; from its plan on,
\* actions for expectations of a usable input; the violations it did not find
\* only behind the node that looks for them.
Working == at \notin {"idle", "plan"}

RunInv ==
  /\ at \in {"idle", "plan"} => plan = {}
  /\ at # "idle" => /\ snapshot.input \in DOMAIN Inputs
                    /\ DOMAIN snapshot = {"input", "accepted", "status", "now"}
  /\ at = "idle" => snapshot = NoSnapshot
  /\ Working => snapshot.input \in Usable /\ \A a \in plan : PlannedFor(a, snapshot.input)
  /\ missing \subseteq Of("upsert", plan)
  /\ at \in {"nudge", "find"} => missing = {}

SourcesOK == sources \in DOMAIN Inputs

TInv == TypeOK /\ RunInv /\ SourcesOK

-----------------------------------------------------------------------------
(* Where a run goes *)

LEMMA Places ==
  /\ Len(Nodes) = 5 /\ DOMAIN Nodes = 1..5
  /\ Nodes[1] = "nudge" /\ Nodes[2] = "find" /\ Nodes[3] = "create"
  /\ Nodes[4] = "resolve" /\ Nodes[5] = "digest"
  /\ Position("nudge") = 1 /\ Position("find") = 2 /\ Position("create") = 3
  /\ Position("resolve") = 4 /\ Position("digest") = 5
  /\ RunPhases = {"idle", "plan", "nudge", "find", "create", "resolve", "digest", "end"}
<1>1. /\ Len(Nodes) = 5 /\ DOMAIN Nodes = 1..5
      /\ Nodes[1] = "nudge" /\ Nodes[2] = "find" /\ Nodes[3] = "create"
      /\ Nodes[4] = "resolve" /\ Nodes[5] = "digest"
  BY DEF Nodes
<1>2. 1..5 = {1, 2, 3, 4, 5}
  OBVIOUS
<1>3. \A j \in DOMAIN Nodes : /\ Nodes[j] = "nudge" <=> j = 1
                              /\ Nodes[j] = "find" <=> j = 2
                              /\ Nodes[j] = "create" <=> j = 3
                              /\ Nodes[j] = "resolve" <=> j = 4
                              /\ Nodes[j] = "digest" <=> j = 5
  BY <1>1, <1>2
<1>4. /\ Position("nudge") = 1 /\ Position("find") = 2 /\ Position("create") = 3
      /\ Position("resolve") = 4 /\ Position("digest") = 5
  BY <1>1, <1>2, <1>3 DEF Position
<1>5. RunPhases = {"idle", "plan", "nudge", "find", "create", "resolve", "digest", "end"}
  BY <1>1, <1>2 DEF RunPhases
<1> QED
  BY <1>1, <1>4, <1>5

\* The run goes on at a later node that has items, and those it passes have none.
LEMMA GoesOn ==
  ASSUME NEW i \in 0..5, NEW acts, NEW miss, GoOn(i, acts, miss)
  PROVE  /\ plan' = acts /\ missing' = miss /\ tries' = 1
         /\ \E n \in (i + 1)..6 :
              /\ at' = IF n = 6 THEN "end" ELSE Nodes[n]
              /\ n # 6 => ItemsAt(Nodes[n], acts, miss) # {}
              /\ \A j \in (i + 1)..5 : j < n => ItemsAt(Nodes[j], acts, miss) = {}
<1> DEFINE next == {j \in (i + 1)..Len(Nodes) : ItemsAt(Nodes[j], acts, miss) # {}}
           n0 == CHOOSE j \in next : \A l \in next : j <= l
<1>1. /\ at' = IF next = {} THEN "end" ELSE Nodes[n0]
      /\ plan' = acts /\ missing' = miss /\ tries' = 1
  BY DEF GoOn
<1>2. Len(Nodes) = 5
  BY Places
<1>3. CASE next = {}
  <2>1. at' = "end" /\ \A j \in (i + 1)..5 : ItemsAt(Nodes[j], acts, miss) = {}
    BY <1>1, <1>2, <1>3
  <2>2. 6 \in (i + 1)..6
    OBVIOUS
  <2> QED
    BY <1>1, <2>1, <2>2
<1>4. CASE next # {}
  <2>1. next \in SUBSET Nat /\ next \subseteq (i + 1)..5
    BY <1>2
  <2>2. \E j \in next : \A l \in next : j <= l
    BY <1>4, <2>1, HasLeast
  <2>3. n0 \in next /\ \A l \in next : n0 <= l
    BY <2>2
  <2> HIDE DEF n0
  <2>7. ItemsAt(Nodes[n0], acts, miss) # {}
    BY <2>3
  <2>8. n0 \in (i + 1)..5
    <3> HIDE DEF next
    <3> QED
      BY <2>1, <2>3
  <2>4. n0 \in (i + 1)..6 /\ n0 # 6 /\ ItemsAt(Nodes[n0], acts, miss) # {}
    BY <2>7, <2>8
  <2>5. ASSUME NEW j \in (i + 1)..5, j < n0 PROVE ItemsAt(Nodes[j], acts, miss) = {}
    <3>1. j \notin next
      BY <2>3, <2>4, <2>5
    <3> QED
      BY <1>2, <3>1
  <2>6. at' = Nodes[n0]
    BY <1>1, <1>4
  <2> HIDE DEF next
  <2> QED
    BY <1>1, <2>4, <2>5, <2>6
<1> QED
  BY <1>3, <1>4

\* The same, by the names of the nodes.
LEMMA GoesOnTo ==
  ASSUME NEW i \in 0..5, NEW acts, NEW miss, GoOn(i, acts, miss)
  PROVE  /\ plan' = acts /\ missing' = miss /\ tries' = 1
         /\ at' \in {"nudge", "find", "create", "resolve", "digest", "end"}
         /\ at' = "nudge" => i = 0
         /\ at' = "find" => i <= 1
         /\ at' = "create" => i <= 2 /\ miss # {}
         /\ i <= 1 /\ at' \notin {"nudge", "find"} => Of("upsert", acts) = {}
         /\ i <= 2 /\ at' \notin {"nudge", "find", "create"} => miss = {}
<1>1. PICK n \in (i + 1)..6 :
        /\ at' = IF n = 6 THEN "end" ELSE Nodes[n]
        /\ n # 6 => ItemsAt(Nodes[n], acts, miss) # {}
        /\ \A j \in (i + 1)..5 : j < n => ItemsAt(Nodes[j], acts, miss) = {}
  BY GoesOn
<1>2. plan' = acts /\ missing' = miss /\ tries' = 1
  BY GoesOn
<1>3. /\ ItemsAt("find", acts, miss) = Of("upsert", acts)
      /\ ItemsAt("create", acts, miss) = miss
  BY DEF ItemsAt
<1>4. n \in {1, 2, 3, 4, 5, 6}
  OBVIOUS
<1>5. /\ n = 1 => at' = "nudge"
      /\ n = 2 => at' = "find"
      /\ n = 3 => at' = "create" /\ miss # {}
      /\ n = 4 => at' = "resolve"
      /\ n = 5 => at' = "digest"
      /\ n = 6 => at' = "end"
  BY <1>1, <1>3, Places
<1>6. n > 2 /\ i <= 1 => Of("upsert", acts) = {}
  <2>1. n > 2 /\ i <= 1 => ItemsAt(Nodes[2], acts, miss) = {}
    BY <1>1
  <2> QED
    BY <1>3, <2>1, Places
<1>7. n > 3 /\ i <= 2 => miss = {}
  <2>1. n > 3 /\ i <= 2 => ItemsAt(Nodes[3], acts, miss) = {}
    BY <1>1
  <2> QED
    BY <1>3, <2>1, Places
<1> QED
  BY <1>2, <1>4, <1>5, <1>6, <1>7

\* The items of a node are planned and of one kind.
Kind(node) == IF node \in {"find", "create"} THEN "upsert" ELSE node

LEMMA ItemsPlanned ==
  ASSUME RunInv, at \in {"nudge", "find", "create", "resolve", "digest"}
  PROVE  /\ snapshot.input \in Usable /\ Items \subseteq plan
         /\ \A a \in Items : PlannedFor(a, snapshot.input) /\ a.kind = Kind(at)
<1>1. /\ snapshot.input \in Usable /\ \A a \in plan : PlannedFor(a, snapshot.input)
      /\ missing \subseteq Of("upsert", plan)
  BY DEF RunInv, Working
<1>2. Items \subseteq Of(Kind(at), plan)
  BY <1>1 DEF Items, ItemsAt, Kind
<1> QED
  BY <1>1, <1>2 DEF Of

LEMMA CommitsItem ==
  ASSUME RunInv, at \in {"nudge", "find", "create", "resolve", "digest"},
         NEW S \in SUBSET Of(Kind(at), plan)
  PROVE  \A i \in Commit(S) : \E a \in S : i = a.id
<1>1. /\ snapshot.input \in Usable /\ \A a \in plan : PlannedFor(a, snapshot.input)
  BY DEF RunInv, Working
<1>2. \A a \in S : PlannedFor(a, snapshot.input) /\ a.kind = Kind(at)
  BY <1>1 DEF Of
<1>3. S = {} => Commit(S) = {}
  BY <1>1, <1>2, CommitsOne
<1>4. S # {} => \E a \in S : Commit(S) = {a.id}
  BY <1>1, <1>2, CommitsOne
<1> QED
  BY <1>3, <1>4
-----------------------------------------------------------------------------
(* How the ways to leave a node keep the types *)

LEMMA RunKept ==
  ASSUME UNCHANGED runVars
  PROVE  (RunOK => RunOK') /\ (RunInv => RunInv')
BY DEF runVars, RunOK, RunInv, Working, RunPhases, Of, NoSnapshot, Usable, PlannedFor

LEMMA StagedKnown ==
  ASSUME RunOK, RunInv
  PROVE  staged \subseteq Ids
<1>1. staged \subseteq {a.id : a \in plan}
  BY DEF RunOK
<1>2. \A a \in plan : PlannedFor(a, snapshot.input) /\ snapshot.input \in DOMAIN Inputs
  BY DEF RunInv, Working, Usable
<1>3. \A a \in plan : a.id \in Ids
  BY <1>2, PlannedIds
<1> QED
  BY <1>1, <1>3

LEMMA SaveKeepsTypes ==
  ASSUME SavedOK, RunOK, RunInv, Save
  PROVE  SavedOK' /\ static' \subseteq static \cup staged
<1>1. PICK K \in KeptFrom(static \cup staged) :
        static' = K /\ evicted' = (evicted \/ K # static \cup staged)
  BY DEF Save
<1>2. /\ K \subseteq static \cup staged
      /\ Cardinality(K) = IF Cardinality(static \cup staged) <= KeepIds
                            THEN Cardinality(static \cup staged) ELSE KeepIds
  BY DEF KeptFrom
<1>3. Cardinality(K) <= KeepIds
  <2>1. KeepIds <= KeepIds
    BY BoundsAssumption
  <2> QED
    BY <1>2, <2>1
<1>4. evicted' \in BOOLEAN
  BY <1>1
<1>5. static' \subseteq Ids
  BY <1>1, <1>2, StagedKnown DEF SavedOK
<1> QED
  BY <1>1, <1>2, <1>3, <1>4, <1>5 DEF SavedOK

LEMMA EndRunKeepsTypes ==
  ASSUME EndRun
  PROVE  RunOK' /\ RunInv'
<1>1. /\ at' = "idle" /\ snapshot' = NoSnapshot /\ plan' = {} /\ missing' = {}
      /\ tries' = 1 /\ staged' = {}
  BY DEF EndRun
<1>2. 1 \in 1..MaxTries /\ "idle" \in RunPhases
  BY BoundsAssumption DEF RunPhases
<1>3. RunOK'
  BY <1>1, <1>2 DEF RunOK, RunPhases
<1>4. RunInv'
  BY <1>1 DEF RunInv, Working, Of, NoSnapshot
<1> QED
  BY <1>3, <1>4

LEMMA FailRunKeepsTypes ==
  ASSUME SavedOK, RunOK, RunInv, FailRun
  PROVE  /\ SavedOK' /\ RunOK' /\ RunInv'
         /\ static' \subseteq static \cup staged /\ at' = "idle" /\ plan' = {} /\ staged' = {}
<1>1. EndRun /\ at' = "idle" /\ plan' = {} /\ staged' = {}
  BY DEF FailRun, EndRun
<1>2. RunOK' /\ RunInv'
  BY <1>1, EndRunKeepsTypes
<1>3. CASE Save
  BY <1>1, <1>2, <1>3, SaveKeepsTypes
<1>4. CASE UNCHANGED <<static, evicted>>
  BY <1>1, <1>2, <1>4 DEF SavedOK
<1> QED
  BY <1>3, <1>4 DEF FailRun

LEMMA RetryKeepsTypes ==
  ASSUME SavedOK, RunOK, RunInv, RetryOrFail
  PROVE  /\ SavedOK' /\ RunOK' /\ RunInv' /\ static' \subseteq static \cup staged
         /\ \/ UNCHANGED <<at, snapshot, plan, missing, staged>>
            \/ at' = "idle" /\ plan' = {} /\ staged' = {}
<1>1. CASE FailRun
  BY <1>1, FailRunKeepsTypes
<1>2. CASE /\ tries < MaxTries /\ tries' = tries + 1
           /\ UNCHANGED <<at, snapshot, plan, missing, staged, static, evicted>>
  <2>1. tries' \in 1..MaxTries
    BY <1>2, BoundsAssumption DEF RunOK
  <2>2. RunOK'
    BY <1>2, <2>1 DEF RunOK, RunPhases
  <2>3. RunInv'
    BY <1>2 DEF RunInv, Working, Of
  <2>4. SavedOK'
    BY <1>2 DEF SavedOK
  <2> QED
    BY <1>2, <2>2, <2>3, <2>4
<1> QED
  BY <1>1, <1>2 DEF RetryOrFail

\* The nodes between the plan and the end.
AtNode == at \in {"nudge", "find", "create", "resolve", "digest"}

LEMMA LeaveKeepsTypes ==
  ASSUME RunOK, RunInv, AtNode, Leave, staged' \subseteq staged \cup {a.id : a \in plan}
  PROVE  /\ RunOK' /\ RunInv' /\ UNCHANGED <<plan, missing, snapshot>>
         /\ at' \in {"find", "create", "resolve", "digest", "end"}
         /\ at' = "find" => at = "nudge"
         /\ at' = "create" => at \in {"nudge", "find"} /\ missing # {}
         /\ at = "nudge" /\ at' # "find" => Of("upsert", plan) = {}
<1>1. /\ at = "nudge" => Position(at) = 1
      /\ at = "find" => Position(at) = 2
      /\ at = "create" => Position(at) = 3
      /\ at = "resolve" => Position(at) = 4
      /\ at = "digest" => Position(at) = 5
  BY Places
<1>2. Position(at) \in 1..5
  BY <1>1 DEF AtNode
<1>3. /\ plan' = plan /\ missing' = missing /\ tries' = 1 /\ snapshot' = snapshot
      /\ at' \in {"nudge", "find", "create", "resolve", "digest", "end"}
      /\ at' # "nudge"
      /\ at' = "find" => Position(at) <= 1
      /\ at' = "create" => Position(at) <= 2 /\ missing # {}
      /\ Position(at) <= 1 /\ at' \notin {"nudge", "find"} => Of("upsert", plan) = {}
  <2>1. GoOn(Position(at), plan, missing) /\ Position(at) \in 0..5 /\ Position(at) # 0
    BY <1>2 DEF Leave
  <2> QED
    BY <2>1, GoesOnTo DEF Leave
<1>4. at' = "find" => at = "nudge"
  BY <1>1, <1>3 DEF AtNode
<1>5. at' = "create" => at \in {"nudge", "find"}
  BY <1>1, <1>3 DEF AtNode
<1>6. 1 \in 1..MaxTries /\ at' \in RunPhases
  BY <1>3, BoundsAssumption, Places
<1>7. RunOK'
  BY <1>3, <1>6 DEF RunOK, RunPhases
<1>8. RunInv'
  BY <1>3, <1>4 DEF RunInv, Working, Of, AtNode
<1>9. at = "nudge" => Position(at) = 1
  BY <1>1
<1> QED
  BY <1>3, <1>4, <1>5, <1>7, <1>8, <1>9
-----------------------------------------------------------------------------
(* What the nodes write *)

LEMMA OneMoreCounts ==
  ASSUME NEW n \in 0..MaxSent
  PROVE  OneMore(n) \in 0..MaxSent /\ OneMore(n) > 0
BY BoundsAssumption DEF OneMore

LEMMA NudgeWrites ==
  ASSUME nudged \in [SlotIds -> 0..MaxSent], NEW S, Nudge(S)
  PROVE  /\ nudged' \in [SlotIds -> 0..MaxSent]
         /\ \A i \in SlotIds : nudged[i] > 0 \/ (\E a \in S : a.id = i) => nudged'[i] > 0
         /\ \A i \in SlotIds : (\A a \in S : a.id # i) => nudged'[i] = nudged[i]
<1>1. nudged' = [i \in SlotIds |-> IF \E a \in S : a.id = i THEN OneMore(nudged[i]) ELSE nudged[i]]
  BY DEF Nudge
<1>2. \A i \in SlotIds : /\ nudged[i] \in 0..MaxSent
                         /\ OneMore(nudged[i]) \in 0..MaxSent /\ OneMore(nudged[i]) > 0
  BY OneMoreCounts
<1> QED
  BY <1>1, <1>2

LEMMA DigestWrites ==
  ASSUME digested \in [Groups -> 0..MaxSent], NEW S, Digest(S)
  PROVE  /\ digested' \in [Groups -> 0..MaxSent]
         /\ \A g \in Groups : digested[g] > 0 \/ (\E a \in S : a.key = g) => digested'[g] > 0
         /\ \A g \in Groups : \A e \in named'[g] :
              e \in named[g] \/ \E a \in S : a.key = g /\ e \in a.rows
<1>1. digested' = [g \in Groups |-> IF \E a \in S : a.key = g THEN OneMore(digested[g])
                                      ELSE digested[g]]
  BY DEF Digest
<1>2. \A g \in Groups : /\ digested[g] \in 0..MaxSent
                        /\ OneMore(digested[g]) \in 0..MaxSent /\ OneMore(digested[g]) > 0
  BY OneMoreCounts
<1>3. named' = [g \in Groups |-> named[g] \cup UNION {a.rows : a \in {a \in S : a.key = g}}]
  BY DEF Digest
<1>4. \A g \in Groups : \A e \in named'[g] :
        e \in named[g] \/ \E a \in S : a.key = g /\ e \in a.rows
  BY <1>3
<1> QED
  BY <1>1, <1>2, <1>4

Statuses == {"none", "open", "resolved", "waived"}

LEMMA OpenWrites ==
  ASSUME violations \in [Keys -> Statuses], NEW S, Open(S)
  PROVE  /\ violations' \in [Keys -> Statuses]
         /\ \A k \in Keys : violations[k] # "none" => violations'[k] = violations[k]
         /\ \A k \in Keys : (\E a \in S : a.key = k) => violations'[k] # "none"
         /\ \A k \in Keys : (\A a \in S : a.key # k) => violations'[k] = violations[k]
<1>1. violations' = [k \in Keys |-> IF violations[k] = "none" /\ \E a \in S : a.key = k
                                      THEN "open" ELSE violations[k]]
  BY DEF Open
<1> QED
  BY <1>1 DEF Statuses

LEMMA CloseWrites ==
  ASSUME violations \in [Keys -> Statuses], NEW S, Close(S)
  PROVE  /\ violations' \in [Keys -> Statuses]
         /\ \A k \in Keys : violations[k] = "resolved" \/ (\E a \in S : a.key = k)
                              => violations'[k] = "resolved"
         /\ \A k \in Keys : (\A a \in S : a.key # k) => violations'[k] = violations[k]
         /\ \A k \in Keys : violations'[k] \in {violations[k], "resolved"}
<1>1. violations' = [k \in Keys |-> IF \E a \in S : a.key = k THEN "resolved" ELSE violations[k]]
  BY DEF Close
<1> QED
  BY <1>1 DEF Statuses

-----------------------------------------------------------------------------
(* What a plan holds *)

LEMMA PlanIsPlanned ==
  ASSUME NEW i, NEW accepted, NEW status, NEW now, NEW committed,
         NEW a \in PlanComplianceActions(Built[i], accepted, status, now, committed)
  PROVE  PlannedFor(a, i)
<1>1. \A e \in Built[i] : Missing(e, accepted) => e \in Expected(i)
  BY DEF Missing, Expected
<1>2. CASE a \in Nudges(Built[i], accepted, now, committed)
  BY <1>1, <1>2 DEF Nudges, PlannedFor, NudgeOf
<1>3. CASE a \in Upserts(Built[i], accepted, status, now, committed)
  BY <1>1, <1>3 DEF Upserts, Breached, PlannedFor, UpsertOf
<1>4. CASE a \in Resolutions(Built[i], accepted, status, committed)
  BY <1>4 DEF Resolutions, PlannedFor, ResolveOf, Expected
<1>5. CASE a \in Digests(Built[i], accepted, status, now, committed)
  <2> DEFINE overdue == Overdue(Built[i], accepted, status, now)
  <2>1. overdue \subseteq Expected(i)
    BY <1>1 DEF Overdue, Breached
  <2>2. PICK g \in {Group(e) : e \in overdue} :
          a = [kind |-> "digest", id |-> EscalationId(g), key |-> g,
               rows |-> {e \in overdue : Group(e) = g}]
    BY <1>5 DEF Digests
  <2>3. PICK e \in overdue : g = Group(e)
    BY <2>2
  <2> HIDE DEF overdue
  <2>4. {f \in overdue : Group(f) = g} \in SUBSET {f \in Expected(i) : Group(f) = Group(e)}
    BY <2>1, <2>3
  <2>5. a = DigestOf(Group(e), {f \in overdue : Group(f) = g})
    BY <2>2, <2>3 DEF DigestOf
  <2> QED
    BY <2>1, <2>4, <2>5 DEF PlannedFor
<1> QED
  BY <1>2, <1>3, <1>4, <1>5 DEF PlanComplianceActions
-----------------------------------------------------------------------------
(* The types are inductive *)

LEMMA EnvironmentTypes ==
  ASSUME TInv, Environment
  PROVE  TInv'
<1>1. TypeOK /\ WorldOK /\ SavedOK /\ RunOK /\ RunInv /\ SourcesOK
  BY TypeParts DEF TInv
<1>2. UNCHANGED <<static, evicted, runVars>>
  BY DEF Environment, Tick, Submit, ApproveLeave, Waive
<1>3. SavedOK' /\ RunOK' /\ RunInv'
  BY <1>1, <1>2, RunKept DEF SavedOK
<1>4. CASE Tick
  <2>1. clock' \in 0..Horizon
    BY <1>1, <1>4, BoundsAssumption DEF Tick, WorldOK
  <2>2. WorldOK' /\ SourcesOK'
    BY <1>1, <1>4, <2>1 DEF Tick, WorldOK, SourcesOK, world
  <2> QED
    BY <1>3, <2>2, TypeParts DEF TInv
<1>5. ASSUME NEW e \in Current, Submit(e) PROVE TInv'
  <2>1. WorldOK' /\ SourcesOK'
    BY <1>1, <1>5 DEF Submit, WorldOK, SourcesOK
  <2> QED
    BY <1>3, <2>1, TypeParts DEF TInv
<1>6. ASSUME NEW record \in Inputs[sources].leave, ApproveLeave(record) PROVE TInv'
  <2>1. WorldOK' /\ SourcesOK'
    BY <1>1, <1>6 DEF ApproveLeave, WorldOK, SourcesOK, world
  <2> QED
    BY <1>3, <2>1, TypeParts DEF TInv
<1>7. ASSUME NEW k \in Keys, Waive(k) PROVE TInv'
  <2>1. WorldOK' /\ SourcesOK'
    BY <1>1, <1>7 DEF Waive, WorldOK, SourcesOK
  <2> QED
    BY <1>3, <2>1, TypeParts DEF TInv
<1> QED
  BY <1>4, <1>5, <1>6, <1>7 DEF Environment

LEMMA FetchTypes ==
  ASSUME TInv, Fetch
  PROVE  TInv'
<1>1. TypeOK /\ WorldOK /\ SavedOK /\ RunOK /\ RunInv /\ SourcesOK
  BY TypeParts DEF TInv
<1>2. WorldOK' /\ SavedOK' /\ SourcesOK'
  BY <1>1 DEF Fetch, WorldOK, SavedOK, SourcesOK, world
<1>3. RunOK'
  BY <1>1 DEF Fetch, RunOK, RunPhases
<1>4. /\ snapshot'.input \in DOMAIN Inputs
      /\ DOMAIN snapshot' = {"input", "accepted", "status", "now"}
  BY <1>1 DEF Fetch, SourcesOK
<1>5. RunInv'
  BY <1>1, <1>4 DEF Fetch, RunInv, Working, Of
<1> QED
  BY <1>2, <1>3, <1>5, TypeParts DEF TInv

\* A plan that is made: the actions, where it goes on, what is kept.
LEMMA PlanMade ==
  ASSUME TInv, Plan
  PROVE  \/ FailRun
         \/ /\ snapshot.input \in Usable
            /\ plan' = PlanComplianceActions(
                          Built[snapshot.input], snapshot.accepted, snapshot.status,
                          IF snapshot.now = -1 THEN clock ELSE snapshot.now, static)
            /\ missing' = {} /\ tries' = 1
            /\ at' \in {"nudge", "find", "resolve", "digest", "end"}
            /\ at' \notin {"nudge", "find"} => Of("upsert", plan') = {}
            /\ snapshot'.input = snapshot.input /\ snapshot'.now = snapshot.now
            /\ DOMAIN snapshot' = {"input", "accepted", "status", "now"}
            /\ UNCHANGED <<staged, static, evicted>>
<1>1. CASE snapshot.input \in Broken /\ FailRun
  BY <1>1
<1>2. CASE /\ snapshot.input \notin Broken
           /\ \E acts \in {PlanComplianceActions(
                             Built[snapshot.input], snapshot.accepted, snapshot.status,
                             IF snapshot.now = -1 THEN clock ELSE snapshot.now, static)} :
                GoOn(0, acts, {})
           /\ snapshot' = [snapshot EXCEPT !.accepted = {}, !.status = <<>>]
           /\ UNCHANGED <<staged, static, evicted>>
  <2> DEFINE acts == PlanComplianceActions(
                       Built[snapshot.input], snapshot.accepted, snapshot.status,
                       IF snapshot.now = -1 THEN clock ELSE snapshot.now, static)
  <2>1. GoOn(0, acts, {})
    BY <1>2
  <2> HIDE DEF acts
  <2>2. /\ plan' = acts /\ missing' = {} /\ tries' = 1
        /\ at' \in {"nudge", "find", "create", "resolve", "digest", "end"}
        /\ at' # "create"
        /\ at' \notin {"nudge", "find"} => Of("upsert", acts) = {}
    BY <2>1, GoesOnTo
  <2>3. at = "plan"
    BY DEF Plan
  <2>4. /\ snapshot.input \in DOMAIN Inputs
        /\ DOMAIN snapshot = {"input", "accepted", "status", "now"}
    BY <2>3 DEF TInv, RunInv
  <2>5. /\ snapshot'.input = snapshot.input /\ snapshot'.now = snapshot.now
        /\ DOMAIN snapshot' = {"input", "accepted", "status", "now"}
    BY <1>2, <2>4
  <2>6. snapshot.input \in Usable
    BY <1>2, <2>4 DEF Usable
  <2>7. UNCHANGED <<staged, static, evicted>>
    BY <1>2
  <2> QED
    BY <2>2, <2>5, <2>6, <2>7 DEF acts
<1> QED
  BY <1>1, <1>2 DEF Plan

LEMMA PlanTypes ==
  ASSUME TInv, Plan
  PROVE  TInv'
<1>1. TypeOK /\ WorldOK /\ SavedOK /\ RunOK /\ RunInv /\ SourcesOK
  BY TypeParts DEF TInv
<1>2. WorldOK' /\ SourcesOK' /\ at = "plan"
  BY <1>1 DEF Plan, WorldOK, SourcesOK, world
<1>3. CASE FailRun
  BY <1>1, <1>2, <1>3, FailRunKeepsTypes, TypeParts DEF TInv
<1>4. CASE ~FailRun
  <2>1. /\ snapshot.input \in Usable
        /\ plan' = PlanComplianceActions(
                      Built[snapshot.input], snapshot.accepted, snapshot.status,
                      IF snapshot.now = -1 THEN clock ELSE snapshot.now, static)
        /\ missing' = {} /\ tries' = 1
        /\ at' \in {"nudge", "find", "resolve", "digest", "end"}
        /\ snapshot'.input = snapshot.input
        /\ DOMAIN snapshot' = {"input", "accepted", "status", "now"}
        /\ UNCHANGED <<staged, static, evicted>>
    BY <1>4, PlanMade
  <2>2. \A a \in plan' : PlannedFor(a, snapshot.input)
    BY <2>1, PlanIsPlanned
  <2>3. staged = {}
    BY <1>1, <1>2 DEF RunInv, RunOK
  <2>4. RunOK'
    BY <2>1, <2>3, BoundsAssumption, Places DEF RunOK
  <2>5. RunInv'
    BY <2>1, <2>2 DEF RunInv, Working, Usable
  <2>6. SavedOK'
    BY <1>1, <2>1 DEF SavedOK
  <2> QED
    BY <1>2, <2>4, <2>5, <2>6, TypeParts DEF TInv
<1> QED
  BY <1>3, <1>4

\* Ids that a node commits are ids of the plan.
LEMMA CommitsPlanned ==
  ASSUME RunInv, AtNode, NEW S \in SUBSET Of(Kind(at), plan)
  PROVE  Commit(S) \subseteq {a.id : a \in plan}
BY CommitsItem DEF AtNode, Of

LEMMA ItemsOfKind ==
  ASSUME RunInv, AtNode
  PROVE  /\ Items \in SUBSET Of(Kind(at), plan)
         /\ at \in {"find", "create"} => Of("upsert", plan) \ Items \in SUBSET Of(Kind(at), plan)
<1>1. \A a \in Items : a \in plan /\ a.kind = Kind(at)
  BY ItemsPlanned DEF AtNode
<1> QED
  BY <1>1 DEF Of, Kind

LEMMA BranchTypes ==
  ASSUME TInv, SendNudges \/ Create \/ Resolve \/ SendDigests
  PROVE  TInv'
<1>1. TypeOK /\ WorldOK /\ SavedOK /\ RunOK /\ RunInv /\ SourcesOK
  BY TypeParts DEF TInv
<1>2. AtNode /\ Leave
  BY DEF AtNode, SendNudges, Create, Resolve, SendDigests
<1>3. Commit(Items) \subseteq {a.id : a \in plan}
  BY <1>1, <1>2, CommitsPlanned, ItemsOfKind
<1>4. at = "create" => Commit(Of("upsert", plan) \ Items) \subseteq {a.id : a \in plan}
  BY <1>1, <1>2, CommitsPlanned, ItemsOfKind
<1>5. staged' \subseteq staged \cup {a.id : a \in plan}
  BY <1>3, <1>4 DEF SendNudges, Create, Resolve, SendDigests
<1>6. RunOK' /\ RunInv'
  BY <1>1, <1>2, <1>5, LeaveKeepsTypes
<1>7. SavedOK' /\ SourcesOK'
  BY <1>1 DEF SendNudges, Create, Resolve, SendDigests, SavedOK, SourcesOK
<1>8. CASE SendNudges
  <2>1. nudged' \in [SlotIds -> 0..MaxSent]
    BY <1>1, <1>8, NudgeWrites DEF SendNudges, WorldOK
  <2>2. WorldOK'
    BY <1>1, <1>8, <2>1 DEF SendNudges, WorldOK
  <2> QED
    BY <1>6, <1>7, <2>2, TypeParts DEF TInv
<1>9. CASE Create
  <2>1. violations' \in [Keys -> Statuses]
    BY <1>1, <1>9, OpenWrites DEF Create, WorldOK, Statuses
  <2>2. WorldOK'
    BY <1>1, <1>9, <2>1 DEF Create, WorldOK, Statuses
  <2> QED
    BY <1>6, <1>7, <2>2, TypeParts DEF TInv
<1>10. CASE Resolve
  <2>1. violations' \in [Keys -> Statuses]
    BY <1>1, <1>10, CloseWrites DEF Resolve, WorldOK, Statuses
  <2>2. WorldOK'
    BY <1>1, <1>10, <2>1 DEF Resolve, WorldOK, Statuses
  <2> QED
    BY <1>6, <1>7, <2>2, TypeParts DEF TInv
<1>11. CASE SendDigests
  <2>1. digested' \in [Groups -> 0..MaxSent]
    BY <1>1, <1>11, DigestWrites DEF SendDigests, WorldOK
  <2>2. WorldOK'
    BY <1>1, <1>11, <2>1 DEF SendDigests, WorldOK
  <2> QED
    BY <1>6, <1>7, <2>2, TypeParts DEF TInv
<1> QED
  BY <1>8, <1>9, <1>10, <1>11

\* Where Find Existing Violation leads.
LEMMA FindLeads ==
  ASSUME TInv, Find
  PROVE  /\ plan' = plan /\ missing' = Unknown /\ tries' = 1 /\ UNCHANGED snapshot
         /\ at' \in {"create", "resolve", "digest", "end"}
         /\ at' = "create" <=> Unknown # {}
         /\ Items = Of("upsert", plan) /\ Unknown \in SUBSET Of("upsert", plan)
<1>1. GoOn(2, plan, Unknown) /\ at = "find" /\ UNCHANGED snapshot
  BY Places DEF Find
<1>2. Items = Of("upsert", plan)
  BY <1>1 DEF Items, ItemsAt
<1>3. Unknown \in SUBSET Of("upsert", plan)
  BY <1>2 DEF Unknown
<1> HIDE DEF Unknown
<1> QED
  BY <1>1, <1>2, <1>3, GoesOnTo

LEMMA FindTypes ==
  ASSUME TInv, Find
  PROVE  TInv'
<1>1. TypeOK /\ WorldOK /\ SavedOK /\ RunOK /\ RunInv /\ SourcesOK
  BY TypeParts DEF TInv
<1>2. at = "find" /\ AtNode
  BY DEF Find, AtNode
<1>3. staged' \subseteq staged \cup {a.id : a \in plan}
  BY <1>1, <1>2, CommitsPlanned, ItemsOfKind DEF Find
<1>4. WorldOK' /\ SavedOK' /\ SourcesOK'
  BY <1>1 DEF Find, WorldOK, SavedOK, SourcesOK, world
<1>5. /\ plan' = plan /\ missing' \subseteq Of("upsert", plan) /\ tries' = 1 /\ UNCHANGED snapshot
      /\ at' \in {"create", "resolve", "digest", "end"}
  BY FindLeads
<1>6. RunOK'
  BY <1>1, <1>3, <1>5, BoundsAssumption, Places DEF RunOK, Of
<1>7. RunInv'
  BY <1>1, <1>2, <1>5 DEF RunInv, Working, Of
<1> QED
  BY <1>4, <1>6, <1>7, TypeParts DEF TInv

LEMMA FailedTypes ==
  ASSUME TInv,
         \/ SendNudgesFailed \/ FindFailed \/ CreateFailed \/ CreateRefused \/ ResolveFailed
         \/ SendDigestsFailed
  PROVE  TInv'
<1>1. TypeOK /\ WorldOK /\ SavedOK /\ RunOK /\ RunInv /\ SourcesOK
  BY TypeParts DEF TInv
<1>2. RetryOrFail \/ FailRun
  BY DEF SendNudgesFailed, FindFailed, CreateFailed, CreateRefused, ResolveFailed, SendDigestsFailed
<1>3. SavedOK' /\ RunOK' /\ RunInv'
  BY <1>1, <1>2, FailRunKeepsTypes, RetryKeepsTypes
<1>4. SourcesOK' /\ troubles' = troubles + 1 /\ clock' = clock /\ checkins' = checkins
  BY <1>1 DEF SendNudgesFailed, FindFailed, CreateFailed, CreateRefused, ResolveFailed,
              SendDigestsFailed, Fault, Trouble, SourcesOK, world
<1>5. troubles' \in Nat
  BY <1>1, <1>4 DEF WorldOK
<1>6. nudged' \in [SlotIds -> 0..MaxSent]
  BY <1>1, NudgeWrites DEF SendNudgesFailed, FindFailed, CreateFailed, CreateRefused, ResolveFailed,
              SendDigestsFailed, WorldOK, world
<1>7. violations' \in [Keys -> Statuses]
  BY <1>1, OpenWrites, CloseWrites DEF SendNudgesFailed, FindFailed, CreateFailed, CreateRefused,
              ResolveFailed, SendDigestsFailed, WorldOK, Statuses, world
<1>8. digested' \in [Groups -> 0..MaxSent]
  BY <1>1, DigestWrites DEF SendNudgesFailed, FindFailed, CreateFailed, CreateRefused, ResolveFailed,
              SendDigestsFailed, WorldOK, world
<1>9. WorldOK'
  BY <1>1, <1>4, <1>5, <1>6, <1>7, <1>8 DEF WorldOK, Statuses
<1> QED
  BY <1>3, <1>4, <1>9, TypeParts DEF TInv

LEMMA StopTypes ==
  ASSUME TInv, Crash \/ Finish
  PROVE  TInv'
<1>1. TypeOK /\ WorldOK /\ SavedOK /\ RunOK /\ RunInv /\ SourcesOK
  BY TypeParts DEF TInv
<1>2. RunOK' /\ RunInv'
  BY EndRunKeepsTypes DEF Crash, Finish
<1>3. WorldOK' /\ SourcesOK'
  BY <1>1 DEF Crash, Finish, Fault, Trouble, WorldOK, SourcesOK, world
<1>4. SavedOK'
  BY <1>1, SaveKeepsTypes DEF Crash, Finish, SavedOK
<1> QED
  BY <1>2, <1>3, <1>4, TypeParts DEF TInv

LEMMA TypesInductive ==
  ASSUME TInv, [Next]_vars
  PROVE  TInv'
<1>1. CASE UNCHANGED vars
  <2>1. UNCHANGED runVars
    BY <1>1 DEF vars
  <2>2. WorldOK' = WorldOK /\ SavedOK' = SavedOK /\ SourcesOK' = SourcesOK
    BY <1>1 DEF vars, world, WorldOK, SavedOK, SourcesOK
  <2> QED
    BY <2>1, <2>2, RunKept, TypeParts DEF TInv
<1> QED
  BY <1>1, EnvironmentTypes, FetchTypes, PlanTypes, BranchTypes, FindTypes, FailedTypes, StopTypes
  DEF Next, Progress, Disturbance

LEMMA TypesInitially ==
  ASSUME Init
  PROVE  TInv
<1>1. 0 \in 0..Horizon /\ 0 \in 0..MaxSent /\ 1 \in 1..MaxTries /\ 0 <= KeepIds
  BY BoundsAssumption
<1>2. Cardinality({}) = 0
  BY FS_EmptySet
<1>3. TypeOK
  BY <1>1, <1>2 DEF Init, TypeOK, RunPhases
<1>4. RunInv /\ SourcesOK
  BY DEF Init, RunInv, SourcesOK, Working, Of, NoSnapshot
<1> QED
  BY <1>3, <1>4 DEF TInv

\* Types: a run is at a node with what it planned, ids are those of its actions.
THEOREM ComplianceTypes == Spec => []TypeOK
<1>1. TInv => TypeOK
  BY DEF TInv
<1> QED
  BY <1>1, TypesInitially, TypesInductive, PTL DEF Spec
-----------------------------------------------------------------------------
(* Committed, and done *)

\* What the id i stands for was carried out.
IdDone(i) ==
  /\ i \in SlotIds => nudged[i] > 0
  /\ \A k \in Keys : /\ i = UpsertId(k) => violations[k] # "none"
                     /\ i = ResolutionId(k) => violations[k] = "resolved"
  /\ \A g \in Groups : i = EscalationId(g) => digested[g] > 0

LEMMA CommittedIsIdDone ==
  /\ CommittedWasDone <=> \A i \in static \cup staged : IdDone(i)
  /\ CommittedWasDone' <=> \A i \in static' \cup staged' : IdDone(i)'
BY DEF CommittedWasDone, IdDone

\* Nothing that was done is undone: counts do not fall back to zero, a recorded
\* violation stays recorded, a resolved one resolved.
LEMMA DoneStays ==
  ASSUME TInv, [Next]_vars
  PROVE  /\ \A i \in SlotIds : nudged[i] > 0 => nudged'[i] > 0
         /\ \A g \in Groups : digested[g] > 0 => digested'[g] > 0
         /\ \A k \in Keys : /\ violations[k] # "none" => violations'[k] # "none"
                            /\ violations[k] = "resolved" => violations'[k] = "resolved"
<1>1. /\ nudged \in [SlotIds -> 0..MaxSent] /\ digested \in [Groups -> 0..MaxSent]
      /\ violations \in [Keys -> Statuses]
  BY DEF TInv, TypeOK, Statuses
<1>2. \A i \in SlotIds : nudged[i] > 0 => nudged'[i] > 0
  <2>1. CASE UNCHANGED nudged
    BY <2>1
  <2>2. ASSUME NEW S, Nudge(S) PROVE \A i \in SlotIds : nudged[i] > 0 => nudged'[i] > 0
    BY <1>1, <2>2, NudgeWrites
  <2> QED
    BY <2>1, <2>2 DEF Next, Environment, Progress, Disturbance, Tick, Submit, ApproveLeave, Waive,
       Fetch, Plan, SendNudges, Find, Create, CreateRefused, Resolve, SendDigests, Finish,
       SendNudgesFailed, FindFailed, CreateFailed, ResolveFailed, SendDigestsFailed, Crash, vars, world
<1>3. \A g \in Groups : digested[g] > 0 => digested'[g] > 0
  <2>1. CASE UNCHANGED digested
    BY <2>1
  <2>2. ASSUME NEW S, Digest(S) PROVE \A g \in Groups : digested[g] > 0 => digested'[g] > 0
    BY <1>1, <2>2, DigestWrites
  <2> QED
    BY <2>1, <2>2 DEF Next, Environment, Progress, Disturbance, Tick, Submit, ApproveLeave, Waive,
       Fetch, Plan, SendNudges, Find, Create, CreateRefused, Resolve, SendDigests, Finish,
       SendNudgesFailed, FindFailed, CreateFailed, ResolveFailed, SendDigestsFailed, Crash, vars, world
<1>4. \A k \in Keys : /\ violations[k] # "none" => violations'[k] # "none"
                      /\ violations[k] = "resolved" => violations'[k] = "resolved"
  <2>1. CASE UNCHANGED violations
    BY <2>1
  <2>2. ASSUME NEW S, Open(S)
        PROVE  \A k \in Keys : violations[k] # "none" => violations'[k] = violations[k]
    BY <1>1, <2>2, OpenWrites
  <2>3. ASSUME NEW S, Close(S)
        PROVE  \A k \in Keys : /\ violations'[k] \in {violations[k], "resolved"}
    BY <1>1, <2>3, CloseWrites
  <2>4. ASSUME NEW l \in Keys, Waive(l)
        PROVE  /\ \A k \in Keys : violations[k] # "none" => violations'[k] # "none"
               /\ \A k \in Keys : violations[k] = "resolved" => violations'[k] = "resolved"
    BY <1>1, <2>4 DEF Waive
  <2> QED
    BY <2>1, <2>2, <2>3, <2>4 DEF Next, Environment, Progress, Disturbance, Tick, Submit, ApproveLeave,
       Fetch, Plan, SendNudges, Find, Create, CreateRefused, Resolve, SendDigests, Finish,
       SendNudgesFailed, FindFailed, CreateFailed, ResolveFailed, SendDigestsFailed, Crash, vars, world
<1> QED
  BY <1>2, <1>3, <1>4

LEMMA IdStaysDone ==
  ASSUME TInv, [Next]_vars, NEW i, IdDone(i)
  PROVE  IdDone(i)'
BY DoneStays DEF IdDone

\* Only the nodes that carry actions out commit, one id or two of an upsert.
LEMMA CommitsWhere ==
  ASSUME TInv, [Next]_vars
  PROVE  \/ static' \cup staged' \subseteq static \cup staged
         \/ /\ static' = static
            /\ \/ (SendNudges \/ Resolve \/ SendDigests) /\ staged' = staged \cup Commit(Items)
               \/ Find /\ Unknown = {} /\ staged' = staged \cup Commit(Items)
               \/ Create /\ staged' = staged \cup Commit(Items) \cup Commit(Of("upsert", plan) \ Items)
<1>1. SavedOK /\ RunOK /\ RunInv
  BY TypeParts DEF TInv
<1>2. CASE UNCHANGED <<static, staged>>
  BY <1>2
<1>3. CASE FailRun
  BY <1>1, <1>3, FailRunKeepsTypes
<1>4. CASE RetryOrFail
  <2>1. static' \subseteq static \cup staged /\ (staged' = staged \/ staged' = {})
    BY <1>1, <1>4, RetryKeepsTypes
  <2> QED
    BY <2>1
<1>5. CASE EndRun /\ (Save \/ UNCHANGED static)
  <2>1. static' \subseteq static \cup staged
    BY <1>1, <1>5, SaveKeepsTypes
  <2> QED
    BY <1>5, <2>1 DEF EndRun
<1>6. CASE SendNudges \/ Resolve \/ SendDigests \/ Find \/ Create
  BY <1>6 DEF SendNudges, Resolve, SendDigests, Find, Create
<1>7. CASE Environment \/ Fetch \/ UNCHANGED vars
  BY <1>2, <1>7 DEF Environment, Tick, Submit, ApproveLeave, Waive, Fetch, vars, runVars
<1>8. CASE Plan
  BY <1>2, <1>3, <1>8 DEF Plan
<1>9. CASE Crash \/ Finish
  BY <1>5, <1>9 DEF Crash, Finish
<1>10. CASE SendNudgesFailed \/ FindFailed \/ CreateFailed \/ CreateRefused \/ ResolveFailed
            \/ SendDigestsFailed
  BY <1>3, <1>4, <1>10 DEF SendNudgesFailed, FindFailed, CreateFailed, CreateRefused,
     ResolveFailed, SendDigestsFailed
<1> QED
  BY <1>6, <1>7, <1>8, <1>9, <1>10 DEF Next, Progress, Disturbance

-----------------------------------------------------------------------------
(* Planned, and recorded *)

\* What the snapshot showed on record still is.
SnapshotRecorded ==
  at = "plan" => \A k \in Keys : snapshot.status[k] # "none" => violations[k] # "none"

\* At the node that creates, what was found is on record; behind it everything
\* that was to be recorded is.
UpsertsRecorded ==
  /\ at = "create" => \A a \in Of("upsert", plan) : a \notin missing => violations[a.key] # "none"
  /\ at \in {"resolve", "digest", "end"} =>
       \A a \in Of("upsert", plan) : violations[a.key] # "none"

\* A digest is planned for what is on record or is recorded before it.
DigestsPlanned ==
  Working => \A a \in Of("digest", plan) : \A e \in a.rows :
    \/ violations[Key(e)] # "none"
    \/ \E b \in Of("upsert", plan) : b.key = Key(e)

\* Digests name expectations.
NamedKnown == \A g \in Groups : \A e \in named[g] : Key(e) \in Keys

CInv ==
  /\ CommittedWasDone /\ SnapshotRecorded /\ UpsertsRecorded
  /\ DigestsPlanned /\ NamedKnown /\ DigestHasRows

\* The keys and groups of planned actions are known ones.
LEMMA PlannedKnown ==
  ASSUME TInv
  PROVE  /\ \A a \in Of("nudge", plan) : a.id \in SlotIds
         /\ \A a \in Of("upsert", plan) : a.key \in Keys /\ a.id = UpsertId(a.key)
         /\ \A a \in Of("resolve", plan) : a.key \in Keys /\ a.id = ResolutionId(a.key)
         /\ \A a \in Of("digest", plan) :
              a.key \in Groups /\ a.id = EscalationId(a.key) /\ \A e \in a.rows : Key(e) \in Keys
<1>1. \A a \in plan : /\ snapshot.input \in DOMAIN Inputs
                      /\ PlannedFor(a, snapshot.input)
  BY DEF TInv, RunInv, Working, Usable
<1>2. \A e \in Expected(snapshot.input) : e \in Built[snapshot.input]
  BY DEF Expected
<1>3. ASSUME NEW a \in Of("nudge", plan) PROVE a.id \in SlotIds
  BY <1>1, <1>2, PlannedShape, SlotIsKnown DEF Of
<1>4. ASSUME NEW a \in Of("upsert", plan) PROVE a.key \in Keys /\ a.id = UpsertId(a.key)
  BY <1>1, <1>2, PlannedShape, SlotIsKnown DEF Of
<1>5. ASSUME NEW a \in Of("resolve", plan) PROVE a.key \in Keys /\ a.id = ResolutionId(a.key)
  BY <1>1, <1>2, PlannedShape, SlotIsKnown DEF Of
<1>6. ASSUME NEW a \in Of("digest", plan)
      PROVE  a.key \in Groups /\ a.id = EscalationId(a.key) /\ \A e \in a.rows : Key(e) \in Keys
  <2>1. PICK e \in Expected(snapshot.input) :
          /\ a.id = EscalationId(a.key) /\ a.key = Group(e)
          /\ a.rows \subseteq {f \in Expected(snapshot.input) : Group(f) = a.key}
    BY <1>1, PlannedShape DEF Of
  <2>2. snapshot.input \in DOMAIN Inputs
    BY <1>1 DEF Of
  <2> QED
    BY <1>2, <2>1, <2>2, SlotIsKnown
<1> QED
  BY <1>3, <1>4, <1>5, <1>6

LEMMA UpsertIdDone ==
  ASSUME NEW k \in Keys, violations'[k] # "none"
  PROVE  IdDone(UpsertId(k))'
BY IdsDiffer DEF IdDone, SlotIds

LEMMA CommittedStep ==
  ASSUME TInv, CInv, [Next]_vars
  PROVE  CommittedWasDone'
<1>1. \A i \in static \cup staged : IdDone(i)'
  BY CommittedIsIdDone, IdStaysDone DEF CInv
<1>2. /\ nudged \in [SlotIds -> 0..MaxSent] /\ digested \in [Groups -> 0..MaxSent]
      /\ violations \in [Keys -> Statuses] /\ RunInv
  BY DEF TInv, TypeOK, Statuses
<1>3. CASE static' \cup staged' \subseteq static \cup staged
  BY <1>1, <1>3, CommittedIsIdDone
<1>4. ASSUME NEW S, static' = static, staged' = staged \cup S, \A i \in S : IdDone(i)'
      PROVE  CommittedWasDone'
  BY <1>1, <1>4, CommittedIsIdDone
<1>5. CASE SendNudges /\ static' = static /\ staged' = staged \cup Commit(Items)
  <2>1. AtNode /\ Kind(at) = "nudge" /\ Nudge(Items)
    BY <1>5 DEF SendNudges, AtNode, Kind
  <2>2. ASSUME NEW i \in Commit(Items) PROVE IdDone(i)'
    <3>1. PICK a \in Items : i = a.id /\ a \in Of("nudge", plan)
      BY <1>2, <2>1, CommitsItem, ItemsOfKind DEF AtNode
    <3>2. i \in SlotIds /\ nudged'[i] > 0
      BY <1>2, <2>1, <3>1, PlannedKnown, NudgeWrites
    <3> QED
      BY <3>2, IdsDiffer DEF IdDone, SlotIds
  <2> QED
    BY <1>4, <1>5, <2>2
<1>6. CASE Find /\ Unknown = {} /\ static' = static /\ staged' = staged \cup Commit(Items)
  <2>1. AtNode /\ Kind(at) = "upsert" /\ violations' = violations
    BY <1>6 DEF Find, AtNode, Kind, world
  <2>2. ASSUME NEW i \in Commit(Items) PROVE IdDone(i)'
    <3>1. PICK a \in Items : i = a.id /\ a \in Of("upsert", plan)
      BY <1>2, <2>1, CommitsItem, ItemsOfKind DEF AtNode
    <3>2. a.key \in Keys /\ i = UpsertId(a.key) /\ violations'[a.key] # "none"
      BY <1>6, <2>1, <3>1, PlannedKnown DEF Unknown
    <3> QED
      BY <3>2, UpsertIdDone
  <2> QED
    BY <1>4, <1>6, <2>2
<1>7. CASE Create /\ static' = static
             /\ staged' = staged \cup Commit(Items) \cup Commit(Of("upsert", plan) \ Items)
  <2>1. AtNode /\ Kind(at) = "upsert" /\ at = "create" /\ Open(Items)
    BY <1>7 DEF Create, AtNode, Kind
  <2>2. Items = missing
    BY <2>1 DEF Items, ItemsAt
  <2>3. ASSUME NEW i \in Commit(Items) \cup Commit(Of("upsert", plan) \ Items) PROVE IdDone(i)'
    <3>1. /\ Items \in SUBSET Of(Kind(at), plan)
          /\ Of("upsert", plan) \ Items \in SUBSET Of(Kind(at), plan)
      BY <1>2, <2>1, ItemsOfKind
    <3>2. PICK a \in Of("upsert", plan) : i = a.id
      BY <1>2, <2>1, <3>1, CommitsItem DEF AtNode
    <3>3. a.key \in Keys /\ i = UpsertId(a.key)
      BY <3>2, PlannedKnown
    <3>4. violations'[a.key] # "none"
      <4>1. CASE a \in Items
        BY <1>2, <2>1, <3>3, <4>1, OpenWrites
      <4>2. CASE a \notin Items
        <5>1. violations[a.key] # "none"
          BY <2>1, <2>2, <3>2, <4>2 DEF CInv, UpsertsRecorded
        <5> QED
          BY <3>3, <5>1, DoneStays
      <4> QED
        BY <4>1, <4>2
    <3> QED
      BY <3>3, <3>4, UpsertIdDone
  <2> DEFINE S == Commit(Items) \cup Commit(Of("upsert", plan) \ Items)
  <2>4. staged' = staged \cup S /\ \A i \in S : IdDone(i)'
    BY <1>7, <2>3
  <2> HIDE DEF S
  <2> QED
    BY <1>4, <1>7, <2>4
<1>8. CASE Resolve /\ static' = static /\ staged' = staged \cup Commit(Items)
  <2>1. AtNode /\ Kind(at) = "resolve" /\ Close(Items)
    BY <1>8 DEF Resolve, AtNode, Kind
  <2>2. ASSUME NEW i \in Commit(Items) PROVE IdDone(i)'
    <3>1. PICK a \in Items : i = a.id /\ a \in Of("resolve", plan)
      BY <1>2, <2>1, CommitsItem, ItemsOfKind DEF AtNode
    <3>2. a.key \in Keys /\ i = ResolutionId(a.key) /\ violations'[a.key] = "resolved"
      BY <1>2, <2>1, <3>1, PlannedKnown, CloseWrites
    <3> QED
      BY <3>2, IdsDiffer DEF IdDone, SlotIds
  <2> QED
    BY <1>4, <1>8, <2>2
<1>9. CASE SendDigests /\ static' = static /\ staged' = staged \cup Commit(Items)
  <2>1. AtNode /\ Kind(at) = "digest" /\ Digest(Items)
    BY <1>9 DEF SendDigests, AtNode, Kind
  <2>2. ASSUME NEW i \in Commit(Items) PROVE IdDone(i)'
    <3>1. PICK a \in Items : i = a.id /\ a \in Of("digest", plan)
      BY <1>2, <2>1, CommitsItem, ItemsOfKind DEF AtNode
    <3>2. a.key \in Groups /\ i = EscalationId(a.key) /\ digested'[a.key] > 0
      BY <1>2, <2>1, <3>1, PlannedKnown, DigestWrites
    <3> QED
      BY <3>2, IdsDiffer DEF IdDone, SlotIds
  <2> QED
    BY <1>4, <1>9, <2>2
<1> QED
  BY <1>3, <1>5, <1>6, <1>7, <1>8, <1>9, CommitsWhere

\* How a step moves the run.
LEMMA RunMoves ==
  ASSUME TInv, [Next]_vars
  PROVE  \/ UNCHANGED <<at, snapshot, plan, missing>>
         \/ at' = "idle" /\ plan' = {} /\ snapshot' = NoSnapshot
         \/ Fetch
         \/ Plan /\ ~FailRun
         \/ Leave /\ (SendNudges \/ Create \/ Resolve \/ SendDigests)
         \/ Find
<1>1. CASE FailRun \/ EndRun
  BY <1>1 DEF FailRun, EndRun
<1>2. CASE RetryOrFail
  BY <1>1, <1>2 DEF RetryOrFail
<1>3. CASE Environment \/ UNCHANGED vars
  BY <1>3 DEF Environment, Tick, Submit, ApproveLeave, Waive, vars, runVars
<1>4. CASE SendNudges \/ Create \/ Resolve \/ SendDigests
  BY <1>4 DEF SendNudges, Create, Resolve, SendDigests
<1>5. CASE Crash \/ Finish
  BY <1>1, <1>5 DEF Crash, Finish
<1>6. CASE SendNudgesFailed \/ FindFailed \/ CreateFailed \/ CreateRefused \/ ResolveFailed
            \/ SendDigestsFailed
  BY <1>1, <1>2, <1>6 DEF SendNudgesFailed, FindFailed, CreateFailed, CreateRefused,
     ResolveFailed, SendDigestsFailed
<1> QED
  BY <1>1, <1>3, <1>4, <1>5, <1>6 DEF Next, Progress, Disturbance

LEMMA SnapshotStep ==
  ASSUME TInv, CInv, [Next]_vars
  PROVE  SnapshotRecorded'
<1>1. SUFFICES ASSUME at' = "plan", NEW k \in Keys, snapshot'.status[k] # "none"
               PROVE  violations'[k] # "none"
  BY DEF SnapshotRecorded
<1>2. CASE Fetch
  <2>1. snapshot'.status = violations /\ violations' = violations
    BY <1>2 DEF Fetch, world
  <2> QED
    BY <1>1, <2>1
<1>3. CASE UNCHANGED <<at, snapshot, plan, missing>>
  <2>1. violations[k] # "none"
    BY <1>1, <1>3 DEF CInv, SnapshotRecorded
  <2> QED
    BY <2>1, DoneStays
<1>4. CASE Plan /\ ~FailRun
  BY <1>1, <1>4, PlanMade
<1>5. CASE Leave /\ (SendNudges \/ Create \/ Resolve \/ SendDigests)
  <2>1. GoOn(Position(at), plan, missing) /\ Position(at) \in 0..5
    BY <1>5, Places DEF Leave, SendNudges, Create, Resolve, SendDigests
  <2> QED
    BY <1>1, <2>1, GoesOnTo
<1>6. CASE Find
  BY <1>1, <1>6, FindLeads
<1> QED
  BY <1>1, <1>2, <1>3, <1>4, <1>5, <1>6, RunMoves

LEMMA UpsertsStep ==
  ASSUME TInv, CInv, [Next]_vars
  PROVE  UpsertsRecorded'
<1>1. RunOK /\ RunInv /\ violations \in [Keys -> Statuses]
  BY TypeParts DEF TInv, TypeOK, Statuses
<1>2. \A a \in Of("upsert", plan) : /\ a.key \in Keys
                                    /\ violations[a.key] # "none" => violations'[a.key] # "none"
  BY PlannedKnown, DoneStays
<1>3. CASE UNCHANGED <<at, snapshot, plan, missing>>
  BY <1>2, <1>3 DEF CInv, UpsertsRecorded, Of
<1>4. CASE at' \in {"idle", "plan", "nudge", "find"}
  BY <1>4 DEF UpsertsRecorded
<1>5. CASE Fetch
  BY <1>4, <1>5 DEF Fetch
<1>6. CASE Plan /\ ~FailRun
  <2>1. at' # "create" /\ (at' \notin {"nudge", "find"} => Of("upsert", plan') = {})
    BY <1>6, PlanMade
  <2>2. at' \notin {"nudge", "find"} => Of("upsert", plan)' = {}
    BY <2>1 DEF Of
  <2> QED
    BY <2>1, <2>2 DEF UpsertsRecorded
<1>7. CASE Leave /\ (SendNudges \/ Create \/ Resolve \/ SendDigests)
  <2>1. AtNode /\ at # "find"
    BY <1>7 DEF AtNode, SendNudges, Create, Resolve, SendDigests
  <2>2. staged' \subseteq staged \cup {a.id : a \in plan}
    <3>1. RunOK'
      BY TypesInductive, TypeParts DEF TInv
    <3> QED
      BY <1>7, <3>1 DEF RunOK, Leave, GoOn
  <2>3. /\ UNCHANGED <<plan, missing>> /\ at' \in {"find", "create", "resolve", "digest", "end"}
        /\ at' = "create" => at = "nudge" /\ missing # {}
        /\ at = "nudge" /\ at' # "find" => Of("upsert", plan) = {}
    BY <1>1, <1>7, <2>1, <2>2, LeaveKeepsTypes
  <2>4. at' # "create"
    BY <1>1, <2>3 DEF RunInv
  <2>5. Of("upsert", plan)' = Of("upsert", plan)
    BY <2>3 DEF Of
  <2>6. CASE at = "nudge"
    BY <2>3, <2>4, <2>5, <2>6 DEF UpsertsRecorded
  <2>7. CASE at = "create"
    <3>1. Items = missing /\ Open(Items)
      BY <1>7, <2>7 DEF Items, ItemsAt, SendNudges, Create, Resolve, SendDigests
    <3>2. ASSUME NEW a \in Of("upsert", plan) PROVE violations'[a.key] # "none"
      <4>1. CASE a \in missing
        BY <1>1, <1>2, <3>1, <4>1, OpenWrites
      <4>2. CASE a \notin missing
        BY <1>2, <2>7, <4>2 DEF CInv, UpsertsRecorded
      <4> QED
        BY <4>1, <4>2
    <3> QED
      BY <2>4, <2>5, <3>2 DEF UpsertsRecorded
  <2>8. CASE at \in {"resolve", "digest"}
    BY <1>2, <2>4, <2>5, <2>8 DEF CInv, UpsertsRecorded
  <2> QED
    BY <2>1, <2>6, <2>7, <2>8 DEF AtNode
<1>8. CASE Find
  <2>1. /\ plan' = plan /\ missing' = Unknown /\ Items = Of("upsert", plan)
        /\ at' = "create" <=> Unknown # {}
    BY <1>8, FindLeads
  <2>2. \A a \in Of("upsert", plan) : a \notin Unknown => violations[a.key] # "none"
    BY <2>1 DEF Unknown
  <2>3. Of("upsert", plan)' = Of("upsert", plan) /\ missing' = Unknown
    BY <2>1 DEF Of
  <2> HIDE DEF Unknown
  <2> QED
    BY <1>2, <2>1, <2>2, <2>3 DEF UpsertsRecorded
<1> QED
  BY <1>3, <1>4, <1>5, <1>6, <1>7, <1>8, RunMoves

LEMMA DigestsStep ==
  ASSUME TInv, CInv, [Next]_vars
  PROVE  DigestsPlanned'
<1>1. CASE plan' = plan /\ (Working' => Working)
  <2>1. \A a \in Of("digest", plan) : \A e \in a.rows :
          Key(e) \in Keys /\ (violations[Key(e)] # "none" => violations'[Key(e)] # "none")
    BY PlannedKnown, DoneStays
  <2>2. Of("digest", plan)' = Of("digest", plan) /\ Of("upsert", plan)' = Of("upsert", plan)
    BY <1>1 DEF Of
  <2> QED
    BY <1>1, <2>1, <2>2 DEF CInv, DigestsPlanned
<1>2. CASE ~Working'
  BY <1>2 DEF DigestsPlanned
<1>3. CASE Plan /\ ~FailRun
  <2> DEFINE i == snapshot.input
             now == IF snapshot.now = -1 THEN clock ELSE snapshot.now
             Late == Overdue(Built[i], snapshot.accepted, snapshot.status, now)
  <2>1. /\ plan' = PlanComplianceActions(Built[i], snapshot.accepted, snapshot.status, now, static)
        /\ snapshot.input \in DOMAIN Inputs
    BY <1>3, PlanMade DEF Usable
  <2>2. at = "plan" /\ violations' = violations
    BY <1>3 DEF Plan, world
  <2>3. ASSUME NEW a \in Of("digest", plan'), NEW e \in a.rows
        PROVE  \/ violations'[Key(e)] # "none"
               \/ \E b \in Of("upsert", plan') : b.key = Key(e)
    <3>1. a \in Digests(Built[i], snapshot.accepted, snapshot.status, now, static)
      BY <2>1 DEF PlanComplianceActions, Nudges, Upserts, Resolutions, Of
    <3>2. e \in Late
      BY <3>1 DEF Digests
    <3>3. /\ e \in Built[i] /\ Breached(e, snapshot.accepted, now)
          /\ snapshot.status[Key(e)] \in {"none", "open"}
      BY <3>2 DEF Overdue
    <3>4. Key(e) \in Keys
      BY <2>1, <3>3, SlotIsKnown
    <3>5. CASE snapshot.status[Key(e)] = "open"
      BY <2>2, <3>4, <3>5 DEF CInv, SnapshotRecorded
    <3>6. CASE UpsertId(Key(e)) \in static
      BY <2>2, <3>4, <3>6 DEF CInv, CommittedWasDone
    <3>7. CASE snapshot.status[Key(e)] = "none" /\ UpsertId(Key(e)) \notin static
      <4> DEFINE b == [kind |-> "upsert", id |-> UpsertId(Key(e)), key |-> Key(e), rows |-> {e}]
      <4>1. b \in Upserts(Built[i], snapshot.accepted, snapshot.status, now, static)
        BY <3>3, <3>7 DEF Upserts
      <4>2. b \in plan' /\ b.kind = "upsert" /\ b.key = Key(e)
        BY <2>1, <4>1 DEF PlanComplianceActions
      <4> QED
        BY <4>2 DEF Of
    <3> QED
      BY <3>3, <3>5, <3>6, <3>7
  <2> HIDE DEF i, now, Late
  <2>4. Of("digest", plan)' = Of("digest", plan') /\ Of("upsert", plan)' = Of("upsert", plan')
    BY DEF Of
  <2> QED
    BY <2>3, <2>4 DEF DigestsPlanned
<1>4. CASE Leave /\ (SendNudges \/ Create \/ Resolve \/ SendDigests)
  BY <1>1, <1>4 DEF Leave, GoOn, SendNudges, Create, Resolve, SendDigests, Working
<1>5. CASE Find
  BY <1>1, <1>5, FindLeads DEF Find, Working
<1> QED
  BY <1>1, <1>2, <1>3, <1>4, <1>5, RunMoves DEF Fetch, Working

LEMMA RowsStep ==
  ASSUME TInv, CInv, [Next]_vars
  PROVE  DigestHasRows'
<1>1. CASE UNCHANGED named
  <2>1. SUFFICES ASSUME NEW g \in Groups, NEW e \in named[g] PROVE violations'[Key(e)] # "none"
    BY <1>1 DEF DigestHasRows
  <2>2. violations[Key(e)] # "none"
    BY DEF CInv, DigestHasRows
  <2>3. Key(e) \in Keys
    BY DEF CInv, NamedKnown
  <2> QED
    BY <2>2, <2>3, DoneStays
<1>2. ASSUME NEW S \in SUBSET Items, at = "digest", Digest(S) PROVE DigestHasRows'
  <2>1. SUFFICES ASSUME NEW g \in Groups, NEW e \in named'[g] PROVE violations'[Key(e)] # "none"
    BY DEF DigestHasRows
  <2>2. e \in named[g] \/ \E a \in S : a.key = g /\ e \in a.rows
    BY <1>2, DigestWrites DEF TInv, TypeOK
  <2>3. CASE e \in named[g]
    BY <2>3, DoneStays DEF CInv, DigestHasRows, NamedKnown
  <2>4. CASE \E a \in S : a.key = g /\ e \in a.rows
    <3>1. PICK a \in Of("digest", plan) : e \in a.rows
      BY <1>2, <2>4 DEF Items, ItemsAt
    <3>2. Key(e) \in Keys
      BY <3>1, PlannedKnown
    <3>3. violations[Key(e)] # "none"
      BY <1>2, <3>1 DEF CInv, DigestsPlanned, UpsertsRecorded, Working
    <3> QED
      BY <3>2, <3>3, DoneStays
  <2> QED
    BY <2>2, <2>3, <2>4
<1>3. CASE SendDigests \/ SendDigestsFailed
  BY <1>2, <1>3 DEF SendDigests, SendDigestsFailed
<1> QED
  BY <1>1, <1>3 DEF Next, Environment, Progress, Disturbance, Tick, Submit, ApproveLeave, Waive,
     Fetch, Plan, SendNudges, Find, Create, CreateRefused, Resolve, Finish,
     SendNudgesFailed, FindFailed, CreateFailed, ResolveFailed, Crash, vars, world

LEMMA NamedStep ==
  ASSUME TInv, NamedKnown, [Next]_vars
  PROVE  NamedKnown'
<1>1. CASE UNCHANGED named
  BY <1>1 DEF NamedKnown
<1>2. ASSUME NEW S \in SUBSET Items, at = "digest", Digest(S) PROVE NamedKnown'
  <2>1. SUFFICES ASSUME NEW g \in Groups, NEW e \in named'[g] PROVE Key(e) \in Keys
    BY DEF NamedKnown
  <2>2. e \in named[g] \/ \E a \in S : a.key = g /\ e \in a.rows
    BY <1>2, DigestWrites DEF TInv, TypeOK
  <2>3. S \subseteq Of("digest", plan)
    BY <1>2 DEF Items, ItemsAt
  <2> QED
    BY <2>2, <2>3, PlannedKnown DEF NamedKnown
<1>3. CASE SendDigests \/ SendDigestsFailed
  BY <1>2, <1>3 DEF SendDigests, SendDigestsFailed
<1> QED
  BY <1>1, <1>3 DEF Next, Environment, Progress, Disturbance, Tick, Submit, ApproveLeave, Waive,
     Fetch, Plan, SendNudges, Find, Create, CreateRefused, Resolve, Finish,
     SendNudgesFailed, FindFailed, CreateFailed, ResolveFailed, Crash, vars, world

LEMMA CommitsInductive ==
  ASSUME TInv, CInv, [Next]_vars
  PROVE  CInv'
BY CommittedStep, SnapshotStep, UpsertsStep, DigestsStep, RowsStep, NamedStep DEF CInv

LEMMA CommitsInitially ==
  ASSUME Init
  PROVE  CInv
BY DEF Init, CInv, CommittedWasDone, SnapshotRecorded, UpsertsRecorded, DigestsPlanned, NamedKnown,
   DigestHasRows, Working

\* An id is committed only when its action was carried out, whatever fails.
THEOREM CommitsAreTrue == Spec => []CommittedWasDone
<1>1. CInv => CommittedWasDone
  BY DEF CInv
<1> QED
  BY <1>1, TypesInitially, TypesInductive, CommitsInitially, CommitsInductive, PTL DEF Spec

\* A digest names only users whose violation is on record.
THEOREM DigestsHaveRows == Spec => []DigestHasRows
<1>1. CInv => DigestHasRows
  BY DEF CInv
<1> QED
  BY <1>1, TypesInitially, TypesInductive, CommitsInitially, CommitsInductive, PTL DEF Spec
=============================================================================
