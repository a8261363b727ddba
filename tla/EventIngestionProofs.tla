------------------------ MODULE EventIngestionProofs ------------------------
(***************************************************************************)
(* Proofs about EventIngestion: types, that an acknowledged event is in    *)
(* the table, that an id has one row which is never replaced, and that the *)
(* workflow implements EventLedger.                                        *)
(***************************************************************************)
EXTENDS EventIngestion, SequenceTheorems, TLAPS

-----------------------------------------------------------------------------
(* Types *)

\* What a run knows of its delivery at each node.
RunsAtNodes == \A w \in Runs :
  /\ phase[w] = "idle" => key[w] = NoKey /\ code[w] = 202
  /\ phase[w] \in {"check", "insert"} => key[w] \in Sent /\ key[w][2] \notin Invalid /\ code[w] = 202
  /\ code[w] = 401 => key[w] = NoKey

TInv == TypeOK /\ RunsAtNodes

LEMMA NoKeyIsNoKey == NoKey \notin Keys
BY NoPayloadIsNone DEF NoKey, Keys

\* The table keeps its types under every insert.
LEMMA InsertRowType ==
  ASSUME rows \in [Events -> Seq(Payloads)], tokens \subseteq Events \X Months,
         NEW e \in Events, NEW p \in Payloads, InsertRow(e, p) \/ UNCHANGED table
  PROVE  rows' \in [Events -> Seq(Payloads)] /\ tokens' \subseteq Events \X Months
<1>1. CASE UNCHANGED table
  BY <1>1 DEF table
<1>2. CASE <<e, Month[p]>> \notin tokens /\ InsertRow(e, p)
  <2>1. Append(rows[e], p) \in Seq(Payloads)
    BY AppendProperties
  <2>2. Month[p] \in Months
    BY DEF Months
  <2>3. rows' = [rows EXCEPT ![e] = Append(rows[e], p)] /\ tokens' = tokens \union {<<e, Month[p]>>}
    BY <1>2 DEF InsertRow
  <2> QED
    BY <2>1, <2>2, <2>3
<1>3. CASE <<e, Month[p]>> \in tokens /\ InsertRow(e, p)
  BY <1>3 DEF InsertRow, table
<1> QED
  BY <1>1, <1>2, <1>3

\* The types of what a run keeps.
RunTypes ==
  /\ phase \in [Runs -> {"idle", "check", "insert", "answer"}]
  /\ key \in [Runs -> Sent \union {NoKey}]
  /\ code \in [Runs -> Codes]
  /\ tries \in [Runs -> 1..MaxTries]

\* The moves of a run between its nodes keep its types and what it knows.
LEMMA GotoType ==
  ASSUME RunTypes, RunsAtNodes, NEW w \in Runs, phase[w] = "check", Goto(w, "insert")
  PROVE  RunTypes' /\ RunsAtNodes'
BY BoundsNatural DEF RunTypes, RunsAtNodes, Goto

LEMMA GotoAnswerType ==
  ASSUME RunTypes, RunsAtNodes, NEW w \in Runs, NEW c \in Codes \ {401}, GotoAnswer(w, c)
  PROVE  RunTypes' /\ RunsAtNodes'
BY BoundsNatural DEF RunTypes, RunsAtNodes, GotoAnswer

LEMMA EndRunType ==
  ASSUME RunTypes, RunsAtNodes, NEW w \in Runs, EndRun(w)
  PROVE  RunTypes' /\ RunsAtNodes'
BY BoundsNatural DEF RunTypes, RunsAtNodes, EndRun, Codes

LEMMA RetryOrEndType ==
  ASSUME RunTypes, RunsAtNodes, NEW w \in Runs, RetryOrEnd(w)
  PROVE  RunTypes' /\ RunsAtNodes'
<1>1. CASE EndRun(w)
  BY <1>1, EndRunType
<1>2. CASE /\ tries[w] < MaxTries
           /\ tries' = [tries EXCEPT ![w] = @ + 1]
           /\ UNCHANGED <<phase, key, code>>
  BY <1>2, BoundsNatural DEF RunTypes, RunsAtNodes
<1> QED
  BY <1>1, <1>2 DEF RetryOrEnd

LEMMA TypesSplit ==
  TypeOK <=> /\ rows \in [Events -> Seq(Payloads)] /\ tokens \subseteq Events \X Months
             /\ told \in [Keys -> SUBSET (Codes \ {401})]
             /\ RunTypes
             /\ faults \in 0..MaxFaults
BY DEF TypeOK, RunTypes

LEMMA FaultType ==
  ASSUME faults \in 0..MaxFaults, Fault
  PROVE  faults' \in 0..MaxFaults
BY BoundsNatural DEF Fault

\* The key of a run that talks to ClickHouse is an event and a payload.
LEMMA KeyOfRun ==
  ASSUME TInv, NEW w \in Runs, phase[w] \in {"check", "insert"}
  PROVE  key[w] \in Sent /\ key[w][1] \in Events /\ key[w][2] \in Payloads
         /\ key[w] = <<key[w][1], key[w][2]>>
BY SentAreKeys DEF TInv, RunsAtNodes, Keys

LEMMA TInvInit == Init => TInv
<1> SUFFICES ASSUME Init PROVE TInv
  OBVIOUS
<1>1. rows \in [Events -> Seq(Payloads)]
  BY EmptySeq DEF Init
<1>2. RunTypes /\ RunsAtNodes
  BY BoundsNatural DEF Init, RunTypes, RunsAtNodes, Codes
<1> QED
  BY <1>1, <1>2, BoundsNatural, TypesSplit DEF Init, TInv

LEMMA TInvStep ==
  ASSUME TInv, [Next]_vars
  PROVE  TInv'
<1> DEFINE Told == told \in [Keys -> SUBSET (Codes \ {401})]
<1>0. /\ rows \in [Events -> Seq(Payloads)] /\ tokens \subseteq Events \X Months
      /\ Told /\ RunTypes /\ faults \in 0..MaxFaults /\ RunsAtNodes
  BY TypesSplit DEF TInv
<1>q. ASSUME rows' \in [Events -> Seq(Payloads)], tokens' \subseteq Events \X Months,
             Told', RunTypes', faults' \in 0..MaxFaults, RunsAtNodes'
      PROVE  TInv'
  BY <1>q, Zenon DEF TypeOK, RunTypes, TInv
<1> HIDE DEF Told
<1>1. CASE UNCHANGED vars
  BY <1>0, <1>1, <1>q DEF vars, table, run, Told, RunTypes, RunsAtNodes
<1>2. ASSUME NEW w \in Runs, NEW k \in Sent, Receive(w, k) PROVE TInv'
  <2>1. RunTypes' /\ RunsAtNodes'
    <3>1. phase[w] = "idle" /\ code[w] = 202 /\ key' = [key EXCEPT ![w] = k] /\ tries' = tries
      BY <1>0, <1>2 DEF Receive, RunsAtNodes
    <3>2. CASE k[2] \notin Invalid
      <4>1. phase' = [phase EXCEPT ![w] = "check"] /\ code' = code
        BY <1>2, <3>2 DEF Receive
      <4> QED
        BY <1>0, <3>1, <3>2, <4>1 DEF RunTypes, RunsAtNodes
    <3>3. CASE k[2] \in Invalid
      <4>1. phase' = [phase EXCEPT ![w] = "answer"] /\ code' = [code EXCEPT ![w] = 400]
        BY <1>2, <3>3 DEF Receive
      <4> QED
        BY <1>0, <3>1, <4>1 DEF RunTypes, RunsAtNodes, Codes
    <3> QED
      BY <3>2, <3>3
  <2> QED
    BY <1>0, <1>2, <1>q, <2>1 DEF Receive, table, Told
<1>3. ASSUME NEW w \in Runs, ReceiveUnauthorized(w) PROVE TInv'
  <2>1. RunTypes' /\ RunsAtNodes'
    BY <1>0, <1>3 DEF ReceiveUnauthorized, RunTypes, RunsAtNodes, Codes
  <2> QED
    BY <1>0, <1>3, <1>q, <2>1 DEF ReceiveUnauthorized, table, Told
<1>4. ASSUME NEW w \in Runs, Check(w) PROVE TInv'
  <2>1. RunTypes' /\ RunsAtNodes'
    <3>1. phase[w] = "check"
          /\ (Goto(w, "insert") \/ GotoAnswer(w, 200) \/ GotoAnswer(w, 409))
      BY <1>4 DEF Check
    <3>2. 200 \in Codes \ {401} /\ 409 \in Codes \ {401}
      BY DEF Codes
    <3> QED
      BY <1>0, <3>1, <3>2, GotoType, GotoAnswerType
  <2> QED
    BY <1>0, <1>4, <1>q, <2>1 DEF Check, table, Told
<1>5. ASSUME NEW w \in Runs, Insert(w) PROVE TInv'
  <2>1. RunTypes' /\ RunsAtNodes'
    <3>1. 202 \in Codes \ {401}
      BY DEF Codes
    <3> QED
      BY <1>0, <1>5, <3>1, GotoAnswerType DEF Insert
  <2>2. rows' \in [Events -> Seq(Payloads)] /\ tokens' \subseteq Events \X Months
    BY <1>0, <1>5, KeyOfRun, InsertRowType DEF Insert
  <2> QED
    BY <1>0, <1>5, <1>q, <2>1, <2>2 DEF Insert, Told
<1>6. ASSUME NEW w \in Runs, RequestFailed(w) PROVE TInv'
  <2>1. RunTypes' /\ RunsAtNodes'
    BY <1>0, <1>6, RetryOrEndType DEF RequestFailed
  <2>2. rows' \in [Events -> Seq(Payloads)] /\ tokens' \subseteq Events \X Months
    BY <1>0, <1>6, KeyOfRun, InsertRowType DEF RequestFailed
  <2>3. faults' \in 0..MaxFaults
    BY <1>0, <1>6, FaultType DEF RequestFailed
  <2> QED
    BY <1>0, <1>6, <1>q, <2>1, <2>2, <2>3 DEF RequestFailed, Told
<1>7. ASSUME NEW w \in Runs, Respond(w) PROVE TInv'
  <2>1. RunTypes' /\ RunsAtNodes'
    BY <1>0, <1>7, EndRunType DEF Respond
  <2>2. Told'
    <3>1. \A k \in Keys : k = key[w] => code[w] \in Codes \ {401}
      BY <1>0, NoKeyIsNoKey DEF RunsAtNodes, RunTypes
    <3>2. told' = [k \in Keys |-> IF k = key[w] THEN told[k] \union {code[w]} ELSE told[k]]
      BY <1>7 DEF Respond
    <3> QED
      BY <1>0, <3>1, <3>2 DEF Told
  <2> QED
    BY <1>0, <1>7, <1>q, <2>1, <2>2 DEF Respond, table
<1>8. ASSUME NEW w \in Runs, Lost(w) PROVE TInv'
  <2>1. RunTypes' /\ RunsAtNodes'
    BY <1>0, <1>8, EndRunType DEF Lost
  <2>2. faults' \in 0..MaxFaults
    BY <1>0, <1>8, FaultType DEF Lost
  <2> QED
    BY <1>0, <1>8, <1>q, <2>1, <2>2 DEF Lost, table, Told
<1> QED
  BY <1>1, <1>2, <1>3, <1>4, <1>5, <1>6, <1>7, <1>8 DEF Next, Progress

\* The types of EventIngestion, whatever is lost between its nodes.
THEOREM IngestionTypes == Spec => []TypeOK
<1>1. Spec => []TInv
  BY TInvInit, TInvStep, PTL DEF Spec
<1>2. TInv => TypeOK
  BY DEF TInv
<1> QED
  BY <1>1, <1>2, PTL

-----------------------------------------------------------------------------
(* The table *)

InRow(k) == \E i \in 1..Len(rows[k[1]]) : rows[k[1]][i] = k[2]

\* Only valid events that were sent are stored.
RowsAreSent == \A e \in Events : \A i \in 1..Len(rows[e]) :
  <<e, rows[e][i]>> \in Sent /\ rows[e][i] \notin Invalid

\* ClickHouse has a token of an id and month when it has a row of them.
TokensAreOfRows == \A e \in Events, m \in Months :
  <<e, m>> \in tokens <=> \E i \in 1..Len(rows[e]) : Month[rows[e][i]] = m

LInv == RowsAreSent /\ TokensAreOfRows

\* The valid contents sent under an id all occurred in one month.
Steady(e) == \A j, k \in Sent :
  j[1] = e /\ k[1] = e /\ {j[2], k[2]} \intersect Invalid = {} => Month[j[2]] = Month[k[2]]

SteadyOnce == \A e \in Events : Steady(e) => Len(rows[e]) <= 1

\* The only writes of a run are inserts of the event delivered to it.
InsertOfRun ==
  \E w \in Runs : phase[w] = "insert" /\ InsertRow(key[w][1], key[w][2])

LEMMA TableStep ==
  ASSUME [Next]_vars
  PROVE  UNCHANGED table \/ InsertOfRun
BY DEF Next, Progress, Receive, ReceiveUnauthorized, Check, Insert, RequestFailed,
       Respond, Lost, InsertOfRun, vars, table

\* What an insert changes: it adds a row at the end, with its token, or nothing.
LEMMA InsertEffect ==
  ASSUME TInv, NEW w \in Runs, phase[w] = "insert", InsertRow(key[w][1], key[w][2])
  PROVE  \/ UNCHANGED table
         \/ /\ <<key[w][1], Month[key[w][2]]>> \notin tokens
            /\ tokens' = tokens \union {<<key[w][1], Month[key[w][2]]>>}
            /\ rows' = [rows EXCEPT ![key[w][1]] = Append(rows[key[w][1]], key[w][2])]
            /\ Len(rows'[key[w][1]]) = Len(rows[key[w][1]]) + 1
            /\ rows'[key[w][1]][Len(rows[key[w][1]]) + 1] = key[w][2]
            /\ \A i \in 1..Len(rows[key[w][1]]) : rows'[key[w][1]][i] = rows[key[w][1]][i]
            /\ \A e \in Events \ {key[w][1]} : rows'[e] = rows[e]
<1> DEFINE e == key[w][1]
           p == key[w][2]
<1>1. e \in Events /\ p \in Payloads
  BY KeyOfRun
<1>2. rows \in [Events -> Seq(Payloads)]
  BY DEF TInv, TypeOK
<1>3. CASE <<e, Month[p]>> \in tokens
  BY <1>3 DEF InsertRow
<1>4. CASE <<e, Month[p]>> \notin tokens
  <2>1. /\ rows' = [rows EXCEPT ![e] = Append(rows[e], p)]
        /\ tokens' = tokens \union {<<e, Month[p]>>}
    BY <1>4 DEF InsertRow
  <2>2. rows[e] \in Seq(Payloads) /\ rows'[e] = Append(rows[e], p)
    BY <1>1, <1>2, <2>1
  <2>3. /\ Len(Append(rows[e], p)) = Len(rows[e]) + 1
        /\ Append(rows[e], p)[Len(rows[e]) + 1] = p
        /\ \A i \in 1..Len(rows[e]) : Append(rows[e], p)[i] = rows[e][i]
    BY <1>1, <2>2, AppendProperties
  <2>4. \A x \in Events \ {e} : rows'[x] = rows[x]
    BY <1>2, <2>1
  <2> QED
    BY <1>4, <2>1, <2>2, <2>3, <2>4
<1> QED
  BY <1>3, <1>4

LEMMA RowLengths ==
  ASSUME TInv, NEW e \in Events
  PROVE  Len(rows[e]) \in Nat /\ rows[e] \in Seq(Payloads) /\ (rows[e] = <<>> <=> Len(rows[e]) = 0)
         /\ \A i \in 1..Len(rows[e]) : rows[e][i] \in Payloads /\ Month[rows[e][i]] \in Months
<1>1. rows[e] \in Seq(Payloads)
  BY DEF TInv, TypeOK
<1> QED
  BY <1>1, LenProperties, EmptySeq, ElementOfSeq DEF Months

\* Nothing stored and no token is lost.
LEMMA TableGrows ==
  ASSUME TInv, [Next]_vars
  PROVE  tokens \subseteq tokens' /\ \A k \in Keys : InRow(k) => InRow(k)'
<1>1. CASE UNCHANGED table
  BY <1>1 DEF table, InRow
<1>2. ASSUME NEW w \in Runs, phase[w] = "insert", InsertRow(key[w][1], key[w][2]), ~UNCHANGED table
      PROVE  tokens \subseteq tokens' /\ \A k \in Keys : InRow(k) => InRow(k)'
  <2>1. tokens \subseteq tokens'
    BY <1>2, InsertEffect
  <2>2. ASSUME NEW k \in Keys, InRow(k) PROVE InRow(k)'
    <3>1. k[1] \in Events
      BY DEF Keys
    <3>2. PICK i \in 1..Len(rows[k[1]]) : rows[k[1]][i] = k[2]
      BY <2>2 DEF InRow
    <3>3. i \in 1..Len(rows'[k[1]]) /\ rows'[k[1]][i] = k[2]
      <4>1. CASE k[1] = key[w][1]
        <5>1. Len(rows[k[1]]) \in Nat
          BY <3>1, RowLengths
        <5>2. Len(rows'[k[1]]) = Len(rows[k[1]]) + 1 /\ rows'[k[1]][i] = rows[k[1]][i]
          BY <1>2, <4>1, InsertEffect
        <5> QED
          BY <3>2, <5>1, <5>2
      <4>2. CASE k[1] # key[w][1]
        BY <1>2, <3>1, <3>2, <4>2, InsertEffect
      <4> QED
        BY <4>1, <4>2
    <3> QED
      BY <3>3 DEF InRow
  <2> QED
    BY <2>1, <2>2
<1> QED
  BY <1>1, <1>2, TableStep DEF InsertOfRun

LEMMA LInvInit == Init => LInv
<1> SUFFICES ASSUME Init PROVE LInv
  OBVIOUS
<1>1. \A e \in Events : rows[e] = <<>> /\ tokens = {}
  BY DEF Init
<1>2. \A e \in Events : Len(rows[e]) = 0
  BY <1>1, EmptySeq
<1>3. \A e \in Events : 1..Len(rows[e]) = {}
  BY <1>2
<1> QED
  BY <1>1, <1>3 DEF LInv, RowsAreSent, TokensAreOfRows

LEMMA LInvStep ==
  ASSUME TInv, LInv, [Next]_vars
  PROVE  LInv'
<1>1. CASE UNCHANGED table
  BY <1>1 DEF LInv, RowsAreSent, TokensAreOfRows, table
<1>2. ASSUME NEW w \in Runs, phase[w] = "insert", InsertRow(key[w][1], key[w][2]), ~UNCHANGED table
      PROVE  LInv'
  <2> DEFINE f == key[w][1]
             p == key[w][2]
             n == Len(rows[f])
  <2>1. f \in Events /\ p \in Payloads /\ <<f, p>> \in Sent /\ p \notin Invalid /\ Month[p] \in Months
    BY <1>2, KeyOfRun DEF TInv, RunsAtNodes, Months
  <2>2. /\ tokens' = tokens \union {<<f, Month[p]>>}
        /\ Len(rows'[f]) = n + 1 /\ rows'[f][n + 1] = p
        /\ \A i \in 1..n : rows'[f][i] = rows[f][i]
        /\ \A e \in Events \ {f} : rows'[e] = rows[e]
    BY <1>2, InsertEffect
  <2>3. n \in Nat
    BY <2>1, RowLengths
  <2>4. 1..Len(rows'[f]) = 1..n \union {n + 1}
    BY <2>2, <2>3
  <2> HIDE DEF f, p, n
  <2>5. RowsAreSent'
    <3>1. ASSUME NEW e \in Events, NEW i \in 1..Len(rows'[e])
          PROVE  <<e, rows'[e][i]>> \in Sent /\ rows'[e][i] \notin Invalid
      <4>1. CASE e # f
        BY <2>2, <3>1, <4>1 DEF LInv, RowsAreSent
      <4>2. CASE e = f /\ i = n + 1
        BY <2>1, <2>2, <4>2
      <4>3. CASE e = f /\ i # n + 1
        BY <2>1, <2>2, <2>4, <3>1, <4>3 DEF LInv, RowsAreSent, n
      <4> QED
        BY <4>1, <4>2, <4>3
    <3> QED
      BY <3>1 DEF RowsAreSent
  <2>6. TokensAreOfRows'
    <3>1. ASSUME NEW e \in Events, NEW m \in Months
          PROVE  <<e, m>> \in tokens' <=> \E i \in 1..Len(rows'[e]) : Month[rows'[e][i]] = m
      <4>0. <<e, m>> \in tokens <=> \E i \in 1..Len(rows[e]) : Month[rows[e][i]] = m
        BY DEF LInv, TokensAreOfRows
      <4>1. CASE e # f
        BY <2>2, <4>0, <4>1
      <4>2. CASE e = f /\ m = Month[p]
        <5>1. n + 1 \in 1..Len(rows'[e]) /\ Month[rows'[e][n + 1]] = m
          BY <2>2, <2>4, <4>2
        <5> QED
          BY <2>2, <4>2, <5>1
      <4>3. CASE e = f /\ m # Month[p]
        <5>1. <<e, m>> \in tokens' <=> <<e, m>> \in tokens
          BY <2>2, <4>3
        <5>2. \A i \in 1..Len(rows'[e]) : Month[rows'[e][i]] = m => i \in 1..n
          BY <2>2, <2>4, <4>3
        <5>3. \A i \in 1..n : i \in 1..Len(rows'[e]) /\ rows'[e][i] = rows[e][i]
          BY <2>2, <2>4, <4>3
        <5> QED
          BY <4>0, <4>3, <5>1, <5>2, <5>3 DEF n
      <4> QED
        BY <4>1, <4>2, <4>3
    <3> QED
      BY <3>1 DEF TokensAreOfRows, Months
  <2> QED
    BY <2>5, <2>6 DEF LInv
<1> QED
  BY <1>1, <1>2, TableStep DEF InsertOfRun

-----------------------------------------------------------------------------
(* Acknowledged events *)

\* What has to be the case when a producer is given an answer.
Warranted(k, c) ==
  /\ c \in {200, 202, 409} => k[2] \notin Invalid
  /\ c = 200 => InRow(k)
  /\ c = 202 => <<k[1], Month[k[2]]>> \in tokens
  /\ c = 409 => k[1] \notin Honest

AnswersWarranted ==
  /\ \A w \in Runs : phase[w] = "answer" /\ key[w] \in Sent => Warranted(key[w], code[w])
  /\ \A k \in Sent : \A c \in told[k] : Warranted(k, c)

\* An answer that was warranted stays so.
LEMMA WarrantedStays ==
  ASSUME TInv, [Next]_vars, NEW k \in Sent, NEW c, Warranted(k, c)
  PROVE  Warranted(k, c)'
<1>1. k \in Keys
  BY SentAreKeys
<1>2. (InRow(k) => InRow(k)') /\ tokens \subseteq tokens'
  BY <1>1, TableGrows
<1> QED
  BY <1>2 DEF Warranted

LEMMA StoredIsLast ==
  ASSUME TInv, LInv, NEW e \in Events, Stored(e) # NoPayload
  PROVE  /\ rows[e] # <<>> /\ Len(rows[e]) \in 1..Len(rows[e]) /\ Stored(e) = rows[e][Len(rows[e])]
         /\ <<e, Stored(e)>> \in Sent /\ Stored(e) \notin Invalid
<1>1. rows[e] # <<>> /\ Stored(e) = rows[e][Len(rows[e])]
  BY DEF Stored
<1>2. Len(rows[e]) \in 1..Len(rows[e])
  BY <1>1, RowLengths
<1> QED
  BY <1>1, <1>2 DEF LInv, RowsAreSent

\* The answer Check decides on is warranted by the row it saw.
LEMMA CheckWarranted ==
  ASSUME TInv, LInv, NEW w \in Runs, Check(w), phase'[w] = "answer"
  PROVE  Warranted(key[w], code'[w])
<1>1. key[w] \in Sent /\ key[w][1] \in Events /\ key[w] = <<key[w][1], key[w][2]>> /\ key[w][2] \notin Invalid
  BY KeyOfRun DEF Check, TInv, RunsAtNodes
<1>2. /\ w \in DOMAIN phase /\ w \in DOMAIN code
  BY DEF TInv, TypeOK
<1>3. \/ Stored(key[w][1]) = key[w][2] /\ Stored(key[w][1]) # NoPayload /\ code'[w] = 200
      \/ Stored(key[w][1]) \notin {NoPayload, key[w][2]} /\ code'[w] = 409
  BY <1>2, KeyOfRun, NoPayloadIsNone DEF Check, Goto, GotoAnswer
<1>4. CASE Stored(key[w][1]) = key[w][2] /\ Stored(key[w][1]) # NoPayload /\ code'[w] = 200
  <2>1. InRow(key[w])
    <3>1. Stored(key[w][1]) = rows[key[w][1]][Len(rows[key[w][1]])]
          /\ Len(rows[key[w][1]]) \in 1..Len(rows[key[w][1]])
      BY <1>1, <1>4, StoredIsLast
    <3> QED
      BY <1>4, <3>1 DEF InRow
  <2> QED
    BY <1>1, <1>4, <2>1 DEF Warranted
<1>5. CASE Stored(key[w][1]) \notin {NoPayload, key[w][2]} /\ code'[w] = 409
  <2>1. <<key[w][1], Stored(key[w][1])>> \in Sent /\ Stored(key[w][1]) \notin Invalid
    BY <1>1, <1>5, StoredIsLast
  <2>2. key[w][1] \notin Honest
    BY <1>1, <1>5, <2>1 DEF Honest
  <2> QED
    BY <1>1, <1>5, <2>2 DEF Warranted
<1> QED
  BY <1>3, <1>4, <1>5

\* After an insert the token of the event is known, whether it was dropped or not.
LEMMA InsertKnowsToken ==
  ASSUME NEW e, NEW p, InsertRow(e, p)
  PROVE  <<e, Month[p]>> \in tokens'
BY DEF InsertRow, table

LEMMA AnswersInit == Init => AnswersWarranted
<1> SUFFICES ASSUME Init PROVE AnswersWarranted
  OBVIOUS
<1>1. \A k \in Sent : told[k] = {}
  BY SentAreKeys DEF Init
<1>2. \A w \in Runs : phase[w] = "idle"
  BY DEF Init
<1> QED
  BY <1>1, <1>2 DEF AnswersWarranted

\* A step that leaves told alone, and in which no run but w gets to an answer,
\* needs a reason for the answer of w only.
LEMMA AnswerOfOne ==
  ASSUME TInv, AnswersWarranted, [Next]_vars, told' = told, NEW w \in Runs,
         \A x \in Runs \ {w} : phase'[x] = phase[x] /\ key'[x] = key[x] /\ code'[x] = code[x],
         \A k \in Sent, c \in Codes :
           phase'[w] = "answer" /\ key'[w] = k /\ code'[w] = c => Warranted(k, c)'
  PROVE  AnswersWarranted'
<1>1. \A k \in Sent : \A c \in told'[k] : Warranted(k, c)'
  BY WarrantedStays DEF AnswersWarranted
<1>2. ASSUME NEW x \in Runs, NEW k \in Sent, NEW c \in Codes,
             phase'[x] = "answer", key'[x] = k, code'[x] = c
      PROVE  Warranted(k, c)'
  <2>1. CASE x = w
    BY <1>2, <2>1
  <2>2. CASE x # w
    <3>1. Warranted(k, c)
      BY <1>2, <2>2 DEF AnswersWarranted
    <3> QED
      BY <3>1, WarrantedStays
  <2> QED
    BY <2>1, <2>2
<1>3. \A x \in Runs : code'[x] \in Codes
  BY TInvStep DEF TInv, TypeOK
<1>4. ASSUME NEW x \in Runs, phase'[x] = "answer", key'[x] \in Sent
      PROVE  Warranted(key[x], code[x])'
  <2>1. PICK k \in Sent, c \in Codes : k = key'[x] /\ c = code'[x]
    BY <1>3, <1>4
  <2>2. Warranted(k, c)'
    BY <1>2, <1>4, <2>1
  <2> QED
    BY <2>1, <2>2 DEF Warranted, InRow
<1> QED
  BY <1>1, <1>4 DEF AnswersWarranted

LEMMA AnswersStep ==
  ASSUME TInv, LInv, AnswersWarranted, [Next]_vars
  PROVE  AnswersWarranted'
<1>0. phase \in [Runs -> {"idle", "check", "insert", "answer"}] /\ key \in [Runs -> Sent \union {NoKey}]
      /\ code \in [Runs -> Codes] /\ told \in [Keys -> SUBSET (Codes \ {401})]
  BY DEF TInv, TypeOK
<1>1. CASE UNCHANGED vars
  <2>1. \A x \in Runs : phase'[x] = phase[x] /\ key'[x] = key[x] /\ code'[x] = code[x]
    BY <1>1 DEF vars, run
  <2>2. rows' = rows /\ tokens' = tokens /\ told' = told
    BY <1>1 DEF vars, table
  <2> QED
    BY <2>1, <2>2 DEF AnswersWarranted, Warranted, InRow
<1>2. ASSUME NEW w \in Runs, NEW k \in Sent, Receive(w, k) PROVE AnswersWarranted'
  <2>1. told' = told /\ \A x \in Runs \ {w} : phase'[x] = phase[x] /\ key'[x] = key[x] /\ code'[x] = code[x]
    BY <1>0, <1>2 DEF Receive
  <2>2. phase'[w] = "answer" => code'[w] = 400
    BY <1>0, <1>2 DEF Receive
  <2>3. \A j, c : c = 400 => Warranted(j, c)'
    BY DEF Warranted
  <2> QED
    BY <2>1, <2>2, <2>3, AnswerOfOne
<1>3. ASSUME NEW w \in Runs, ReceiveUnauthorized(w) PROVE AnswersWarranted'
  <2>1. told' = told /\ \A x \in Runs \ {w} : phase'[x] = phase[x] /\ key'[x] = key[x] /\ code'[x] = code[x]
    BY <1>0, <1>3 DEF ReceiveUnauthorized
  <2>2. code'[w] = 401
    BY <1>0, <1>3 DEF ReceiveUnauthorized
  <2>3. \A j, c : c = 401 => Warranted(j, c)'
    BY DEF Warranted
  <2> QED
    BY <2>1, <2>2, <2>3, AnswerOfOne
<1>4. ASSUME NEW w \in Runs, Check(w) PROVE AnswersWarranted'
  <2>1. told' = told /\ key' = key
        /\ \A x \in Runs \ {w} : phase'[x] = phase[x] /\ code'[x] = code[x]
    BY <1>0, <1>4 DEF Check, Goto, GotoAnswer
  <2>2. ASSUME NEW k \in Sent, NEW c \in Codes, phase'[w] = "answer", key'[w] = k, code'[w] = c
        PROVE  Warranted(k, c)'
    <3>1. Warranted(k, c)
      BY <1>4, <2>1, <2>2, CheckWarranted
    <3> QED
      BY <3>1, WarrantedStays
  <2> QED
    BY <2>1, <2>2, AnswerOfOne
<1>5. ASSUME NEW w \in Runs, Insert(w) PROVE AnswersWarranted'
  <2>1. told' = told /\ key' = key /\ code'[w] = 202
        /\ \A x \in Runs \ {w} : phase'[x] = phase[x] /\ code'[x] = code[x]
    BY <1>0, <1>5 DEF Insert, GotoAnswer
  <2>2. <<key[w][1], Month[key[w][2]]>> \in tokens' /\ key[w][2] \notin Invalid
    BY <1>5, InsertKnowsToken DEF Insert, TInv, RunsAtNodes
  <2>3. \A k \in Sent, c \in Codes : key'[w] = k /\ code'[w] = c => Warranted(k, c)'
    BY <2>1, <2>2 DEF Warranted
  <2> QED
    BY <2>1, <2>3, AnswerOfOne
<1>6. ASSUME NEW w \in Runs, RequestFailed(w) PROVE AnswersWarranted'
  <2>1. told' = told /\ phase'[w] # "answer"
        /\ \A x \in Runs \ {w} : phase'[x] = phase[x] /\ key'[x] = key[x] /\ code'[x] = code[x]
    BY <1>0, <1>6 DEF RequestFailed, RetryOrEnd, EndRun
  <2> QED
    BY <2>1, AnswerOfOne
<1>7. ASSUME NEW w \in Runs, Respond(w) PROVE AnswersWarranted'
  <2>0. phase[w] = "answer" /\ rows' = rows /\ tokens' = tokens
    BY <1>7 DEF Respond, table
  <2>1. /\ phase'[w] # "answer"
        /\ \A x \in Runs \ {w} : phase'[x] = phase[x] /\ key'[x] = key[x] /\ code'[x] = code[x]
    BY <1>0, <1>7 DEF Respond, EndRun
  <2>2. ASSUME NEW k \in Sent, NEW c \in told'[k] PROVE Warranted(k, c)
    <3>1. k \in Keys
      BY SentAreKeys
    <3>2. c \in told[k] \/ (k = key[w] /\ c = code[w])
      BY <1>7, <2>2, <3>1 DEF Respond
    <3> QED
      BY <2>0, <3>2 DEF AnswersWarranted
  <2>3. ASSUME NEW x \in Runs, phase'[x] = "answer", key'[x] \in Sent PROVE Warranted(key'[x], code'[x])
    <3>1. x # w
      BY <2>1, <2>3
    <3>2. phase[x] = "answer" /\ key'[x] = key[x] /\ code'[x] = code[x]
      BY <2>1, <2>3, <3>1
    <3> QED
      BY <2>3, <3>2 DEF AnswersWarranted
  <2> QED
    BY <2>0, <2>2, <2>3 DEF AnswersWarranted, Warranted, InRow
<1>8. ASSUME NEW w \in Runs, Lost(w) PROVE AnswersWarranted'
  <2>1. told' = told /\ phase'[w] # "answer"
        /\ \A x \in Runs \ {w} : phase'[x] = phase[x] /\ key'[x] = key[x] /\ code'[x] = code[x]
    BY <1>0, <1>8 DEF Lost, EndRun
  <2> QED
    BY <2>1, AnswerOfOne
<1> QED
  BY <1>1, <1>2, <1>3, <1>4, <1>5, <1>6, <1>7, <1>8 DEF Next, Progress

IInv == TInv /\ LInv /\ AnswersWarranted

LEMMA IInvHolds == Spec => []IInv
<1>1. Init => IInv
  BY TInvInit, LInvInit, AnswersInit DEF IInv
<1>2. IInv /\ [Next]_vars => IInv'
  BY TInvStep, LInvStep, AnswersStep DEF IInv
<1> QED
  BY <1>1, <1>2, PTL DEF Spec

\* A valid event of an honest id is the only one that can be in its row.
LEMMA HonestRow ==
  ASSUME TInv, LInv, NEW k \in Sent, k[1] \in Honest, k[2] \notin Invalid,
         NEW i \in 1..Len(rows[k[1]])
  PROVE  rows[k[1]][i] = k[2]
<1>1. k[1] \in Events
  BY DEF Honest
<1>2. <<k[1], rows[k[1]][i]>> \in Sent /\ rows[k[1]][i] \notin Invalid
  BY <1>1 DEF LInv, RowsAreSent
<1> QED
  BY <1>2 DEF Honest

\* An event the producer is told to stop sending is in the table, whatever was
\* lost on the way and whichever delivery stored it.
THEOREM AcknowledgedStored == Spec => []AcknowledgedIsStored
<1>1. ASSUME IInv PROVE AcknowledgedIsStored
  <2>1. ASSUME NEW k \in Sent, k[1] \in Honest, Acknowledged(k)
        PROVE  \E i \in DOMAIN rows[k[1]] : rows[k[1]][i] = k[2]
    <3>1. k[1] \in Events /\ k[2] \in Payloads
      BY SentAreKeys DEF Keys
    <3>2. PICK c \in told[k] \intersect {200, 202} : Warranted(k, c)
      BY <1>1, <2>1 DEF Acknowledged, IInv, AnswersWarranted
    <3>3. k[2] \notin Invalid /\ (InRow(k) \/ <<k[1], Month[k[2]]>> \in tokens)
      BY <3>2 DEF Warranted
    <3>4. InRow(k)
      <4>1. CASE <<k[1], Month[k[2]]>> \in tokens
        <5>1. Month[k[2]] \in Months
          BY <3>1 DEF Months
        <5>2. PICK i \in 1..Len(rows[k[1]]) : Month[rows[k[1]][i]] = Month[k[2]]
          BY <1>1, <3>1, <4>1, <5>1 DEF IInv, LInv, TokensAreOfRows
        <5>3. rows[k[1]][i] = k[2]
          BY <1>1, <2>1, <3>3, HonestRow DEF IInv
        <5> QED
          BY <5>3 DEF InRow
      <4> QED
        BY <3>3, <4>1
    <3>5. DOMAIN rows[k[1]] = 1..Len(rows[k[1]])
      BY <1>1, <3>1, RowLengths, LenProperties DEF IInv
    <3> QED
      BY <3>4, <3>5 DEF InRow
  <2> QED
    BY <2>1 DEF AcknowledgedIsStored
<1> QED
  BY <1>1, IInvHolds, PTL

-----------------------------------------------------------------------------
(* One row for an id, which stays *)

\* The row of an id whose contents share a month is never added to again.
LEMMA SteadyRowKept ==
  ASSUME TInv, LInv, [Next]_vars, NEW e \in Events, Steady(e), rows[e] # <<>>
  PROVE  rows'[e] = rows[e]
<1>1. CASE UNCHANGED table
  BY <1>1 DEF table
<1>2. ASSUME NEW w \in Runs, phase[w] = "insert", InsertRow(key[w][1], key[w][2])
      PROVE  rows'[e] = rows[e]
  <2>1. CASE key[w][1] # e
    BY <1>2, <2>1, InsertEffect DEF table
  <2>2. CASE key[w][1] = e
    <3>1. key[w] \in Sent /\ key[w][2] \in Payloads /\ key[w][2] \notin Invalid
      BY <1>2, KeyOfRun DEF TInv, RunsAtNodes
    <3>2. 1 \in 1..Len(rows[e])
      BY RowLengths
    <3>3. <<e, rows[e][1]>> \in Sent /\ rows[e][1] \notin Invalid
      BY <3>2 DEF LInv, RowsAreSent
    <3>4. Month[rows[e][1]] = Month[key[w][2]]
      BY <2>2, <3>1, <3>3 DEF Steady
    <3>5. <<e, Month[key[w][2]]>> \in tokens
      BY <3>1, <3>2, <3>4 DEF LInv, TokensAreOfRows, Months
    <3> QED
      BY <1>2, <2>2, <3>5 DEF InsertRow, table
  <2> QED
    BY <2>1, <2>2
<1> QED
  BY <1>1, <1>2, TableStep DEF InsertOfRun

LEMMA SteadyOnceStep ==
  ASSUME TInv, LInv, SteadyOnce, [Next]_vars
  PROVE  SteadyOnce'
<1> SUFFICES ASSUME NEW e \in Events, Steady(e) PROVE Len(rows'[e]) <= 1
  BY DEF SteadyOnce, Steady
<1>1. CASE rows[e] # <<>>
  BY <1>1, SteadyRowKept DEF SteadyOnce
<1>2. CASE rows[e] = <<>>
  <2>0. Len(rows[e]) = 0
    BY <1>2, RowLengths
  <2>1. CASE UNCHANGED table
    BY <2>0, <2>1 DEF table
  <2>2. ASSUME NEW w \in Runs, phase[w] = "insert", InsertRow(key[w][1], key[w][2]), ~UNCHANGED table
        PROVE  Len(rows'[e]) <= 1
    <3>1. /\ Len(rows'[key[w][1]]) = Len(rows[key[w][1]]) + 1
          /\ \A x \in Events \ {key[w][1]} : rows'[x] = rows[x]
      BY <2>2, InsertEffect
    <3> QED
      BY <2>0, <3>1
  <2> QED
    BY <2>1, <2>2, TableStep DEF InsertOfRun
<1> QED
  BY <1>1, <1>2

LEMMA SteadyOnceHolds == Spec => []SteadyOnce
<1>1. Init => SteadyOnce
  BY EmptySeq DEF Init, SteadyOnce
<1>2. IInv /\ SteadyOnce /\ [Next]_vars => SteadyOnce'
  BY SteadyOnceStep DEF IInv
<1> QED
  BY <1>1, <1>2, IInvHolds, PTL DEF Spec

\* Retries and concurrent deliveries store an id once, as long as the contents
\* sent under it occurred in one month: a token is remembered by partition.
THEOREM OneRowForAnId ==
  ASSUME \A e \in Events : Steady(e)
  PROVE  Spec => []StoredOnce
<1>1. SteadyOnce => StoredOnce
  BY DEF SteadyOnce, StoredOnce
<1> QED
  BY <1>1, SteadyOnceHolds, PTL

\* Under that condition a step never changes what is stored of an id.
LEMMA StoredStays ==
  ASSUME TInv, LInv, [Next]_vars, NEW e \in Events, Steady(e), Stored(e) # NoPayload
  PROVE  Stored(e)' = Stored(e)
BY SteadyRowKept DEF Stored

\* What the reporting view shows of an id does not change, under that condition.
THEOREM StoredEventStays ==
  ASSUME \A e \in Events : Steady(e)
  PROVE  Spec => StoredEventKept
<1>1. IInv /\ [Next]_vars => [\A e \in Events : Stored(e) # NoPayload => Stored(e)' = Stored(e)]_vars
  BY StoredStays DEF IInv
<1> QED
  BY <1>1, IInvHolds, PTL DEF Spec, StoredEventKept

-----------------------------------------------------------------------------
(* Conflicts *)

Conflicting(k) == Stored(k[1]) \notin {NoPayload, k[2]}

\* A conflict that a run is about to answer is one.
RunsSawConflict ==
  \A w \in Runs : phase[w] = "answer" /\ key[w] \in Sent /\ code[w] = 409 => Conflicting(key[w])

CInv == RunsSawConflict /\ ConflictIsReal

LEMMA ConflictStep ==
  ASSUME IInv, CInv, [Next]_vars, \A e \in Events : Steady(e)
  PROVE  CInv'
<1>0. /\ phase \in [Runs -> {"idle", "check", "insert", "answer"}] /\ key \in [Runs -> Sent \union {NoKey}]
      /\ code \in [Runs -> Codes] /\ told \in [Keys -> SUBSET (Codes \ {401})]
  BY DEF IInv, TInv, TypeOK
<1>1. ASSUME NEW k \in Sent, Conflicting(k) PROVE Conflicting(k)'
  <2>1. k[1] \in Events
    BY SentAreKeys DEF Keys
  <2> QED
    BY <1>1, <2>1, StoredStays DEF IInv, Conflicting
<1>2. ASSUME NEW w \in Runs, phase'[w] = "answer", key'[w] \in Sent, code'[w] = 409
      PROVE  Conflicting(key'[w])
  <2>1. CASE phase[w] = "answer" /\ key'[w] = key[w] /\ code'[w] = code[w]
    BY <1>2, <2>1 DEF CInv, RunsSawConflict
  <2>2. CASE Check(w)
    BY <1>0, <1>2, <2>2 DEF Check, GotoAnswer, Goto, Conflicting
  <2>3. CASE ~Check(w) /\ ~(phase[w] = "answer" /\ key'[w] = key[w] /\ code'[w] = code[w])
    <3>1. phase[w] = "idle" => code[w] = 202
      BY DEF IInv, TInv, RunsAtNodes
    <3>2. UNCHANGED vars => FALSE
      BY <1>2, <2>3 DEF vars, run
    <3>3. \A x \in Runs, k \in Sent : Receive(x, k) => FALSE
      BY <1>0, <1>2, <2>3, <3>1 DEF Receive
    <3>4. \A x \in Runs : ReceiveUnauthorized(x) => FALSE
      BY <1>0, <1>2, <2>3, <3>1 DEF ReceiveUnauthorized
    <3>5. \A x \in Runs : Check(x) \/ Insert(x) => FALSE
      BY <1>0, <1>2, <2>3 DEF Check, Insert, Goto, GotoAnswer
    <3>6. \A x \in Runs : RequestFailed(x) => FALSE
      BY <1>0, <1>2, <2>3 DEF RequestFailed, RetryOrEnd, EndRun
    <3>7. \A x \in Runs : Respond(x) \/ Lost(x) => FALSE
      BY <1>0, <1>2, <2>3 DEF Respond, Lost, EndRun
    <3> QED
      BY <3>2, <3>3, <3>4, <3>5, <3>6, <3>7 DEF Next, Progress
  <2> QED
    BY <2>1, <2>2, <2>3
<1>3. RunsSawConflict'
  <2>1. ASSUME NEW w \in Runs, phase'[w] = "answer", key'[w] \in Sent, code'[w] = 409
        PROVE  Conflicting(key[w])'
    <3>1. PICK k \in Sent : k = key'[w]
      BY <2>1
    <3>2. Conflicting(k)'
      BY <1>1, <1>2, <2>1, <3>1
    <3> QED
      BY <3>1, <3>2 DEF Conflicting, Stored
  <2> QED
    BY <2>1 DEF RunsSawConflict
<1>4. ConflictIsReal'
  <2>1. ASSUME NEW k \in Sent, 409 \in told'[k] PROVE Conflicting(k)
    <3>1. CASE 409 \in told[k]
      BY <3>1 DEF CInv, ConflictIsReal, Conflicting
    <3>2. CASE 409 \notin told[k]
      <4>1. k \in Keys
        BY SentAreKeys
      <4>2. told' # told
        BY <2>1, <3>2
      <4>3. PICK w \in Runs : Respond(w)
        BY <4>2 DEF Next, Progress, Receive, ReceiveUnauthorized, Check, Insert,
                    RequestFailed, Lost, vars
      <4>4. k = key[w] /\ code[w] = 409
        BY <2>1, <3>2, <4>1, <4>3 DEF Respond
      <4> QED
        BY <4>3, <4>4 DEF Respond, CInv, RunsSawConflict
    <3> QED
      BY <3>1, <3>2
  <2> QED
    BY <1>1, <2>1 DEF ConflictIsReal, Conflicting
<1> QED
  BY <1>3, <1>4 DEF CInv

\* A producer that is answered 409 can see another content under its id, under
\* the same condition.
THEOREM ConflictsAreReal ==
  ASSUME \A e \in Events : Steady(e)
  PROVE  Spec => []ConflictIsReal
<1>1. Init => CInv
  <2> SUFFICES ASSUME Init PROVE CInv
    OBVIOUS
  <2>1. \A k \in Sent : told[k] = {}
    BY SentAreKeys DEF Init
  <2>2. \A w \in Runs : phase[w] = "idle"
    BY DEF Init
  <2> QED
    BY <2>1, <2>2 DEF CInv, RunsSawConflict, ConflictIsReal
<1>2. IInv /\ CInv /\ [Next]_vars => CInv'
  BY ConflictStep
<1>3. CInv => ConflictIsReal
  BY DEF CInv
<1> QED
  BY <1>1, <1>2, <1>3, IInvHolds, PTL DEF Spec

-----------------------------------------------------------------------------
(* The ledger *)

BarLedger == [e \in Honest |-> IF rows[e] = <<>> THEN NoPayload ELSE rows[e][1]]
BarTold   == [k \in Honest \X Payloads |-> told[k]]

LEMMA HonestIsSteady ==
  ASSUME NEW e \in Honest
  PROVE  e \in Events /\ Steady(e)
BY DEF Honest, Steady

\* What a producer of an honest id is told to have been accepted is in the ledger.
LEMMA AcceptedIsRecorded ==
  ASSUME IInv, NEW k \in Sent, k[1] \in Honest, NEW c \in {200, 202}, Warranted(k, c)
  PROVE  rows[k[1]] # <<>> /\ rows[k[1]][1] = k[2]
<1>1. k[1] \in Events /\ k[2] \in Payloads /\ k[2] \notin Invalid
  BY SentAreKeys DEF Keys, Warranted
<1>2. PICK i \in 1..Len(rows[k[1]]) : TRUE
  BY <1>1 DEF Warranted, InRow, IInv, LInv, TokensAreOfRows, Months
<1>3. rows[k[1]] # <<>> /\ 1 \in 1..Len(rows[k[1]])
  BY <1>1, <1>2, RowLengths DEF IInv
<1> QED
  BY <1>1, <1>3, HonestRow DEF IInv

\* A step that tells nobody anything records the first row of an id, or stutters.
LEMMA TableStepIsRecord ==
  ASSUME IInv, [Next]_vars, told' = told
  PROVE  \/ BarLedger' = BarLedger /\ BarTold' = BarTold
         \/ \E e \in Honest, p \in Payloads : Ledger!Record(e, p)
<1>0. BarTold' = BarTold
  BY DEF BarTold
<1>1. CASE \A e \in Honest : rows'[e] = rows[e]
  BY <1>0, <1>1 DEF BarLedger
<1>2. ASSUME NEW e \in Honest, rows'[e] # rows[e]
      PROVE  \E p \in Payloads : Ledger!Record(e, p)
  <2>1. e \in Events /\ rows[e] = <<>>
    BY <1>2, HonestIsSteady, SteadyRowKept DEF IInv
  <2>2. PICK w \in Runs : phase[w] = "insert" /\ InsertRow(key[w][1], key[w][2]) /\ ~UNCHANGED table
    BY <1>2, TableStep DEF InsertOfRun, table
  <2>3. /\ Len(rows'[key[w][1]]) = Len(rows[key[w][1]]) + 1
        /\ rows'[key[w][1]][Len(rows[key[w][1]]) + 1] = key[w][2]
        /\ \A x \in Events \ {key[w][1]} : rows'[x] = rows[x]
    BY <2>2, InsertEffect DEF IInv
  <2>4. key[w][1] = e
    BY <1>2, <2>1, <2>3
  <2>5. Len(rows[e]) = 0
    BY <2>1, RowLengths DEF IInv
  <2>6. Len(rows'[e]) = 1 /\ rows'[e][1] = key[w][2]
    BY <2>3, <2>4, <2>5
  <2>7. rows'[e] # <<>>
    BY <2>6, EmptySeq
  <2>8. key[w][2] \in Payloads
    BY <2>2, KeyOfRun DEF IInv
  <2>9. \A x \in Honest \ {e} : rows'[x] = rows[x]
    BY <2>3, <2>4, HonestIsSteady
  <2>10. BarLedger' = [BarLedger EXCEPT ![e] = key[w][2]] /\ BarLedger[e] = NoPayload
    BY <2>1, <2>6, <2>7, <2>9 DEF BarLedger
  <2> QED
    BY <1>0, <2>8, <2>10 DEF Ledger!Record, BarLedger, BarTold
<1> QED
  BY <1>1, <1>2

\* An answer to an honest producer is one the ledger may give.
LEMMA AnswerIsTold ==
  ASSUME IInv, NEW w \in Runs, Respond(w)
  PROVE  Ledger!Next \/ UNCHANGED Ledger!vars
<1>0. /\ key[w] \in Sent \union {NoKey} /\ code[w] \in Codes
      /\ told \in [Keys -> SUBSET (Codes \ {401})] /\ phase[w] = "answer"
      /\ Honest \X Payloads \subseteq Keys
  BY DEF IInv, TInv, TypeOK, Respond, Honest, Keys
<1>1. told' = [k \in Keys |-> IF k = key[w] THEN told[k] \union {code[w]} ELSE told[k]]
      /\ BarLedger' = BarLedger
  BY DEF Respond, table, BarLedger
<1>2. CASE key[w] \notin Honest \X Payloads
  <2>1. BarTold' = BarTold
    BY <1>0, <1>1, <1>2 DEF BarTold
  <2> QED
    BY <1>1, <2>1 DEF Ledger!vars, BarLedger, BarTold
<1>3. CASE key[w] \in Honest \X Payloads
  <2>1. PICK e \in Honest, p \in Payloads : key[w] = <<e, p>>
    BY <1>3
  <2>2. key[w] \in Sent /\ code[w] # 401
    BY <1>0, <1>3, NoKeyIsNoKey DEF IInv, TInv, RunsAtNodes
  <2>3. Warranted(key[w], code[w])
    BY <1>0, <2>2 DEF IInv, AnswersWarranted
  <2>4. BarTold' = [BarTold EXCEPT ![<<e, p>>] = @ \union {code[w]}]
    BY <1>0, <1>1, <2>1 DEF BarTold
  <2>5. Ledger!Tell(e, p, code[w])
    BY <1>1, <2>4 DEF Ledger!Tell, BarLedger, BarTold
  <2>6. code[w] \in {200, 202, 400}
    BY <1>0, <2>1, <2>2, <2>3 DEF Codes, Warranted
  <2>7. CASE code[w] = 400
    <3>1. Ledger!Refuse(e, p)
      BY <2>5, <2>7 DEF Ledger!Refuse, Ledger!Tell
    <3> QED
      BY <3>1 DEF Ledger!Next
  <2>8. CASE code[w] \in {200, 202}
    <3>1. BarLedger[e] = p
      BY <2>1, <2>2, <2>3, <2>8, AcceptedIsRecorded DEF BarLedger
    <3>2. Ledger!Acknowledge(e, p)
      BY <2>5, <2>8, <3>1 DEF Ledger!Acknowledge, Ledger!Tell, BarLedger
    <3> QED
      BY <3>2 DEF Ledger!Next
  <2> QED
    BY <2>6, <2>7, <2>8
<1> QED
  BY <1>2, <1>3

\* The workflow keeps the promises of EventLedger to its honest producers,
\* whatever their events' months.
THEOREM LedgerKept == Spec => ImplementsLedger
<1>1. Init => Ledger!Init
  <2> SUFFICES ASSUME Init PROVE Ledger!Init
    OBVIOUS
  <2>1. \A e \in Honest : rows[e] = <<>>
    BY HonestIsSteady DEF Init
  <2>2. \A k \in Honest \X Payloads : told[k] = {}
    BY HonestIsSteady DEF Init, Keys
  <2> QED
    BY <2>1, <2>2 DEF Ledger!Init
<1>2. IInv /\ [Next]_vars => [Ledger!Next]_(Ledger!vars)
  <2> SUFFICES ASSUME IInv, [Next]_vars PROVE Ledger!Next \/ UNCHANGED Ledger!vars
    OBVIOUS
  <2>1. CASE \E w \in Runs : Respond(w)
    BY <2>1, AnswerIsTold
  <2>2. CASE ~\E w \in Runs : Respond(w)
    <3>1. told' = told
      BY <2>2 DEF Next, Progress, Receive, ReceiveUnauthorized, Check, Insert, RequestFailed,
                  Lost, vars
    <3>2. CASE BarLedger' = BarLedger /\ BarTold' = BarTold
      BY <3>2 DEF Ledger!vars, BarLedger, BarTold
    <3>3. CASE \E e \in Honest, p \in Payloads : Ledger!Record(e, p)
      BY <3>3 DEF Ledger!Next
    <3> QED
      BY <3>1, <3>2, <3>3, TableStepIsRecord
  <2> QED
    BY <2>1, <2>2
<1> QED
  BY <1>1, <1>2, IInvHolds, PTL DEF Spec, ImplementsLedger, Ledger!Spec
=============================================================================
