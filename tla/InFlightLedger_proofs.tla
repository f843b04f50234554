------------------------ MODULE InFlightLedger_proofs ------------------------
(***************************************************************************)
(* Proofs about InFlightLedger, for every table size, number of fields and *)
(* set of agents: an entry has one holder, its fields are its activity's   *)
(* or zero, and a walk never reads what an earlier activity left, and      *)
(* reports exactly what stood still.                                       *)
(*                                                                         *)
(* The inductive invariant adds how far free() has come with an entry that *)
(* is being emptied, that claims are numbered from 1, and that the         *)
(* activity of the entry under the walker can only be replaced by a later  *)
(* one.  The exact walk has an invariant of its own (ExactInv): what a     *)
(* steady entry's report holds, and that the walker has not passed one     *)
(* without reporting it.                                                   *)
(***************************************************************************)
EXTENDS InFlightLedger, TLAPS

\* A holder's claim is numbered; the fields free() has passed are zero.
HolderInv ==
    \A a \in Agents :
        /\ Holding(a) => held[a] # 0
        /\ pc[a] = "empty" => \A f \in Fields : f < next[a] => field[at[a]][f] = Zero
        /\ pc[a] = "release" => \A f \in Fields : field[at[a]][f] = Zero
        /\ pc[a] = "busy" => next[a] = 1

NumberInv == \A e \in Entries : activity[e] <= claims

NeverOlder(r) == \A k \in DOMAIN r.fields : r.fields[k] = Zero \/ r.fields[k][1] >= r.activity

\* What the walker has read so far.
WalkInv ==
    wpc = "read" =>
        /\ record.activity <= claims
        /\ activity[walked] = 0 \/ activity[walked] >= record.activity
        /\ Len(record.fields) < NumFields
        /\ NeverOlder(record)

IInv == TypeOK /\ OneHolder /\ NoGarbage /\ HolderInv /\ NumberInv /\ WalkInv /\ WalkNeverOlder

-----------------------------------------------------------------------------
(* Types.                                                                  *)

\* The initial state is typed.
LEMMA TypeInit == Init => TypeOK
<1> SUFFICES ASSUME Init PROVE TypeOK
  OBVIOUS
<1> USE LedgerAssumption DEF Init
<1>1. Zero \in Values /\ 1 \in Entries /\ 1 \in Fields
  BY DEF Zero, Values, Entries, Fields
<1>2. record \in Records /\ report \in Seq(Records)
  BY <1>1 DEF NoRecord, Records
<1> QED
  BY <1>1, <1>2 DEF TypeOK

\* One field stored: Fill, Write and Empty.
LEMMA TypeStore ==
    ASSUME TypeOK, NEW a \in Agents, NEW value \in Values,
           NEW during \in {"fill", "busy", "rewrite", "empty", "release"},
           NEW after \in {"fill", "busy", "rewrite", "empty", "release"},
           Store(a, value, during, after)
    PROVE  TypeOK'
<1> USE LedgerAssumption DEF TypeOK, Store, walker
<1>1. at[a] \in Entries /\ next[a] \in Fields
  OBVIOUS
<1>2. field' \in [Entries -> [Fields -> Values]]
  BY <1>1
<1>3. next' \in [Agents -> Fields]
  BY <1>1 DEF Fields
<1>4. pc' \in [Agents -> {"idle", "scan", "fill", "busy", "rewrite", "empty", "release"}]
  OBVIOUS
<1> QED
  BY <1>2, <1>3, <1>4

\* What an agent stores, and what it reads back, are values of the table.
LEMMA StoredValues ==
    ASSUME TypeOK, NEW a \in Agents
    PROVE  /\ Zero \in Values
           /\ <<held[a], 0>> \in Values /\ <<held[a], 1>> \in Values
           /\ field[at[a]][next[a]] \in Values
BY LedgerAssumption DEF TypeOK, Values, Zero

\* Every step of an agent or of the walker keeps the types.
LEMMA TypeStep == TypeOK /\ WalkInv /\ [Next]_vars => TypeOK'
<1> SUFFICES ASSUME TypeOK, WalkInv, [Next]_vars PROVE TypeOK'
  OBVIOUS
<1> USE LedgerAssumption
<1>1. ASSUME NEW a \in Agents, BeginClaim(a) PROVE TypeOK'
  BY <1>1 DEF TypeOK, BeginClaim, Entries, table, walker
<1>2. ASSUME NEW a \in Agents, Scan(a) PROVE TypeOK'
  <2>1. at[a] \in Entries /\ claims + 1 \in 0 .. MaxClaims
    BY <1>2 DEF TypeOK, Scan
  <2>2. CASE CompareExchange(a) /\ claims' = claims + 1 /\ held' = [held EXCEPT ![a] = claims + 1]
             /\ pc' = [pc EXCEPT ![a] = "fill"] /\ UNCHANGED at
    BY <1>2, <2>1, <2>2 DEF TypeOK, Scan, CompareExchange, Fields, walker
  <2>3. CASE activity[at[a]] # 0 /\ at[a] < Capacity /\ at' = [at EXCEPT ![a] = @ + 1]
             /\ UNCHANGED <<pc, activity, claims, held>>
    <3>1. at' \in [Agents -> Entries] /\ next' \in [Agents -> Fields]
      BY <1>2, <2>1, <2>3 DEF TypeOK, Scan, Entries, Fields
    <3> QED
      BY <1>2, <2>3, <3>1 DEF TypeOK, Scan, walker
  <2>4. CASE activity[at[a]] # 0 /\ pc' = [pc EXCEPT ![a] = "idle"]
             /\ UNCHANGED <<at, activity, claims, held>>
    BY <1>2, <2>1, <2>4 DEF TypeOK, Scan, Fields, walker
  <2> QED
    BY <1>2, <2>2, <2>3, <2>4 DEF Scan
<1>3. ASSUME NEW a \in Agents, Fill(a) PROVE TypeOK'
  BY <1>3, StoredValues, TypeStore DEF Fill
<1>4. ASSUME NEW a \in Agents, Write(a) PROVE TypeOK'
  BY <1>4, StoredValues, TypeStore DEF Write
<1>5. ASSUME NEW a \in Agents, Empty(a) PROVE TypeOK'
  BY <1>5, StoredValues, TypeStore DEF Empty
<1>6. ASSUME NEW a \in Agents, Release(a) PROVE TypeOK'
  BY <1>6 DEF TypeOK, Release, walker
<1>7. CASE BeginWalk
  <2>1. NoRecord \in Records
    BY DEF NoRecord, Records, Entries
  <2> QED
    BY <1>7, <2>1 DEF TypeOK, BeginWalk, Entries, table, agents
<1>8. CASE Probe
  <2>1. walked' \in Entries /\ wpc' \in {"idle", "probe", "read", "done"}
    BY <1>8 DEF TypeOK, Probe, Advance, Entries
  <2>2. record' \in Records
    <3>1. Busy(walked) \in BOOLEAN
      BY DEF Busy
    <3>2. [entry |-> walked, activity |-> activity[walked], complete |-> Busy(walked),
           fields |-> <<>>] \in Records
      BY <3>1 DEF TypeOK, Records
    <3> QED
      BY <1>8, <3>2 DEF TypeOK, Probe
  <2> QED
    BY <1>8, <2>1, <2>2 DEF TypeOK, Probe, table, agents
<1>9. CASE Read
  <2>1. walked' \in Entries /\ wpc' \in {"idle", "probe", "read", "done"}
    BY <1>9 DEF TypeOK, Read, Advance, Entries
  <2>2. record' \in Records
    <3>1. Len(record.fields) + 1 \in Fields /\ record.fields \in Seq(Values)
      BY <1>9 DEF TypeOK, WalkInv, Read, Records, Fields
    <3>2. field[walked][Len(record.fields) + 1] \in Values
      BY <3>1 DEF TypeOK
    <3>3. Append(record.fields, field[walked][Len(record.fields) + 1]) \in Seq(Values)
      BY <3>1, <3>2
    <3> QED
      BY <1>9, <3>3 DEF TypeOK, Read, Records
  <2>3. report' \in Seq(Records)
    <3>1. Append(report, record') \in Seq(Records)
      BY <2>2 DEF TypeOK
    <3>2. report' = report \/ report' = Append(report, record')
      BY <1>9 DEF Read
    <3> QED
      BY <3>1, <3>2 DEF TypeOK
  <2> QED
    BY <1>9, <2>1, <2>2, <2>3 DEF TypeOK, Read, table, agents
<1>10. CASE UNCHANGED vars
  BY <1>10 DEF TypeOK, vars, table, agents, walker
<1> QED
  BY <1>1, <1>2, <1>3, <1>4, <1>5, <1>6, <1>7, <1>8, <1>9, <1>10 DEF Next
-----------------------------------------------------------------------------
(* The table: one holder, and nobody else's words.                         *)

TableInv == OneHolder /\ NoGarbage /\ HolderInv /\ NumberInv

\* The free table is sound, with every entry on its free list.
LEMMA TableInit == Init => TableInv
<1> SUFFICES ASSUME Init PROVE TableInv
  OBVIOUS
<1> USE LedgerAssumption DEF Init
<1>1. OneHolder /\ HolderInv
  BY DEF OneHolder, HolderInv, Holding
<1>2. NoGarbage /\ NumberInv
  BY DEF NoGarbage, NumberInv
<1> QED
  BY <1>1, <1>2 DEF TableInv

\* A store of the entry's holder, of its own value or zero, keeps all but the
\* account of what free() has passed.
LEMMA TableStore ==
    ASSUME TypeOK, TableInv, NEW a \in Agents, Holding(a), NEW value,
           value = Zero \/ value[1] = held[a],
           NEW during \in {"fill", "busy", "rewrite", "empty", "release"},
           NEW after \in {"fill", "busy", "rewrite", "empty", "release"},
           Store(a, value, during, after)
    PROVE  /\ OneHolder' /\ NoGarbage' /\ NumberInv'
           /\ \A b \in Agents : Holding(b)' => held'[b] # 0
<1> USE DEF Store, walker
<1>1. at[a] \in Entries /\ activity[at[a]] = held[a] /\ held[a] # 0
  BY DEF TypeOK, TableInv, OneHolder, HolderInv
<1>2. UNCHANGED <<activity, claims, at, held>>
  OBVIOUS
<1>3. \A b \in Agents : Holding(b)' <=> Holding(b)
  BY DEF TypeOK, Holding
<1>4. OneHolder'
  BY <1>2, <1>3 DEF TableInv, OneHolder
<1>5. NoGarbage'
  BY <1>1, <1>2 DEF TypeOK, TableInv, NoGarbage
<1>6. NumberInv'
  BY <1>2 DEF TableInv, NumberInv
<1>7. \A b \in Agents : Holding(b)' => held'[b] # 0
  BY <1>2, <1>3 DEF TableInv, HolderInv
<1> QED
  BY <1>4, <1>5, <1>6, <1>7

\* Entries held by others are not touched by a store.
LEMMA OtherStages ==
    ASSUME TypeOK, TableInv, NEW a \in Agents, Holding(a), NEW value, NEW during, NEW after,
           Store(a, value, during, after), NEW b \in Agents, b # a
    PROVE  /\ pc'[b] = "empty" => \A f \in Fields : f < next'[b] => field'[at'[b]][f] = Zero
           /\ pc'[b] = "release" => \A f \in Fields : field'[at'[b]][f] = Zero
           /\ pc'[b] = "busy" => next'[b] = 1
<1>1. pc'[b] = pc[b] /\ next'[b] = next[b] /\ at'[b] = at[b]
  BY DEF Store, TypeOK
<1>2. pc[b] \in {"empty", "release"} => at[b] # at[a] /\ field'[at[b]] = field[at[b]]
  BY DEF Store, TypeOK, TableInv, OneHolder, Holding
<1> QED
  BY <1>1, <1>2 DEF TableInv, HolderInv

\* Every step keeps the table sound.
LEMMA TableStep == TypeOK /\ TableInv /\ [Next]_vars => TableInv'
<1> SUFFICES ASSUME TypeOK, TableInv, [Next]_vars PROVE TableInv'
  OBVIOUS
<1> USE LedgerAssumption
<1>1. ASSUME NEW a \in Agents, BeginClaim(a) PROVE TableInv'
  <2>1. \A b \in Agents : Holding(b)' <=> Holding(b)
    BY <1>1 DEF TypeOK, BeginClaim, Holding
  <2>2. \A b \in Agents : Holding(b) => at'[b] = at[b] /\ pc'[b] = pc[b]
    BY <1>1 DEF TypeOK, BeginClaim, Holding
  <2>3. OneHolder'
    BY <1>1, <2>1, <2>2 DEF TableInv, OneHolder, BeginClaim, table
  <2>4. HolderInv'
    BY <1>1, <2>1, <2>2 DEF TableInv, HolderInv, BeginClaim, table, Holding
  <2> QED
    BY <1>1, <2>3, <2>4 DEF TableInv, NoGarbage, NumberInv, BeginClaim, table
<1>2. ASSUME NEW a \in Agents, Scan(a) PROVE TableInv'
  <2> DEFINE e == at[a]
  <2>0. e \in Entries /\ pc[a] = "scan" /\ ~Holding(a)
    BY <1>2 DEF TypeOK, Scan, Holding
  <2>1. CASE CompareExchange(a) /\ claims' = claims + 1 /\ held' = [held EXCEPT ![a] = claims + 1]
             /\ pc' = [pc EXCEPT ![a] = "fill"] /\ UNCHANGED at
    <3>1. \A b \in Agents : b # a => (Holding(b)' <=> Holding(b)) /\ held'[b] = held[b]
                                      /\ pc'[b] = pc[b] /\ next'[b] = next[b]
      BY <1>2, <2>1 DEF TypeOK, Scan, Holding
    <3>2. \A b \in Agents : Holding(b) => at[b] # e
      BY <2>1 DEF TableInv, OneHolder, HolderInv, CompareExchange
    <3>3. activity' = [activity EXCEPT ![e] = claims + 1] /\ activity[e] = 0 /\ field' = field
      BY <1>2, <2>1 DEF CompareExchange, Scan
    <3>4. held'[a] = claims + 1 /\ claims + 1 # 0 /\ pc'[a] = "fill"
      BY <2>1 DEF TypeOK
    <3>5. OneHolder'
      BY <2>0, <2>1, <3>1, <3>2, <3>3, <3>4 DEF TypeOK, TableInv, OneHolder
    <3>6. HolderInv'
      <4> SUFFICES ASSUME NEW b \in Agents
                   PROVE  /\ Holding(b)' => held'[b] # 0
                          /\ pc'[b] = "empty" => \A f \in Fields : f < next'[b] => field'[at'[b]][f] = Zero
                          /\ pc'[b] = "release" => \A f \in Fields : field'[at'[b]][f] = Zero
                          /\ pc'[b] = "busy" => next'[b] = 1
        BY DEF HolderInv
      <4>1. CASE b = a
        BY <3>4, <4>1 DEF Holding
      <4>2. CASE b # a
        BY <2>1, <3>1, <3>3, <4>2 DEF TableInv, HolderInv
      <4> QED
        BY <4>1, <4>2
    <3>7. NoGarbage'
      BY <2>0, <3>3 DEF TypeOK, TableInv, NoGarbage, Zero, Values
    <3>8. NumberInv'
      BY <2>0, <2>1, <3>3 DEF TypeOK, TableInv, NumberInv
    <3> QED
      BY <3>5, <3>6, <3>7, <3>8 DEF TableInv
  <2>2. CASE activity[at[a]] # 0 /\ UNCHANGED <<activity, claims, held>>
    <3>1. \A b \in Agents : Holding(b)' <=> Holding(b)
      BY <1>2, <2>0, <2>2 DEF TypeOK, Scan, Holding, CompareExchange
    <3>2. \A b \in Agents : Holding(b) => at'[b] = at[b] /\ pc'[b] = pc[b] /\ next'[b] = next[b]
      BY <1>2, <2>0, <2>2 DEF TypeOK, Scan, Holding, CompareExchange
    <3>3. OneHolder'
      BY <2>2, <3>1, <3>2 DEF TableInv, OneHolder
    <3>4. HolderInv'
      BY <1>2, <2>2, <3>1, <3>2 DEF TableInv, HolderInv, Scan, Holding
    <3> QED
      BY <1>2, <2>2, <3>3, <3>4 DEF TableInv, NoGarbage, NumberInv, Scan
  <2> QED
    BY <1>2, <2>1, <2>2 DEF Scan
<1>3. ASSUME NEW a \in Agents, Fill(a) PROVE TableInv'
  <2>1. Holding(a) /\ Store(a, <<held[a], 0>>, "fill", "busy")
    BY <1>3 DEF Fill, Holding
  <2>2. pc'[a] \in {"fill", "busy"} /\ (pc'[a] = "busy" => next'[a] = 1)
    BY <2>1 DEF TypeOK, Store
  <2> QED
    BY <2>1, <2>2, TableStore, OtherStages DEF TableInv, HolderInv
<1>4. ASSUME NEW a \in Agents, Write(a) PROVE TableInv'
  <2>1. Holding(a)
    BY <1>4 DEF Write, Holding
  <2>2. PICK value \in {field[at[a]][next[a]], <<held[a], 1>>} : Store(a, value, "rewrite", "busy")
    BY <1>4 DEF Write
  <2>3. value = Zero \/ value[1] = held[a]
    BY <2>1, <2>2 DEF TypeOK, TableInv, OneHolder, NoGarbage
  <2>4. pc'[a] \in {"rewrite", "busy"} /\ (pc'[a] = "busy" => next'[a] = 1)
    BY <2>2 DEF TypeOK, Store
  <2> QED
    BY <2>1, <2>2, <2>3, <2>4, TableStore, OtherStages DEF TableInv, HolderInv
<1>5. ASSUME NEW a \in Agents, Empty(a) PROVE TableInv'
  <2>1. Holding(a) /\ pc[a] \in {"busy", "empty"} /\ Store(a, Zero, "empty", "release")
    BY <1>5 DEF Empty, Holding
  <2>2. /\ OneHolder' /\ NoGarbage' /\ NumberInv'
        /\ \A b \in Agents : Holding(b)' => held'[b] # 0
    BY <2>1, TableStore
  <2>3. at'[a] = at[a] /\ at[a] \in Entries /\ next[a] \in Fields
    BY <2>1 DEF TypeOK, Store
  <2>4. field'[at[a]] = [field[at[a]] EXCEPT ![next[a]] = Zero]
    BY <2>1, <2>3 DEF TypeOK, Store
  <2>5. \A f \in Fields : f < next[a] => field[at[a]][f] = Zero
    BY <2>1, <2>3 DEF TypeOK, TableInv, HolderInv, Fields
  <2>6. \A f \in Fields : f <= next[a] => field'[at[a]][f] = Zero
    BY <2>3, <2>4, <2>5 DEF TypeOK, Fields
  <2>7. /\ pc'[a] = "empty" => \A f \in Fields : f < next'[a] => field'[at'[a]][f] = Zero
        /\ pc'[a] = "release" => \A f \in Fields : field'[at'[a]][f] = Zero
        /\ pc'[a] # "busy"
    BY <2>1, <2>3, <2>6 DEF TypeOK, Store, Fields
  <2> QED
    BY <2>1, <2>2, <2>7, OtherStages DEF TableInv, HolderInv
<1>6. ASSUME NEW a \in Agents, Release(a) PROVE TableInv'
  <2>1. at[a] \in Entries /\ pc[a] = "release" /\ Holding(a) /\ ~Holding(a)'
    BY <1>6 DEF TypeOK, Release, Holding
  <2>2. \A b \in Agents : b # a => (Holding(b)' <=> Holding(b)) /\ pc'[b] = pc[b]
    BY <1>6 DEF TypeOK, Release, Holding
  <2>3. \A b \in Agents : b # a /\ Holding(b) => activity'[at[b]] = activity[at[b]]
    BY <1>6, <2>1 DEF TypeOK, Release, TableInv, OneHolder
  <2>4. OneHolder'
    BY <1>6, <2>1, <2>2, <2>3 DEF Release, TableInv, OneHolder
  <2>5. HolderInv'
    BY <1>6, <2>1, <2>2 DEF Release, TableInv, HolderInv, Holding
  <2>6. NoGarbage'
    BY <1>6, <2>1 DEF TypeOK, Release, TableInv, NoGarbage, HolderInv
  <2>7. NumberInv'
    BY <1>6, <2>1 DEF TypeOK, Release, TableInv, NumberInv
  <2> QED
    BY <2>4, <2>5, <2>6, <2>7 DEF TableInv
<1>7. CASE BeginWalk \/ Probe \/ Read \/ UNCHANGED vars
  <2>1. UNCHANGED <<table, agents>>
    BY <1>7 DEF BeginWalk, Probe, Read, vars
  <2> QED
    BY <2>1 DEF TableInv, OneHolder, NoGarbage, HolderInv, NumberInv, Holding, table, agents
<1> QED
  BY <1>1, <1>2, <1>3, <1>4, <1>5, <1>6, <1>7 DEF Next

-----------------------------------------------------------------------------
(* The walk.                                                               *)

\* Before it begins, a walk has listed nothing.
LEMMA WalkInit == Init => WalkInv /\ WalkNeverOlder
BY DEF Init, WalkInv, WalkNeverOlder

\* An agent's step replaces the activity under the walker by FREE or a new claim.
LEMMA WalkAgents ==
    ASSUME TypeOK, NumberInv, WalkInv, WalkNeverOlder, NEW a \in Agents,
           BeginClaim(a) \/ Scan(a) \/ Fill(a) \/ Write(a) \/ Empty(a) \/ Release(a)
    PROVE  WalkInv' /\ WalkNeverOlder'
<1>1. UNCHANGED <<wpc, walked, record, report>>
  BY DEF BeginClaim, Scan, Fill, Write, Empty, Store, Release, walker
<1>2. claims' \in Nat /\ claims' >= claims
  BY LedgerAssumption DEF TypeOK, BeginClaim, Scan, Fill, Write, Empty, Store, Release, table
<1>3. \/ activity'[walked] = activity[walked]
      \/ activity'[walked] = 0
      \/ activity'[walked] = claims + 1
  BY DEF TypeOK, BeginClaim, Scan, CompareExchange, Fill, Write, Empty, Store, Release, table
<1>4. record.activity \in Nat /\ activity[walked] \in Nat /\ claims \in Nat
  BY LedgerAssumption DEF TypeOK, Records
<1>5. WalkInv'
  BY <1>1, <1>2, <1>3, <1>4 DEF WalkInv, NeverOlder
<1> QED
  BY <1>1, <1>5 DEF WalkNeverOlder

\* The walker's own steps keep the account of what it has listed.
LEMMA WalkWalker ==
    ASSUME TypeOK, NoGarbage, NumberInv, WalkInv, WalkNeverOlder, BeginWalk \/ Probe \/ Read
    PROVE  WalkInv' /\ WalkNeverOlder'
<1> USE LedgerAssumption
<1>1. CASE BeginWalk
  BY <1>1 DEF BeginWalk, WalkInv, WalkNeverOlder
<1>2. CASE Probe
  <2>1. WalkNeverOlder'
    BY <1>2 DEF Probe, WalkNeverOlder
  <2>2. CASE activity[walked] = 0
    BY <1>2, <2>1, <2>2 DEF TypeOK, Probe, Advance, WalkInv
  <2>3. CASE activity[walked] # 0
    <3>1. /\ record' = [entry |-> walked, activity |-> activity[walked],
                       complete |-> Busy(walked), fields |-> <<>>]
          /\ UNCHANGED <<walked, activity, claims>>
      BY <1>2, <2>3 DEF Probe, table
    <3>2. record'.activity = activity[walked] /\ record'.fields = <<>>
      BY <3>1
    <3>3. activity[walked] \in Nat /\ activity[walked] <= claims
      BY DEF TypeOK, NumberInv
    <3>4. WalkInv'
      BY <3>1, <3>2, <3>3 DEF WalkInv, NeverOlder
    <3> QED
      BY <2>1, <3>4
  <2> QED
    BY <2>2, <2>3
<1>3. CASE Read
  <2> DEFINE n == Len(record.fields) + 1
             v == field[walked][n]
  <2>1. /\ wpc = "read" /\ record \in Records /\ record.fields \in Seq(Values)
        /\ n \in Fields /\ v \in Values /\ walked \in Entries
    BY <1>3 DEF TypeOK, Read, Records, WalkInv, Fields
  <2>2. /\ record'.fields = Append(record.fields, v) /\ record'.activity = record.activity
        /\ UNCHANGED <<activity, claims>>
    BY <1>3, <2>1 DEF Read, Records, table
  <2>3. v = Zero \/ v[1] >= record.activity
    BY <2>1 DEF TypeOK, NoGarbage, WalkInv, Records
  <2>4. NeverOlder(record')
    <3>1. NeverOlder(record)
      BY <2>1 DEF WalkInv
    <3> QED
      BY <2>1, <2>2, <2>3, <3>1 DEF NeverOlder
  <2>5. CASE n = NumFields
    <3>1. wpc' # "read" /\ report' = Append(report, record')
      BY <1>3, <2>1, <2>2, <2>5 DEF Read, Advance
    <3>2. report \in Seq(Records)
      BY DEF TypeOK
    <3>3. WalkNeverOlder'
      BY <2>4, <3>1, <3>2 DEF WalkNeverOlder, NeverOlder
    <3> QED
      BY <3>1, <3>3 DEF WalkInv
  <2>6. CASE n # NumFields
    <3>1. UNCHANGED <<report, walked, wpc>> /\ Len(record'.fields) = n /\ n < NumFields
      BY <1>3, <2>1, <2>2, <2>6 DEF Read, Fields
    <3>2. WalkInv'
      BY <2>1, <2>2, <2>4, <3>1 DEF WalkInv
    <3> QED
      BY <3>1, <3>2 DEF WalkNeverOlder
  <2> QED
    BY <2>5, <2>6
<1> QED
  BY <1>1, <1>2, <1>3

-----------------------------------------------------------------------------
(* The walk is exact about what nobody touches.                            *)

Walking == wpc \in {"probe", "read"}

\* The walk has the entry behind it.
Past(e) == wpc = "done" \/ (Walking /\ e < walked)

\* Entry e is reported, once, as it stands.
Reported(e) ==
    \E k \in 1 .. Len(report) :
        /\ report[k].entry = e /\ report[k].activity = activity[e]
        /\ report[k].fields = field[e]
        /\ \A l \in 1 .. Len(report) : report[l].entry = e => l = k

\* An untouched entry keeps its activity, so the walk cannot pass it over; what
\* has been read of it so far is what it holds; and the entries reported are
\* behind the walk, so that none is reported twice.
ExactInv ==
    /\ \A e \in steady : activity[e] # 0
    /\ Walking => \A k \in 1 .. Len(report) : report[k].entry < walked
    /\ wpc = "read" =>
         /\ record.entry = walked
         /\ walked \in steady =>
              /\ record.activity = activity[walked]
              /\ \A f \in 1 .. Len(record.fields) : record.fields[f] = field[walked][f]
    /\ \A e \in steady : Past(e) => Reported(e)

\* A step of an agent touches no entry that stays untouched.
LEMMA SteadyUntouched ==
    ASSUME TypeOK, TableInv, ExactInv, NEW a \in Agents,
           BeginClaim(a) \/ Scan(a) \/ Fill(a) \/ Write(a) \/ Empty(a) \/ Release(a)
    PROVE  /\ steady' \subseteq steady
           /\ \A e \in steady' : activity'[e] = activity[e] /\ field'[e] = field[e]
           /\ UNCHANGED walker
<1> USE DEF TypeOK
<1>1. CASE BeginClaim(a)
  BY <1>1 DEF BeginClaim, table
<1>2. CASE Scan(a)
  BY <1>2 DEF Scan, CompareExchange, ExactInv
<1>3. ASSUME NEW value, NEW during, NEW after, Store(a, value, during, after)
      PROVE  /\ steady' \subseteq steady
             /\ \A e \in steady' : activity'[e] = activity[e] /\ field'[e] = field[e]
             /\ UNCHANGED walker
  BY <1>3 DEF Store
<1>4. CASE Fill(a) \/ Write(a) \/ Empty(a)
  BY <1>3, <1>4 DEF Fill, Write, Empty
<1>5. CASE Release(a)
  BY <1>5 DEF Release
<1> QED
  BY <1>1, <1>2, <1>4, <1>5

\* An agent's step keeps exact what was listed of the entries nobody touches.
LEMMA ExactAgents ==
    ASSUME TypeOK, TableInv, ExactInv, NEW a \in Agents,
           BeginClaim(a) \/ Scan(a) \/ Fill(a) \/ Write(a) \/ Empty(a) \/ Release(a)
    PROVE  ExactInv'
<1>1. /\ steady' \subseteq steady
      /\ \A e \in steady' : activity'[e] = activity[e] /\ field'[e] = field[e]
      /\ UNCHANGED <<wpc, walked, record, report>>
  BY SteadyUntouched DEF walker
<1>2. \A e \in steady' : Reported(e) => Reported(e)'
  BY <1>1 DEF Reported
<1>3. \A e \in steady' : Past(e)' => Past(e)
  BY <1>1 DEF Past, Walking
<1>4. \A e \in steady' : Past(e)' => Reported(e)'
  BY <1>1, <1>2, <1>3 DEF ExactInv
<1> QED
  BY <1>1, <1>4 DEF ExactInv, Walking

\* The walk leaves the table alone; an advance leaves behind the entry it was at.
LEMMA ExactAdvance ==
    ASSUME TypeOK, ExactInv, Walking, Advance, UNCHANGED <<table, steady>>,
           \A e \in steady : e < walked /\ Reported(e) => Reported(e)',
           \A e \in steady : e = walked => Reported(e)',
           \A k \in 1 .. Len(report') : report'[k].entry \in 1 .. walked
    PROVE  ExactInv'
<1>1. UNCHANGED <<activity, field, steady>>
  BY DEF table
<1>2. walked \in 1 .. Capacity /\ steady \subseteq 1 .. Capacity /\ Capacity \in Nat
  BY LedgerAssumption DEF TypeOK, Entries
<1>3. \/ walked < Capacity /\ walked' = walked + 1 /\ wpc' = "probe"
      \/ walked = Capacity /\ walked' = walked /\ wpc' = "done"
  BY <1>2 DEF Advance
<1>4. \A e \in steady : Past(e)' => e < walked \/ e = walked
  BY <1>2, <1>3 DEF Past, Walking
<1>5. \A e \in steady : e < walked => Reported(e)'
  BY DEF ExactInv, Past
<1>6. \A e \in steady' : Past(e)' => Reported(e)'
  BY <1>1, <1>4, <1>5
<1>7. Walking' => \A k \in 1 .. Len(report') : report'[k].entry < walked'
  BY <1>2, <1>3 DEF Walking
<1>8. \A e \in steady' : activity'[e] # 0
  BY <1>1 DEF ExactInv
<1> QED
  BY <1>3, <1>6, <1>7, <1>8 DEF ExactInv

\* So does the walker's, which lists each of them once.
LEMMA ExactWalker ==
    ASSUME TypeOK, TableInv, WalkInv, ExactInv, BeginWalk \/ Probe \/ Read
    PROVE  ExactInv'
<1> USE LedgerAssumption
<1>0. walked \in Entries /\ report \in Seq(Records) /\ record \in Records /\ steady \subseteq Entries
  BY DEF TypeOK
<1>00. \A k \in 1 .. Len(report) : report[k].entry \in Entries
  <2>1. \A k \in 1 .. Len(report) : report[k] \in Records
    BY <1>0
  <2> QED
    BY <2>1 DEF Records
<1>1. CASE BeginWalk
  <2>1. /\ UNCHANGED activity /\ walked' = 1 /\ wpc' = "probe" /\ report' = <<>>
        /\ steady' = {e \in Entries : Busy(e)}
    BY <1>1 DEF BeginWalk, table
  <2>2. \A e \in steady' : activity[e] # 0
    BY <2>1 DEF Busy, TableInv, OneHolder, HolderInv, Holding
  <2>3. \A e \in steady' : ~Past(e)'
    BY <2>1 DEF Past, Entries
  <2> QED
    BY <2>1, <2>2, <2>3 DEF ExactInv
<1>2. CASE Probe
  <2>1. wpc = "probe" /\ UNCHANGED <<table, report, steady>> /\ Walking
    BY <1>2 DEF Probe, Walking
  <2>2. \A e : Reported(e) => Reported(e)'
    BY <2>1 DEF Reported, table
  <2>3. \A k \in 1 .. Len(report) : report[k].entry \in Entries /\ report[k].entry < walked
    BY <1>00, <2>1 DEF ExactInv
  <2>4. CASE activity[walked] = 0
    <3>1. walked \notin steady /\ Advance
      BY <1>2, <2>4 DEF Probe, ExactInv
    <3>2. \A k \in 1 .. Len(report') : report'[k].entry \in 1 .. walked
      BY <1>0, <2>1, <2>3 DEF Entries
    <3> QED
      BY <2>1, <2>2, <3>1, <3>2, ExactAdvance
  <2>5. CASE activity[walked] # 0
    <3>1. /\ record' = [entry |-> walked, activity |-> activity[walked],
                       complete |-> Busy(walked), fields |-> <<>>]
          /\ UNCHANGED <<walked, activity>> /\ wpc' = "read"
      BY <1>2, <2>5 DEF Probe, table
    <3>2. record'.entry = walked /\ record'.activity = activity[walked] /\ record'.fields = <<>>
      BY <3>1
    <3>3. \A e \in steady' : Past(e)' => Reported(e)'
      BY <2>1, <2>2, <3>1 DEF ExactInv, Past, Walking
    <3> QED
      BY <2>1, <2>3, <3>1, <3>2, <3>3 DEF ExactInv, Walking
  <2> QED
    BY <2>4, <2>5
<1>3. CASE Read
  <2> DEFINE n == Len(record.fields) + 1
             v == field[walked][n]
  <2>1. /\ wpc = "read" /\ record.fields \in Seq(Values) /\ n \in Fields /\ v \in Values
        /\ UNCHANGED <<activity, field, steady>> /\ Walking
    BY <1>0, <1>3 DEF TypeOK, Read, Records, WalkInv, Fields, Walking, table
  <2>2. /\ record'.fields = Append(record.fields, v) /\ record'.activity = record.activity
        /\ record'.entry = record.entry /\ record' \in Records
    <3>1. Append(record.fields, v) \in Seq(Values)
      BY <2>1
    <3> QED
      BY <1>0, <1>3, <3>1 DEF Read, Records
  <2>3. Len(record'.fields) = n /\ (\A f \in 1 .. n - 1 : record'.fields[f] = record.fields[f])
        /\ record'.fields[n] = v /\ n - 1 = Len(record.fields)
    BY <2>1, <2>2
  <2>4. record.entry = walked /\ (walked \in steady => record.activity = activity[walked])
    BY <2>1 DEF ExactInv
  <2>5. walked \in steady => \A f \in 1 .. n : record'.fields[f] = field[walked][f]
    BY <2>1, <2>3 DEF ExactInv, Fields
  <2>6. \A k \in 1 .. Len(report) : report[k].entry \in Entries /\ report[k].entry < walked
    BY <1>00, <2>1 DEF ExactInv
  <2>7. CASE n = NumFields
    <3>1. report' = Append(report, record') /\ Advance
      BY <1>3, <2>2, <2>3, <2>7 DEF Read
    <3>2. /\ Len(report') = Len(report) + 1 /\ Len(report) \in Nat
          /\ \A k \in 1 .. Len(report) : report'[k] = report[k]
          /\ report'[Len(report) + 1] = record'
      BY <1>0, <2>2, <3>1
    <3>3. walked \in steady => record'.fields = field[walked]
      <4>1. record'.fields \in Seq(Values) /\ field[walked] \in [Fields -> Values]
        BY <1>0, <2>2 DEF Records, TypeOK
      <4> QED
        BY <2>3, <2>5, <2>7, <4>1 DEF Fields
    <3>4. \A e \in steady : Reported(e) /\ e < walked => Reported(e)'
      <4>1. SUFFICES ASSUME NEW e \in steady, Reported(e), e < walked PROVE Reported(e)'
        OBVIOUS
      <4>2. PICK k \in 1 .. Len(report) :
              /\ report[k].entry = e /\ report[k].activity = activity[e]
              /\ report[k].fields = field[e]
              /\ \A l \in 1 .. Len(report) : report[l].entry = e => l = k
        BY <4>1 DEF Reported
      <4>3. \A l \in 1 .. Len(report') : report'[l].entry = e => l = k
        BY <1>0, <2>2, <2>4, <3>2, <4>1, <4>2 DEF Entries
      <4> QED
        BY <2>1, <3>2, <4>2, <4>3 DEF Reported
    <3>5. \A e \in steady : e = walked => Reported(e)'
      <4>1. SUFFICES ASSUME NEW e \in steady, e = walked PROVE Reported(e)'
        OBVIOUS
      <4>2. \A l \in 1 .. Len(report') : report'[l].entry = e => l = Len(report) + 1
        BY <1>0, <2>6, <3>2, <4>1 DEF Entries
      <4>3. LET k == Len(report) + 1
            IN /\ k \in 1 .. Len(report') /\ report'[k].entry = e
               /\ report'[k].activity = activity'[e] /\ report'[k].fields = field'[e]
        <5>1. record'.entry = e /\ record'.activity = activity'[e]
          BY <2>1, <2>2, <2>4, <4>1
        <5>2. record'.fields = field'[e]
          BY <2>1, <3>3, <4>1
        <5> QED
          BY <3>2, <5>1, <5>2
      <4> QED
        BY <4>2, <4>3 DEF Reported
    <3>6. \A k \in 1 .. Len(report') : report'[k].entry \in 1 .. walked
      BY <1>0, <2>2, <2>4, <2>6, <3>2 DEF Entries
    <3> QED
      BY <1>0, <2>1, <3>1, <3>4, <3>5, <3>6, <1>3, ExactAdvance DEF Read
  <2>8. CASE n # NumFields
    <3>1. UNCHANGED <<report, walked, wpc>>
      BY <1>3, <2>2, <2>3, <2>8 DEF Read
    <3>2. \A e \in steady' : Past(e)' => Reported(e)'
      BY <2>1, <3>1 DEF ExactInv, Past, Walking, Reported
    <3> QED
      BY <2>1, <2>2, <2>3, <2>4, <2>5, <2>6, <3>1, <3>2 DEF ExactInv, Walking
  <2> QED
    BY <2>7, <2>8
<1> QED
  BY <1>1, <1>2, <1>3

-----------------------------------------------------------------------------
(* Theorems.                                                               *)

\* The inductive invariant holds at first.
LEMMA IInvInit == Init => IInv
BY TypeInit, TableInit, WalkInit DEF IInv, TableInv

\* Every step keeps it.
LEMMA IInvStep == IInv /\ [Next]_vars => IInv'
<1> SUFFICES ASSUME IInv, [Next]_vars PROVE IInv'
  OBVIOUS
<1>1. TypeOK' /\ TableInv'
  BY TypeStep, TableStep DEF IInv, TableInv
<1>2. WalkInv' /\ WalkNeverOlder'
  <2>1. CASE UNCHANGED vars
    BY <2>1 DEF IInv, WalkInv, WalkNeverOlder, NeverOlder, vars, table, walker
  <2> QED
    BY <2>1, WalkAgents, WalkWalker DEF IInv, Next
<1> QED
  BY <1>1, <1>2 DEF IInv, TableInv

\* The walk's exactness comes with the table's invariant.
LEMMA ExactInvStep == IInv /\ ExactInv /\ [Next]_vars => ExactInv'
<1> SUFFICES ASSUME IInv, ExactInv, [Next]_vars PROVE ExactInv'
  OBVIOUS
<1>1. CASE UNCHANGED vars
  BY <1>1 DEF ExactInv, Past, Walking, Reported, vars, table, walker
<1> QED
  BY <1>1, ExactAgents, ExactWalker DEF IInv, TableInv, Next

\* It holds throughout.
LEMMA Inductive == Spec => []IInv
<1>1. Init => IInv
  BY IInvInit
<1>2. IInv /\ [Next]_vars => IInv'
  BY IInvStep
<1> QED
  BY <1>1, <1>2, PTL DEF Spec

\* Every word of the table holds the number of a claim, or a value of one, and
\* every local of claim, free and walk keeps to its range.
THEOREM LedgerTypes == Spec => []TypeOK
<1>1. IInv => TypeOK
  BY DEF IInv
<1> QED
  BY <1>1, Inductive, PTL

\* However the claims race, an entry belongs to one claim, and the activity word
\* is that claim's, until its free().
THEOREM OneHolderAlways == Spec => []OneHolder
<1>1. IInv => OneHolder
  BY DEF IInv
<1> QED
  BY <1>1, Inductive, PTL

\* At every point of claim(), write() and free() an entry's words are its
\* activity's or zero: a new claim never shows what an earlier one left.
THEOREM NoGarbageAlways == Spec => []NoGarbage
<1>1. IInv => NoGarbage
  BY DEF IInv
<1> QED
  BY <1>1, Inductive, PTL

\* A walk that races claims and frees reports, beside an activity, words of that
\* activity, of a later one or zero.
THEOREM WalkSound == Spec => []WalkNeverOlder
<1>1. IInv => WalkNeverOlder
  BY DEF IInv
<1> QED
  BY <1>1, Inductive, PTL

\* A walk reports every entry that was complete when it began and that nobody
\* touched until it ended, once and as it stands, whatever the others do.
THEOREM WalkReportsAll == Spec => []WalkExact
<1>1. Init => ExactInv
  BY DEF Init, ExactInv, Walking
<1>2. ExactInv => WalkExact
  BY DEF ExactInv, WalkExact, Past, Reported
<1> QED
  BY <1>1, <1>2, ExactInvStep, Inductive, PTL DEF Spec
=============================================================================
