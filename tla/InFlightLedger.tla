---------------------------- MODULE InFlightLedger ----------------------------
(***************************************************************************)
(* The in-flight ledger (runtime/ledger.js): a table in shared memory of   *)
(* the activities under way, claimed and freed by the runtime and by its   *)
(* embedder, and walked at any time from any realm.  Every atomic access   *)
(* of the code is a step of its own.                                       *)
(*                                                                         *)
(* Claims are numbered in the order in which they took an entry, and the   *)
(* number stands for what a claim stores: in the activity word it is the   *)
(* activity tag (0 is FREE), in another word the value <<claim, revision>> *)
(* which claim() or, for revision 1, write() put there.                    *)
(*                                                                         *)
(* Mutants, each one plausible slip in the code, are named ...Mutant and   *)
(* stand before the definition they would replace.                         *)
(***************************************************************************)
EXTENDS Naturals, Sequences

CONSTANTS
    Capacity,   \* entries of the table
    NumFields,  \* words of an entry besides the activity
    Agents,     \* who claims: one activity at a time each
    MaxClaims   \* entries taken in all (a bound for TLC)

ASSUME LedgerAssumption ==
    Capacity \in Nat \ {0} /\ NumFields \in Nat \ {0} /\ MaxClaims \in Nat

VARIABLES
    activity, field,       \* the table
    claims,                \* how many claims took an entry
    pc, at, next, held,    \* per agent: where it stands, entry, next field, its claim
    wpc, walked, record, report, \* the walker: where it stands, entry, what it has read
    steady                 \* history: entries untouched since the walk began, complete then

table == <<activity, field, claims>>
agents == <<pc, at, next, held>>
walker == <<wpc, walked, record, report>>
vars == <<table, agents, walker, steady>>

Entries == 1 .. Capacity
Fields == 1 .. NumFields
Zero == <<0, 0>>
NoRecord == [entry |-> 1, activity |-> 0, complete |-> FALSE, fields |-> <<>>]

\* A claim's entry is its own from the exchange to the last store of free().
Holding(a) == pc[a] \in {"fill", "busy", "rewrite", "empty", "release"}

Init ==
    /\ activity = [e \in Entries |-> 0]
    /\ field = [e \in Entries |-> [f \in Fields |-> Zero]]
    /\ claims = 0
    /\ pc = [a \in Agents |-> "idle"] /\ at = [a \in Agents |-> 1]
    /\ next = [a \in Agents |-> 1] /\ held = [a \in Agents |-> 0]
    /\ wpc = "idle" /\ walked = 1 /\ record = NoRecord /\ report = <<>>
    /\ steady = {}

-----------------------------------------------------------------------------
(* claim, write and free.                                                  *)

BeginClaim(a) ==
    /\ pc[a] = "idle"
    /\ pc' = [pc EXCEPT ![a] = "scan"] /\ at' = [at EXCEPT ![a] = 1]
    /\ UNCHANGED <<table, next, held, walker, steady>>

\* A load and a later store: another claim may have come in between.
CompareExchangeMutant(a) ==
    /\ activity[at[a]] = 0 \/ \E b \in Agents : pc[b] = "fill" /\ at[b] = at[a]
    /\ activity' = [activity EXCEPT ![at[a]] = claims + 1]

\* CAS of the activity word from FREE.
CompareExchange(a) ==
    /\ activity[at[a]] = 0
    /\ activity' = [activity EXCEPT ![at[a]] = claims + 1]

\* The scan goes on past the last entry.
ScanMutant(a) ==
    /\ pc[a] = "scan" /\ claims < MaxClaims
    /\ \/ /\ CompareExchange(a)
          /\ claims' = claims + 1 /\ held' = [held EXCEPT ![a] = claims + 1]
          /\ pc' = [pc EXCEPT ![a] = "fill"]
          /\ UNCHANGED at
       \/ /\ activity[at[a]] # 0
          /\ at' = [at EXCEPT ![a] = @ + 1]
          /\ UNCHANGED <<activity, claims, pc, held>>
    /\ next' = [next EXCEPT ![a] = 1]
    /\ UNCHANGED <<field, walker, steady>>

\* claim(): one exchange of its scan; past the last entry it returns -1.
Scan(a) ==
    /\ pc[a] = "scan" /\ claims < MaxClaims
    /\ \/ /\ CompareExchange(a)
          /\ claims' = claims + 1 /\ held' = [held EXCEPT ![a] = claims + 1]
          /\ pc' = [pc EXCEPT ![a] = "fill"]
          /\ UNCHANGED at
       \/ /\ activity[at[a]] # 0
          /\ IF at[a] < Capacity
               THEN at' = [at EXCEPT ![a] = @ + 1] /\ UNCHANGED pc
               ELSE pc' = [pc EXCEPT ![a] = "idle"] /\ UNCHANGED at
          /\ UNCHANGED <<activity, claims, held>>
    /\ next' = [next EXCEPT ![a] = 1]
    /\ UNCHANGED <<field, walker, steady>>

\* The next field of the agent's entry is stored; `during` while more are to
\* come, `after` once it was the last.
Store(a, value, during, after) ==
    /\ field' = [field EXCEPT ![at[a]][next[a]] = value]
    /\ next' = [next EXCEPT ![a] = IF @ = NumFields THEN 1 ELSE @ + 1]
    /\ pc' = [pc EXCEPT ![a] = IF next[a] = NumFields THEN after ELSE during]
    /\ steady' = steady \ {at[a]}
    /\ UNCHANGED <<activity, claims, at, held, walker>>

Fill(a) == pc[a] = "fill" /\ Store(a, <<held[a], 0>>, "fill", "busy")

\* write(): the fields it is given, in order.
Write(a) ==
    /\ pc[a] \in {"busy", "rewrite"}
    /\ \E value \in {field[at[a]][next[a]], <<held[a], 1>>} :
          Store(a, value, "rewrite", "busy")

\* free() does not zero the fields.
EmptyMutant(a) ==
    pc[a] \in {"busy", "empty"} /\ Store(a, field[at[a]][next[a]], "empty", "release")

\* free(): zero the fields ...
Empty(a) == pc[a] \in {"busy", "empty"} /\ Store(a, Zero, "empty", "release")

\* ... then the activity.
Release(a) ==
    /\ pc[a] = "release"
    /\ activity' = [activity EXCEPT ![at[a]] = 0]
    /\ pc' = [pc EXCEPT ![a] = "idle"]
    /\ steady' = steady \ {at[a]}
    /\ UNCHANGED <<field, claims, at, next, held, walker>>

-----------------------------------------------------------------------------
(* walk.                                                                   *)

Busy(e) == \E a \in Agents : pc[a] = "busy" /\ at[a] = e

BeginWalk ==
    /\ wpc \in {"idle", "done"}
    /\ wpc' = "probe" /\ walked' = 1 /\ report' = <<>> /\ record' = NoRecord
    /\ steady' = {e \in Entries : Busy(e)}
    /\ UNCHANGED <<table, agents>>

\* The scan stops one entry short.
AdvanceMutant ==
    IF walked + 1 < Capacity THEN walked' = walked + 1 /\ wpc' = "probe"
                             ELSE wpc' = "done" /\ UNCHANGED walked

Advance ==
    IF walked < Capacity THEN walked' = walked + 1 /\ wpc' = "probe"
                         ELSE wpc' = "done" /\ UNCHANGED walked

\* Load the activity of the entry, and pass over one that is FREE.
Probe ==
    /\ wpc = "probe"
    /\ IF activity[walked] = 0
         THEN Advance /\ UNCHANGED record
         ELSE /\ record' = [entry |-> walked, activity |-> activity[walked],
                            complete |-> Busy(walked), fields |-> <<>>]
              /\ wpc' = "read" /\ UNCHANGED walked
    /\ UNCHANGED <<table, agents, report, steady>>

\* Load one field; the entry is reported when all have been.
Read ==
    /\ wpc = "read"
    /\ record' = [record EXCEPT !.fields = Append(@, field[walked][Len(@) + 1])]
    /\ IF Len(record'.fields) = NumFields
         THEN report' = Append(report, record') /\ Advance
         ELSE UNCHANGED <<report, walked, wpc>>
    /\ UNCHANGED <<table, agents, steady>>

-----------------------------------------------------------------------------

Next ==
    \/ \E a \in Agents : BeginClaim(a) \/ Scan(a) \/ Fill(a) \/ Write(a) \/ Empty(a) \/ Release(a)
    \/ BeginWalk \/ Probe \/ Read

Spec == Init /\ [][Next]_vars

-----------------------------------------------------------------------------
(* Properties.                                                             *)

Values == (0 .. MaxClaims) \X {0, 1}
Records == [entry : Entries, activity : 0 .. MaxClaims, complete : BOOLEAN, fields : Seq(Values)]

\* Every word holds a claim's number or value, every local its place.
TypeOK ==
    /\ activity \in [Entries -> 0 .. MaxClaims]
    /\ field \in [Entries -> [Fields -> Values]]
    /\ claims \in 0 .. MaxClaims
    /\ pc \in [Agents -> {"idle", "scan", "fill", "busy", "rewrite", "empty", "release"}]
    /\ at \in [Agents -> Entries] /\ next \in [Agents -> Fields]
    /\ held \in [Agents -> 0 .. MaxClaims]
    /\ wpc \in {"idle", "probe", "read", "done"} /\ walked \in Entries
    /\ record \in Records /\ report \in Seq(Records)
    /\ steady \subseteq Entries

\* An entry has one holder: no two agents hold the same one, and the activity
\* word is the holder's, however their claims race.
OneHolder ==
    \A a \in Agents : Holding(a) =>
        /\ activity[at[a]] = held[a]
        /\ \A b \in Agents : Holding(b) /\ at[b] = at[a] => b = a

\* An entry's fields are its activity's or zero, at every point of claim() and
\* free(): a FREE entry is all zero, so that a claim never shows leftovers.
NoGarbage ==
    \A e \in Entries, f \in Fields :
        field[e][f] # Zero => activity[e] # 0 /\ field[e][f][1] = activity[e]

\* What a walk reads after an activity word is zero or was stored by that
\* activity or by a later one in the same entry, never left by an earlier one.
WalkNeverOlder ==
    \A k \in 1 .. Len(report) : \A f \in DOMAIN report[k].fields :
        report[k].fields[f] = Zero \/ report[k].fields[f][1] >= report[k].activity

\* An entry that was complete when the walk began, and that nobody touched until
\* it ended, is reported exactly, once.
WalkExact ==
    wpc = "done" => \A e \in steady :
        \E k \in 1 .. Len(report) :
            /\ report[k].entry = e /\ report[k].activity = activity[e]
            /\ report[k].fields = field[e]
            /\ \A l \in 1 .. Len(report) : report[l].entry = e => l = k

=============================================================================
