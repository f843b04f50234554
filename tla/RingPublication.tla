--------------------------- MODULE RingPublication ---------------------------
(***************************************************************************)
(* The publication protocol of SandScript's shared-memory event rings: one *)
(* producer thread (Membrane.appendCostEntry, publishEntry of the          *)
(* header-event ring, $step_ring_write) and a concurrent reader in another *)
(* realm (readPublishedRange).  Every atomic load or store of the code is  *)
(* a step of its own; atomics are sequentially consistent, so the          *)
(* interleavings of these steps are all the executions there are.          *)
(*                                                                         *)
(* The 32-bit head, token and generation words are scaled: MaxIndex stands *)
(* for 0xffffffff in the head and token, MaxGeneration for 0xffffffff in   *)
(* the segment generation.  A payload word carries no data but the identity*)
(* of the entry it belongs to, <<segment generation, index>>, which is what*)
(* tells a coherent record from a torn one.                                *)
(***************************************************************************)
EXTENDS Integers, Sequences

CONSTANTS
    Capacity,       \* retained entries of the ring
    MaxIndex,       \* largest value of the reservation head
    MaxGeneration,  \* largest segment generation
    PayloadWords,   \* atomic words of one entry's payload
    Requests        \* what readers may ask for: cursor, expected segment, entry budget

ASSUME RingAssumption ==
    /\ Capacity \in Nat \ {0}
    /\ MaxIndex \in Nat \ {0}
    /\ MaxGeneration \in Nat \ {0}
    /\ PayloadWords \in Nat \ {0}
    /\ Requests \subseteq [after : 0 .. MaxIndex, expected : 0 .. MaxGeneration, budget : Nat]
    /\ 4 * Capacity <= MaxIndex + 1   \* the last lap lies in the upper half window

VARIABLES
    generation, flags, head,       \* the ring header
    token, payload,                    \* per slot: publication token, payload words
    wpc, wword, wgeneration,           \* the producer: where it stands, its locals
    rpc, request,                      \* the reader: where it stands, its arguments
    rgeneration, rflags, rhead,        \* the header words it loaded first
    newest, index, word, entry,        \* estimate, cursor, words decoded so far
    status, entries, gap, truncation,  \* the page it builds, then returns
    published                          \* history: entries committed when it loaded the head

shared == <<generation, flags, head, token, payload>>
writer == <<wpc, wword, wgeneration>>
result == <<status, entries, gap, truncation>>
reader == <<rpc, request, rgeneration, rflags, rhead, newest, index, word,
            entry, result, published>>
vars == <<shared, writer, reader>>

Slots == 0 .. Capacity - 1
Words == 1 .. PayloadWords
Indexes == 1 .. MaxIndex
Tags == (0 .. MaxGeneration) \X (0 .. MaxIndex)

\* The slot an entry index occupies.
SlotOf(i) == (i - 1) % Capacity

\* Unsigned subtraction of the index words, and the half window beyond which
\* a distance counts as negative.
Window == MaxIndex + 1
Distance(a, b) == (a - b) % Window
HalfWindow == Window \div 2

\* How many entries of the current segment are committed: the newest reserved
\* one is not until its token is stored, and during a segment transition
\* (generation zero) the old segment stands complete.
Committed ==
    IF generation = 0 THEN MaxIndex
    ELSE IF wpc \in {"invalidate", "payload", "publish"} THEN head - 1 ELSE head

NoEntry == [w \in Words |-> <<0, 0>>]

Init ==
    /\ generation = 1 /\ flags = 0 /\ head = 0
    /\ token = [s \in Slots |-> 0]
    /\ payload = [s \in Slots |-> [w \in Words |-> <<0, 0>>]]
    /\ wpc = "idle" /\ wword = 1 /\ wgeneration = 1
    /\ rpc = "idle" /\ request \in Requests
    /\ rgeneration = 0 /\ rflags = 0 /\ rhead = 0
    /\ newest = 0 /\ index = 0 /\ word = 1
    /\ entry = NoEntry
    /\ status = "none" /\ entries = <<>> /\ gap = <<>> /\ truncation = "none"
    /\ published = 0

-----------------------------------------------------------------------------
(* The producer.  It alone writes the ring, so its loads of its own words  *)
(* share the step of the first store that follows them.                    *)

\* Mutants, each one plausible slip in the code, are named ...Mutant and stand
\* before the definition they would replace.

\* The head is advanced without the boundary test.
WReserveMutant ==
    /\ wpc = "idle" /\ flags = 0
    /\ head' = head + 1
    /\ wpc' = "invalidate"
    /\ UNCHANGED <<generation, flags, token, payload, wword, wgeneration, reader>>

\* Reserve the next index: advance the head before touching the slot.
WReserve ==
    /\ wpc = "idle" /\ flags = 0 /\ head < MaxIndex
    /\ head' = head + 1
    /\ wpc' = "invalidate"
    /\ UNCHANGED <<generation, flags, token, payload, wword, wgeneration, reader>>

\* The payload is rewritten under the previous lap's token.
WInvalidateMutant ==
    /\ wpc = "invalidate"
    /\ wpc' = "payload" /\ wword' = 1
    /\ UNCHANGED <<shared, wgeneration, reader>>

\* Zero the slot's token, so that no reader accepts it during the rewrite.
WInvalidate ==
    /\ wpc = "invalidate"
    /\ token' = [token EXCEPT ![SlotOf(head)] = 0]
    /\ wpc' = "payload" /\ wword' = 1
    /\ UNCHANGED <<generation, flags, head, payload, wgeneration, reader>>

\* Store one payload word.
WStoreWord ==
    /\ wpc = "payload"
    /\ payload' = [payload EXCEPT ![SlotOf(head)][wword] = <<generation, head>>]
    /\ IF wword = PayloadWords
         THEN wpc' = "publish" /\ wword' = 1
         ELSE wpc' = "payload" /\ wword' = wword + 1
    /\ UNCHANGED <<generation, flags, head, token, wgeneration, reader>>

\* Publish: store the exact index as the slot's token.
WPublish ==
    /\ wpc = "publish"
    /\ token' = [token EXCEPT ![SlotOf(head)] = head]
    /\ wpc' = "idle"
    /\ UNCHANGED <<generation, flags, head, payload, wword, wgeneration, reader>>

\* At the head boundary the generation goes to the reader-invalid zero, ...
WBeginTransition ==
    /\ wpc = "idle" /\ flags = 0 /\ head = MaxIndex /\ generation < MaxGeneration
    /\ wgeneration' = generation
    /\ generation' = 0
    /\ wpc' = "resetHead"
    /\ UNCHANGED <<flags, head, token, payload, wword, reader>>

\* ... the head is reset, ...
WResetHead ==
    /\ wpc = "resetHead"
    /\ head' = 0
    /\ wpc' = "successor"
    /\ UNCHANGED <<generation, flags, token, payload, wword, wgeneration, reader>>

\* ... and the successor generation is stored; the boundary entry is dropped.
WSuccessor ==
    /\ wpc = "successor"
    /\ generation' = wgeneration + 1
    /\ wpc' = "idle"
    /\ UNCHANGED <<flags, head, token, payload, wword, wgeneration, reader>>

\* At the last generation the exhausted flag stops publication for good.
WExhaust ==
    /\ wpc = "idle" /\ flags = 0 /\ head = MaxIndex /\ generation = MaxGeneration
    /\ flags' = 1
    /\ UNCHANGED <<generation, head, token, payload, writer, reader>>

WStep == \/ WReserve \/ WInvalidate \/ WStoreWord \/ WPublish
         \/ WBeginTransition \/ WResetHead \/ WSuccessor \/ WExhaust

-----------------------------------------------------------------------------
(* The reader: readRange, then readPublishedRange.                         *)

\* A page is requested: a cursor, a segment to insist on (0 for none), and the
\* entry budget left by the two bounds (0 when the byte bound admits none).
RStart ==
    /\ rpc = "idle"
    /\ request' \in Requests
    /\ status' = "ok" /\ entries' = <<>> /\ gap' = <<>> /\ truncation' = "none"
    /\ rgeneration' = generation
    /\ rpc' = "flags"
    /\ rflags' = 0 /\ rhead' = 0 /\ newest' = 0 /\ index' = 0 /\ published' = 0
    /\ UNCHANGED <<shared, writer, word, entry>>

RLoadFlags ==
    /\ rpc = "flags"
    /\ rflags' = flags
    /\ rpc' = "head"
    /\ UNCHANGED <<shared, writer, request, rgeneration, rhead, newest, index,
                   word, entry, result, published>>

\* The page rejected as a whole: no entries, no gap, no truncation.
RejectWholePage(reason) ==
    status' = reason /\ entries' = <<>> /\ gap' = <<>> /\ truncation' = "none"

\* The head is loaded last; then the loaded words are checked.
RLoadHead ==
    /\ rpc = "head"
    /\ rhead' = head /\ published' = Committed
    /\ newest' = 0
    /\ \/ /\ rgeneration = 0
          /\ RejectWholePage("malformed") /\ rpc' = "idle"
       \/ /\ rgeneration # 0 /\ request.expected \notin {0, rgeneration}
          /\ RejectWholePage("segment-changed") /\ rpc' = "idle"
       \/ /\ rgeneration # 0 /\ request.expected \in {0, rgeneration} /\ rflags = 1
          /\ RejectWholePage("segment-space-exhausted") /\ rpc' = "idle"
       \/ /\ rgeneration # 0 /\ request.expected \in {0, rgeneration} /\ rflags = 0
          /\ rpc' = IF head = 0 THEN "plan" ELSE "newest" 
          /\ UNCHANGED result
    /\ UNCHANGED <<shared, writer, request, rgeneration, rflags, index, word, entry>>

\* Any nonzero token counts as a later lap's.
RNewestTokenMutant ==
    /\ rpc = "newest"
    /\ IF token[SlotOf(rhead)] # 0
         THEN newest' = rhead /\ rpc' = "plan"
         ELSE rpc' = "reloadHead" /\ UNCHANGED newest
    /\ UNCHANGED <<shared, writer, request, rgeneration, rflags, rhead, index,
                   word, entry, result, published>>

\* The newest committed index, from the token of the newest reserved one.  A
\* token that is neither that index nor a later lap's needs a second head load.
RNewestToken ==
    /\ rpc = "newest"
    /\ LET t == token[SlotOf(rhead)] IN
       \/ /\ t = rhead \/ (t # 0 /\ Distance(t, rhead) < HalfWindow)
          /\ newest' = rhead /\ rpc' = "plan"
       \/ /\ t # rhead /\ (t = 0 \/ Distance(t, rhead) >= HalfWindow)
          /\ rpc' = "reloadHead" /\ UNCHANGED newest
    /\ UNCHANGED <<shared, writer, request, rgeneration, rflags, rhead, index,
                   word, entry, result, published>>

\* The second load is left out and the sentinel taken for the head's own.
RReloadHeadMutant ==
    /\ rpc = "reloadHead"
    /\ newest' = rhead - 1
    /\ rpc' = "plan"
    /\ UNCHANGED <<shared, writer, request, rgeneration, rflags, rhead, index,
                   word, entry, result, published>>

\* Had the head moved, the zero or old token belongs to a later reservation.
RReloadHead ==
    /\ rpc = "reloadHead"
    /\ newest' = IF head # rhead THEN rhead ELSE rhead - 1
    /\ rpc' = "plan"
    /\ UNCHANGED <<shared, writer, request, rgeneration, rflags, rhead, index,
                   word, entry, result, published>>

Retained == IF rhead < Capacity THEN rhead ELSE Capacity
OldestRetained == IF Retained = 0 THEN 0 ELSE rhead - Retained + 1

\* Place the cursor: ahead of the head, at the newest entry, in the overwritten
\* past (an exact gap is reported), or inside the retained window.
RPlan ==
    /\ rpc = "plan"
    /\ LET behindHead == Distance(rhead, request.after)
           behindNewest == Distance(newest, request.after)
           overwritten == behindHead > Retained
       IN \/ /\ behindHead > HalfWindow
             /\ status' = "invalid-cursor"
             /\ rpc' = "generation" /\ UNCHANGED <<index, gap, truncation>>
          \/ /\ behindHead <= HalfWindow
             /\ newest = 0 \/ behindNewest = 0 \/ behindNewest > HalfWindow
             /\ rpc' = "generation" /\ UNCHANGED <<index, status, gap, truncation>>
          \/ /\ behindHead <= HalfWindow
             /\ newest # 0 /\ behindNewest \in 1 .. HalfWindow
             /\ index' = IF overwritten THEN OldestRetained
                                        ELSE (request.after + 1) % Window
             /\ gap' = IF overwritten
                         THEN <<(request.after + 1) % Window, OldestRetained - 1>>
                         ELSE <<>>
             /\ truncation' = IF request.budget = 0 THEN "byte-limit" ELSE "none"
             /\ rpc' = IF request.budget = 0 THEN "generation" ELSE "loop"
             /\ UNCHANGED status
    /\ UNCHANGED <<shared, writer, request, rgeneration, rflags, rhead, newest,
                   word, entry, entries, published>>

\* Entries left to return, and the two ways the paging loop ends by itself.
Remaining == Distance(newest + 1, index)
RangeDone == Remaining = 0 \/ Remaining > HalfWindow
BudgetSpent == Len(entries) >= request.budget

REndLoop ==
    /\ rpc = "loop"
    /\ RangeDone \/ BudgetSpent
    /\ truncation' = IF RangeDone THEN "none" ELSE "limit"
    /\ rpc' = "generation"
    /\ UNCHANGED <<shared, writer, request, rgeneration, rflags, rhead, newest,
                   index, word, entry, status, entries, gap, published>>

\* The reader starts over at an overwritten slot instead of ending the page.
RTokenBeforeMutant ==
    /\ rpc = "loop" /\ ~RangeDone /\ ~BudgetSpent
    /\ IF token[SlotOf(index)] = index
         THEN rpc' = "decode" /\ word' = 1
         ELSE rpc' = "plan" /\ UNCHANGED word
    /\ UNCHANGED <<shared, writer, request, rgeneration, rflags, rhead, newest,
                   index, entry, result, published>>

\* The token before decoding: only the exact index starts a decode.
RTokenBefore ==
    /\ rpc = "loop" /\ ~RangeDone /\ ~BudgetSpent
    /\ IF token[SlotOf(index)] = index
         THEN rpc' = "decode" /\ word' = 1 /\ UNCHANGED truncation
         ELSE rpc' = "generation" /\ truncation' = "overrun" /\ UNCHANGED word
    /\ UNCHANGED <<shared, writer, request, rgeneration, rflags, rhead, newest,
                   index, entry, status, entries, gap, published>>

RDecodeWord ==
    /\ rpc = "decode"
    /\ entry' = [entry EXCEPT ![word] = payload[SlotOf(index)][word]]
    /\ IF word = PayloadWords
         THEN rpc' = "tokenAfter" /\ word' = 1
         ELSE rpc' = "decode" /\ word' = word + 1
    /\ UNCHANGED <<shared, writer, request, rgeneration, rflags, rhead, newest,
                   index, result, published>>

\* The token after decoding: the same index again, or the record is dropped.
RTokenAfter ==
    /\ rpc = "tokenAfter"
    /\ IF token[SlotOf(index)] = index
         THEN /\ entries' = Append(entries, [index |-> index, words |-> entry])
              /\ index' = (index + 1) % Window
              /\ rpc' = "loop" /\ UNCHANGED truncation
         ELSE /\ truncation' = "raced"
              /\ rpc' = "generation" /\ UNCHANGED <<entries, index>>
    /\ entry' = NoEntry
    /\ UNCHANGED <<shared, writer, request, rgeneration, rflags, rhead, newest,
                   word, status, gap, published>>

\* The generation is not loaded again after decoding.
RFinalGenerationMutant ==
    /\ rpc = "generation"
    /\ rpc' = "finalFlags"
    /\ UNCHANGED <<shared, writer, request, rgeneration, rflags, rhead, newest,
                   index, word, entry, result, published>>

\* finish(): reload the generation, then the flags; either change rejects all.
RFinalGeneration ==
    /\ rpc = "generation"
    /\ IF generation = rgeneration
         THEN rpc' = "finalFlags" /\ UNCHANGED result
         ELSE rpc' = "idle" /\ RejectWholePage("segment-changed")
    /\ UNCHANGED <<shared, writer, request, rgeneration, rflags, rhead, newest,
                   index, word, entry, published>>

RFinalFlags ==
    /\ rpc = "finalFlags"
    /\ IF flags = 1 THEN RejectWholePage("segment-space-exhausted") ELSE UNCHANGED result
    /\ rpc' = "idle"
    /\ UNCHANGED <<shared, writer, request, rgeneration, rflags, rhead, newest,
                   index, word, entry, published>>

\* The steps of a read under way.
RContinue == \/ RLoadFlags \/ RLoadHead \/ RNewestToken \/ RReloadHead \/ RPlan
             \/ REndLoop \/ RTokenBefore \/ RDecodeWord \/ RTokenAfter
             \/ RFinalGeneration \/ RFinalFlags

Next == WStep \/ RStart \/ RContinue

\* The reader's realm keeps running; nothing is asked of the producer.
Spec == Init /\ [][Next]_vars /\ WF_vars(RContinue)

-----------------------------------------------------------------------------
(* What the protocol promises.                                             *)

RingTypeOK ==
    /\ generation \in 0 .. MaxGeneration /\ flags \in {0, 1}
    /\ head \in 0 .. MaxIndex
    /\ token \in [Slots -> 0 .. MaxIndex]
    /\ payload \in [Slots -> [Words -> Tags]]
    /\ wpc \in {"idle", "invalidate", "payload", "publish", "resetHead", "successor"}
    /\ wword \in Words /\ wgeneration \in 1 .. MaxGeneration

ReaderTypeOK ==
    /\ rpc \in {"idle", "flags", "head", "newest", "reloadHead", "plan", "loop",
                "decode", "tokenAfter", "generation", "finalFlags"}
    /\ request \in Requests
    /\ rgeneration \in 0 .. MaxGeneration /\ rflags \in {0, 1}
    /\ rhead \in 0 .. MaxIndex /\ newest \in 0 .. MaxIndex
    /\ index \in 0 .. MaxIndex /\ word \in Words
    /\ published \in 0 .. MaxIndex

PageTypeOK ==
    /\ entry \in [Words -> Tags]
    /\ status \in {"none", "ok", "malformed", "segment-changed",
                  "segment-space-exhausted", "invalid-cursor"}
    /\ entries \in Seq([index : 0 .. MaxIndex, words : [Words -> Tags]])
    /\ gap = <<>> \/ gap \in (0 .. MaxIndex) \X (0 .. MaxIndex)
    /\ truncation \in {"none", "limit", "byte-limit", "overrun", "raced"}

\* Every word keeps to its width, every local to its place, and a page is a page.
TypeOK == RingTypeOK /\ ReaderTypeOK /\ PageTypeOK

\* The read has returned a page of validated entries.
Delivered == rpc = "idle" /\ status = "ok"

Coherent(e) == \A w \in Words : e.words[w] = <<rgeneration, e.index>>

\* No torn record is ever returned as coherent, and no record of another
\* segment: each word of each returned entry was written for exactly that index
\* in the generation the page reports (ring-publication.js, steps 2, 4 and 5 of
\* the protocol, and the whole-page rejection of finish()).
PageCoherent ==
    Delivered => \A k \in 1 .. Len(entries) : Coherent(entries[k])

\* When the generation is confirmed, the newest-committed estimate lies between
\* what was committed when the head was loaded and what is committed now: never
\* an entry still being written, never one entry short (the two readings of a
\* zero token that the comment above the estimate separates).
NewestBracketed ==
    (rpc = "finalFlags" /\ generation = rgeneration)
        => published <= newest /\ newest <= Committed

\* Whether index i lies in the reported gap, a range modulo the window.
InGap(i) ==
    /\ gap # <<>>
    /\ Distance(i, gap[1]) <= Distance(gap[2], gap[1])

\* No silent loss: an entry committed before the head was loaded and not before
\* the cursor is in the page, in the reported gap, or the page says that it was
\* cut short.
NoSilentLoss ==
    Delivered /\ truncation = "none" =>
        \A i \in 1 .. published :
            \/ i <= request.after /\ request.after <= rhead
            \/ InGap(i)
            \/ \E k \in 1 .. Len(entries) : entries[k].index = i

\* Every read ends, however fast the producer laps the reader ("never spin
\* waiting for a hot writer"): only the reader's own steps are fair.
ReadTerminates == rpc # "idle" ~> rpc = "idle"

-----------------------------------------------------------------------------
(* Refinement: read against the abstract log, a page is a run of committed *)
(* entries of one segment, taken in one step.                              *)

TagOf(e) == IF \A v, w \in Words : e.words[v] = e.words[w]
              THEN e.words[1] ELSE <<0, e.index>>

Answer == IF rpc = "finalFlags" \/ rpc = "idle"
            THEN [k \in 1 .. Len(entries) |-> TagOf(entries[k])]
            ELSE <<>>

Log == INSTANCE PublishedLog
         WITH segment <- IF generation = 0 THEN wgeneration ELSE generation,
              committed <- Committed,
              closed <- (flags = 1),
              answer <- Answer

\* The ring and its reader implement the abstract log.
ImplementsLog == Log!Spec
=============================================================================
