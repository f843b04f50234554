-------------------------- MODULE RuntimeWakes_proofs --------------------------
(***************************************************************************)
(* No wake is lost, where no invocation is aborted: a drive keeps to the    *)
(* context it was started for, a context that is ready has one wake, a      *)
(* queue has a drainer, an ended context is reclaimed and a delivered       *)
(* call's duty is somebody's.  An abort frees contexts under their drives,  *)
(* and the first of these fails with it: see README.md.                    *)
(*                                                                         *)
(* A wake is handed on from the airlock's queue to a call on the stack, to *)
(* the slot's deferred wake, to a call again.  SafeInv says that a context  *)
(* has at most one, wherever it is; that it has none while it is in a loop, *)
(* parked or ended; and that it has one while it is ready and not in a     *)
(* loop.  So a drive never starts in a slot whose last drive's end is still *)
(* to be reported, and a reported end frees no context under a drive.       *)
(***************************************************************************)
EXTENDS RuntimeScheduler_proofs

(***************************************************************************)
(* What stands on the stack and in the wake queue, by slot.                *)
(***************************************************************************)
Frame == {"loop", "return"}
Watched == {"loop", "return", "wake", "cancel"}

On(op, s, calls) == \E x \in ToSet(calls) : x.op = op /\ x.slot = s
OncePer(ops, calls) ==
  \A k, l \in 1 .. Len(calls) :
    calls[k].op \in ops /\ calls[l].op \in ops /\ calls[k].slot = calls[l].slot => k = l

Framed(s) == On("loop", s, stack) \/ On("return", s, stack)
Woken(s) == On("wake", s, stack)
Queued(s) == \E k \in 1 .. Len(spawned) : spawned[k].slot = s
Held(s) == deferredWakes[s] # 0

(***************************************************************************)
(* Drives keep to their contexts.                                          *)
(***************************************************************************)
InLoop(s) == phase[s] \in {"loop", "hook"}
Ended(s) == exec[s] \in {"done", "failed"}

SlotDriven(s) ==
  /\ phase[s] = "loop" <=> Framed(s)
  /\ driving[s] = 0 <=> phase[s] = "none"
  /\ exec[s] # "free" => generation[s] # 0
  /\ driving[s] # 0 => driving[s] = generation[s] /\ exec[s] # "free"

\* One frame for a slot, and no cancellation.
OneFrame ==
  /\ OncePer(Frame, stack)
  /\ deferredCancels = <<>> /\ \A x \in ToSet(stack) : x.op # "cancel"

\* Who is named as the owner of a drive, or of its end, owns that context.
Unbegun == {"none", "starting", "deferred"}
OwnersAgree ==
  /\ \A s \in Slots : by[s][1] = "invoke" => slotOf[by[s][2]] = s /\ genOf[by[s][2]] = driving[s]
  /\ \A j \in jobs : j.by[1] = "invoke" => slotOf[j.by[2]] = j.slot /\ genOf[j.by[2]] = j.gen
  /\ \A i \in Invocations : inv[i] \in Unbegun => slotOf[i] = -1

\* A drive's end that is still to be reported frees nothing driven.
EndsDriveNothing ==
  \A j \in jobs : /\ j.by[1] = "closure" \/ j.result \in Terminal
                  /\ j.result \in Terminal /\ Live(j.slot, j.gen) => driving[j.slot] = 0

DriveInv == OneFrame /\ OwnersAgree /\ EndsDriveNothing /\ \A s \in Slots : SlotDriven(s)

(***************************************************************************)
(* The wakes.                                                              *)
(***************************************************************************)
Fresh(s) == s = Root /\ generation[s] = 1 /\ steps[s] = 0

SlotWoken(s) ==
  /\ ~(Woken(s) /\ Queued(s)) /\ ~(Woken(s) /\ Held(s)) /\ ~(Queued(s) /\ Held(s))
  /\ Woken(s) \/ Queued(s) \/ Held(s) => exec[s] \in Runnable /\ ~InLoop(s)
  /\ Queued(s) => exec[s] = "ready" /\ steps[s] # 0
  /\ Held(s) => deferredWakes[s] = generation[s]
  /\ exec[s] = "ready" => Fresh(s) \/ InLoop(s) \/ Woken(s) \/ Queued(s) \/ Held(s)
  /\ On("loop", s, stack) => exec[s] \in Runnable
  /\ On("return", s, stack) => Ended(s)
  /\ phase[s] = "hook" => exec[s] = "paused"
  /\ exec[s] = "parked" => steps[s] # 0
  /\ phase[s] \in {"returned", "unwound"} =>
       result[s] \in Terminal \cup Parked /\ (result[s] \in Terminal <=> Ended(s))

WakesCurrent ==
  /\ OncePer({"wake"}, stack)
  /\ \A x \in ToSet(stack) : /\ x.op = "wake" => x.gen = generation[x.slot]
                             /\ x.op = "return" => x.id \in {"done", "error"}
  /\ \A k, l \in 1 .. Len(spawned) : spawned[k].slot = spawned[l].slot => k = l
  /\ \A k \in 1 .. Len(spawned) : spawned[k].gen = generation[spawned[k].slot]

EndsReached == \A j \in jobs : j.result \in Terminal /\ Live(j.slot, j.gen) => Ended(j.slot)

WakeInv ==
  steps \in [Slots -> Nat] /\ WakesCurrent /\ EndsReached /\ \A s \in Slots : SlotWoken(s)

SafeInv == DriveInv /\ (~terminated => WakeInv)

(***************************************************************************)
(* Calls on the stack.                                                     *)
(***************************************************************************)
\* What one sequence of calls put before another has for each slot.
LEMMA ConcatOn ==
  ASSUME NEW s \in Seq(Items), NEW t \in Seq(Items)
  PROVE  LET u == s \o t
         IN /\ u \in Seq(Items) /\ ToSet(u) = ToSet(s) \cup ToSet(t)
            /\ \A op, n : On(op, n, u) <=> On(op, n, s) \/ On(op, n, t)
            /\ \A ops : /\ OncePer(ops, s) /\ OncePer(ops, t)
                        /\ \A x \in ToSet(s), y \in ToSet(t) :
                             x.op \in ops /\ y.op \in ops => x.slot # y.slot
                        => OncePer(ops, u)
<1> DEFINE u == s \o t
<1>1. ToSet(u) = ToSet(s) \cup ToSet(t) /\ u \in Seq(Items)
  BY ConcatElements
<1>2. \A op, n : On(op, n, u) <=> On(op, n, s) \/ On(op, n, t)
  BY <1>1 DEF On
<1>3. ASSUME NEW ops, OncePer(ops, s), OncePer(ops, t),
             \A x \in ToSet(s), y \in ToSet(t) : x.op \in ops /\ y.op \in ops => x.slot # y.slot
      PROVE  OncePer(ops, u)
  <2>1. /\ Len(u) = Len(s) + Len(t) /\ Len(s) \in Nat /\ Len(t) \in Nat
        /\ \A i \in 1 .. Len(s) + Len(t) : u[i] = IF i <= Len(s) THEN s[i] ELSE t[i - Len(s)]
        /\ DOMAIN s = 1 .. Len(s) /\ DOMAIN t = 1 .. Len(t)
    BY ConcatProperties
  <2> HIDE DEF u
  <2>2. \A i \in 1 .. Len(u) : \/ i \in 1 .. Len(s) /\ u[i] = s[i]
                               \/ i - Len(s) \in 1 .. Len(t) /\ u[i] = t[i - Len(s)]
    BY <2>1
  <2>3. /\ \A i \in 1 .. Len(s) : s[i] \in ToSet(s)
        /\ \A i \in 1 .. Len(t) : t[i] \in ToSet(t)
    BY <2>1 DEF ToSet
  <2> SUFFICES ASSUME NEW k \in 1 .. Len(u), NEW l \in 1 .. Len(u),
                      u[k].op \in ops, u[l].op \in ops, u[k].slot = u[l].slot
               PROVE  k = l
    BY DEF OncePer
  <2>4. CASE k \in 1 .. Len(s) /\ u[k] = s[k] /\ l \in 1 .. Len(s) /\ u[l] = s[l]
    BY <1>3, <2>4 DEF OncePer
  <2>5. CASE /\ k - Len(s) \in 1 .. Len(t) /\ u[k] = t[k - Len(s)]
             /\ l - Len(s) \in 1 .. Len(t) /\ u[l] = t[l - Len(s)]
    <3>1. k - Len(s) = l - Len(s)
      BY <1>3, <2>5 DEF OncePer
    <3> QED
      BY <2>1, <3>1
  <2>6. CASE k \in 1 .. Len(s) /\ u[k] = s[k] /\ l - Len(s) \in 1 .. Len(t) /\ u[l] = t[l - Len(s)]
    BY <1>3, <2>3, <2>6
  <2>7. CASE l \in 1 .. Len(s) /\ u[l] = s[l] /\ k - Len(s) \in 1 .. Len(t) /\ u[k] = t[k - Len(s)]
    BY <1>3, <2>3, <2>7
  <2> QED
    BY <2>2, <2>4, <2>5, <2>6, <2>7
<1> QED
  BY <1>1, <1>2, <1>3

\* No call, one call, two calls.
LEMMA FewOn ==
  /\ ToSet(<<>>) = {} /\ (\A op, n : ~On(op, n, <<>>)) /\ \A ops : OncePer(ops, <<>>)
  /\ \A x : /\ ToSet(<<x>>) = {x} /\ \A op, n : On(op, n, <<x>>) <=> x.op = op /\ x.slot = n
            /\ \A ops : OncePer(ops, <<x>>)
  /\ \A x, y : /\ ToSet(<<x, y>>) = {x, y}
               /\ \A op, n :
                      On(op, n, <<x, y>>) <=> (x.op = op /\ x.slot = n) \/ (y.op = op /\ y.slot = n)
               /\ \A ops : x.op \notin ops \/ y.op \notin ops => OncePer(ops, <<x, y>>)
<1>1. \A ops : OncePer(ops, <<>>)
  <2>1. 1 .. Len(<<>>) = {}
    OBVIOUS
  <2> QED
    BY <2>1 DEF OncePer
<1>2. ASSUME NEW x, NEW ops PROVE OncePer(ops, <<x>>)
  <2>1. 1 .. Len(<<x>>) = {1}
    OBVIOUS
  <2> QED
    BY <2>1 DEF OncePer
<1>3. ASSUME NEW x, NEW y, NEW ops, x.op \notin ops \/ y.op \notin ops
      PROVE  OncePer(ops, <<x, y>>)
  <2>1. 1 .. Len(<<x, y>>) = {1, 2} /\ <<x, y>>[1] = x /\ <<x, y>>[2] = y
    OBVIOUS
  <2> DEFINE u == <<x, y>>
  <2> HIDE DEF u
  <2>2. 1 .. Len(u) = {1, 2} /\ u[1] = x /\ u[2] = y
    BY <2>1 DEF u
  <2>3. OncePer(ops, u)
    BY <1>3, <2>2 DEF OncePer
  <2> QED
    BY <2>3 DEF u
<1>4. ToSet(<<>>) = {} /\ \A op, n : ~On(op, n, <<>>)
  BY ShortElements DEF On
<1>5. ASSUME NEW x
      PROVE  ToSet(<<x>>) = {x} /\ \A op, n : On(op, n, <<x>>) <=> x.op = op /\ x.slot = n
  BY ShortElements DEF On
<1>6. ASSUME NEW x, NEW y
      PROVE  /\ ToSet(<<x, y>>) = {x, y}
             /\ \A op, n :
                    On(op, n, <<x, y>>) <=> (x.op = op /\ x.slot = n) \/ (y.op = op /\ y.slot = n)
  <2>1. ToSet(<<x, y>>) = {x, y}
    BY ShortElements
  <2> QED
    BY <2>1 DEF On
<1> QED
  BY <1>1, <1>2, <1>3, <1>4, <1>5, <1>6

\* A call put on a stack.
LEMMA PushedOn ==
  ASSUME NEW x \in Items, NEW rest \in Seq(Items)
  PROVE  LET u == <<x>> \o rest
         IN /\ u \in Seq(Items) /\ ToSet(u) = {x} \cup ToSet(rest)
            /\ \A op, n : On(op, n, u) <=> (x.op = op /\ x.slot = n) \/ On(op, n, rest)
            /\ \A ops : /\ OncePer(ops, rest)
                        /\ x.op \in ops => \A y \in ToSet(rest) : y.op \in ops => x.slot # y.slot
                        => OncePer(ops, u)
<1> DEFINE one == <<x>>
<1>1. one \in Seq(Items)
  OBVIOUS
<1>2. /\ ToSet(one) = {x} /\ \A op, n : On(op, n, one) <=> x.op = op /\ x.slot = n
      /\ \A ops : OncePer(ops, one)
  BY FewOn
<1> HIDE DEF one
<1> DEFINE u == one \o rest
<1>3. /\ u \in Seq(Items) /\ ToSet(u) = ToSet(one) \cup ToSet(rest)
      /\ \A op, n : On(op, n, u) <=> On(op, n, one) \/ On(op, n, rest)
      /\ \A ops : /\ OncePer(ops, one) /\ OncePer(ops, rest)
                  /\ \A z \in ToSet(one), y \in ToSet(rest) :
                       z.op \in ops /\ y.op \in ops => z.slot # y.slot
                  => OncePer(ops, u)
  BY <1>1, ConcatOn
<1> HIDE DEF u
<1>4. /\ u \in Seq(Items) /\ ToSet(u) = {x} \cup ToSet(rest)
      /\ \A op, n : On(op, n, u) <=> (x.op = op /\ x.slot = n) \/ On(op, n, rest)
      /\ \A ops : /\ OncePer(ops, rest)
                  /\ x.op \in ops => \A y \in ToSet(rest) : y.op \in ops => x.slot # y.slot
                  => OncePer(ops, u)
  BY <1>2, <1>3
<1> QED
  BY <1>4 DEF u, one

\* The innermost call, and what is left when it returns.
LEMMA PoppedOn ==
  ASSUME NEW s \in Seq(Items), s # <<>>
  PROVE  LET t == Tail(s)
             x == Head(s)
         IN /\ t \in Seq(Items) /\ x \in Items /\ ToSet(s) = {x} \cup ToSet(t)
            /\ \A op, n : On(op, n, s) <=> (x.op = op /\ x.slot = n) \/ On(op, n, t)
            /\ \A ops : OncePer(ops, s) =>
                 /\ OncePer(ops, t)
                 /\ x.op \in ops => \A y \in ToSet(t) : y.op \in ops => x.slot # y.slot
<1> DEFINE t == Tail(s)
           x == Head(s)
           n == Len(s)
<1>1. /\ t \in Seq(Items) /\ x \in Items /\ x = s[1] /\ n \in Nat /\ n >= 1 /\ Len(t) = n - 1
      /\ \A i \in 1 .. n - 1 : t[i] = s[i + 1]
      /\ ToSet(s) = {x} \cup ToSet(t)
  BY TailElements
<1> HIDE DEF t, x, n
<1>2. DOMAIN t = 1 .. n - 1
  BY <1>1
<1>3. \A op, m : On(op, m, s) <=> (x.op = op /\ x.slot = m) \/ On(op, m, t)
  BY <1>1 DEF On
<1>4. ASSUME NEW ops, OncePer(ops, s)
      PROVE  /\ OncePer(ops, t)
             /\ x.op \in ops => \A y \in ToSet(t) : y.op \in ops => x.slot # y.slot
  <2>1. \A i \in 1 .. n - 1 : i + 1 \in 1 .. n /\ 1 \in 1 .. n /\ i + 1 # 1
    BY <1>1
  <2>2. OncePer(ops, t)
    <3> SUFFICES ASSUME NEW k \in 1 .. n - 1, NEW l \in 1 .. n - 1,
                        t[k].op \in ops, t[l].op \in ops, t[k].slot = t[l].slot
                 PROVE  k = l
      BY <1>1 DEF OncePer
    <3>1. k + 1 = l + 1
      BY <1>1, <1>4, <2>1 DEF OncePer, n
    <3> QED
      BY <3>1
  <2>3. ASSUME x.op \in ops, NEW y \in ToSet(t), y.op \in ops, x.slot = y.slot PROVE FALSE
    <3>1. PICK i \in 1 .. n - 1 : t[i] = y
      BY <1>2, <2>3 DEF ToSet
    <3>2. i + 1 \in 1 .. n /\ 1 \in 1 .. n /\ s[i + 1] = t[i]
      BY <1>1, <2>1
    <3>3. i + 1 = 1
      BY <1>1, <1>4, <2>3, <3>1, <3>2 DEF OncePer, n
    <3> QED
      BY <2>1, <3>3
  <2> QED
    BY <2>2, <2>3
<1> QED
  BY <1>1, <1>3, <1>4 DEF t, x

\* One call for each of n.
LEMMA MappedOn ==
  ASSUME NEW n \in Nat, NEW calls \in [1 .. n -> Items]
  PROVE  /\ calls \in Seq(Items) /\ ToSet(calls) = {calls[k] : k \in 1 .. n}
         /\ \A ops : (\A k, l \in 1 .. n : calls[k].slot = calls[l].slot => k = l)
                     \/ (\A k \in 1 .. n : calls[k].op \notin ops)
                     => OncePer(ops, calls)
<1>1. calls \in Seq(Items) /\ Len(calls) = n /\ DOMAIN calls = 1 .. n
  BY SeqDef
<1>2. ToSet(calls) = {calls[k] : k \in 1 .. n}
  BY <1>1 DEF ToSet
<1>3. \A ops : (\A k, l \in 1 .. n : calls[k].slot = calls[l].slot => k = l)
               \/ (\A k \in 1 .. n : calls[k].op \notin ops)
               => OncePer(ops, calls)
  BY <1>1 DEF OncePer
<1> QED
  BY <1>1, <1>2, <1>3

\* A stack that has the same frames, wakes and cancellations as another.
Same(u, v) ==
  /\ u \in Seq(Items)
  /\ \A op \in Watched : \A s : On(op, s, u) <=> On(op, s, v)
  /\ \A x \in ToSet(u) : x.op \in Watched => x \in ToSet(v)
  /\ \A ops \in {Frame, {"wake"}} : OncePer(ops, v) => OncePer(ops, u)

\* A stack is the same as itself, or as what it is the same as is the same as.
LEMMA SameHere == \A u \in Seq(Items) : Same(u, u)
BY DEF Same

\* A stack the same as one that is the same as a third is the same as the third.
LEMMA SameChain ==
  ASSUME NEW u, NEW v, NEW w, Same(u, v), Same(v, w)
  PROVE  Same(u, w)
BY DEF Same

\* Calls of other kinds, put on a stack.
LEMMA SamePushed ==
  ASSUME NEW calls \in Seq(Items), NEW rest \in Seq(Items),
         \A x \in ToSet(calls) : x.op \notin Watched
  PROVE  Same(calls \o rest, rest)
<1> DEFINE u == calls \o rest
<1>1. /\ u \in Seq(Items) /\ ToSet(u) = ToSet(calls) \cup ToSet(rest)
      /\ \A op, n : On(op, n, u) <=> On(op, n, calls) \/ On(op, n, rest)
      /\ \A ops : /\ OncePer(ops, calls) /\ OncePer(ops, rest)
                  /\ \A x \in ToSet(calls), y \in ToSet(rest) :
                       x.op \in ops /\ y.op \in ops => x.slot # y.slot
                  => OncePer(ops, u)
  BY ConcatOn
<1> HIDE DEF u
<1>2. \A op \in Watched : \A n : ~On(op, n, calls)
  BY DEF On
<1>3. \A ops \in {Frame, {"wake"}} : OncePer(ops, rest) => OncePer(ops, u)
  <2> SUFFICES ASSUME NEW ops \in {Frame, {"wake"}}, OncePer(ops, rest) PROVE OncePer(ops, u)
    OBVIOUS
  <2>1. \A x \in ToSet(calls) : x.op \notin ops
    BY DEF Frame, Watched
  <2>2. \A k \in 1 .. Len(calls) : calls[k] \in ToSet(calls)
    <3>1. DOMAIN calls = 1 .. Len(calls)
      OBVIOUS
    <3> QED
      BY <3>1 DEF ToSet
  <2>3. OncePer(ops, calls)
    BY <2>1, <2>2 DEF OncePer
  <2> QED
    BY <1>1, <2>1, <2>3
<1>4. Same(u, rest)
  BY <1>1, <1>2, <1>3 DEF Same
<1> QED
  BY <1>4 DEF u

\* A call of another kind that returns.
LEMMA SamePopped ==
  ASSUME NEW s \in Seq(Items), s # <<>>, Head(s).op \notin Watched
  PROVE  Same(Tail(s), s)
<1> DEFINE t == Tail(s)
           x == Head(s)
<1>1. /\ t \in Seq(Items) /\ ToSet(s) = {x} \cup ToSet(t)
      /\ \A op, n : On(op, n, s) <=> (x.op = op /\ x.slot = n) \/ On(op, n, t)
      /\ \A ops : OncePer(ops, s) => OncePer(ops, t)
  BY PoppedOn
<1> HIDE DEF t, x
<1>2. Same(t, s)
  BY <1>1 DEF Same, x
<1> QED
  BY <1>2 DEF t

\* A call of another kind, alone.
LEMMA SameAlone ==
  ASSUME NEW x \in Items, x.op \notin Watched
  PROVE  Same(<<x>>, <<>>) /\ \A rest \in Seq(Items) : Same(<<x>> \o rest, rest)
<1>1. ToSet(<<x>>) = {x} /\ <<x>> \in Seq(Items)
  BY ShortElements
<1>2. \A rest \in Seq(Items) : Same(<<x>> \o rest, rest)
  BY <1>1, SamePushed
<1>3. Same(<<x>>, <<>>)
  BY <1>1, FewOn DEF Same
<1> QED
  BY <1>2, <1>3

\* The calls the runtime makes that are watched by nothing.
LEMMA OtherCalls ==
  /\ \A op \in {"drain", "redispatch", "reinvoke", "kick"} :
       Item(op, Root, 0, None) \in Items /\ Item(op, Root, 0, None).op = op
  /\ Drain \in Items /\ Drain.op = "drain"
  /\ \A op \in {"finally", "track"} : \A s \in Slots, g \in Nat :
       Item(op, s, g, None) \in Items /\ Item(op, s, g, None).op = op
  /\ \A op \in {"begin", "rebegin"} : \A i \in Invocations :
       Item(op, Root, 0, i) \in Items /\ Item(op, Root, 0, i).op = op
  /\ \A op \in Watched : {"drain", "redispatch", "reinvoke", "kick", "finally", "track",
                          "begin", "rebegin"} \cap {op} = {}
<1>1. Drain = Item("drain", Root, 0, None)
  BY DEF Drain
<1> QED
  BY <1>1, ItemsTyped, RootIsSlot DEF Ops, Watched

\* A wake, a loop and a return, as calls.
LEMMA WatchedCalls ==
  ASSUME NEW s \in Slots, NEW g \in Nat
  PROVE  /\ Wake(s, g) \in Items /\ Wake(s, g).op = "wake" /\ Wake(s, g).slot = s
         /\ Wake(s, g).gen = g
         /\ Item("loop", s, g, None) \in Items /\ Item("loop", s, g, None).op = "loop"
         /\ Item("loop", s, g, None).slot = s
         /\ \A r \in Results : /\ Item("return", s, g, r) \in Items
                               /\ Item("return", s, g, r).op = "return"
                               /\ Item("return", s, g, r).slot = s /\ Item("return", s, g, r).id = r
BY ItemsTyped DEF Wake, Ops

(***************************************************************************)
(* What a step leaves as it was.                                           *)
(***************************************************************************)
\* A slot whose drive and context are as they were.
DriveStays(t) ==
  /\ exec'[t] = exec[t] /\ generation'[t] = generation[t]
  /\ driving'[t] = driving[t] /\ phase'[t] = phase[t]
  /\ \A op \in Frame : On(op, t, stack') <=> On(op, t, stack)

\* And whose wakes are.
WakeStays(t) ==
  /\ DriveStays(t)
  /\ steps'[t] = steps[t] /\ result'[t] = result[t] /\ deferredWakes'[t] = deferredWakes[t]
  /\ Queued(t)' <=> Queued(t)
  /\ On("wake", t, stack') <=> On("wake", t, stack)

\* A step that leaves a slot's drive leaves what SlotDriven says of it.
LEMMA DrivenStays ==
  ASSUME NEW t \in Slots, SlotDriven(t), DriveStays(t)
  PROVE  SlotDriven(t)'
BY DEF SlotDriven, DriveStays, Framed, Frame

\* A step that leaves a slot's wake leaves what SlotWoken says of it.
LEMMA WokenStays ==
  ASSUME NEW t \in Slots, SlotWoken(t), WakeStays(t)
  PROVE  SlotWoken(t)'
BY DEF SlotWoken, WakeStays, DriveStays, Frame, Woken, Held, InLoop, Ended, Fresh

\* Owners' names stay, while no drive starts and nobody takes a context.
LEMMA OwnersStay ==
  ASSUME OwnersAgree, UNCHANGED <<by, driving, slotOf, genOf>>, jobs' \subseteq jobs,
         \A i \in Invocations : inv'[i] \in Unbegun => inv[i] \in Unbegun
  PROVE  OwnersAgree'
BY DEF OwnersAgree

\* No context of the past comes to life again.
NoneRevived ==
  \A s \in Slots : \/ generation'[s] = generation[s] /\ (exec'[s] # "free" => exec[s] # "free")
                   \/ generation[s] < generation'[s]

\* A context that is alive after a step that revives none was alive before it.
LEMMA LiveBefore ==
  ASSUME Types, Types', RegistryInv, NoneRevived, NEW j \in jobs, Live(j.slot, j.gen)'
  PROVE  /\ j.slot \in Slots /\ Live(j.slot, j.gen) /\ generation'[j.slot] = generation[j.slot]
         /\ exec'[j.slot] # "free"
<1>1. /\ j.slot \in Slots /\ j.gen \in Nat /\ j.gen <= generation[j.slot]
      /\ generation[j.slot] \in Nat /\ generation'[j.slot] \in Nat
  BY DEF Types, DriveTypes, ContextTypes, Jobs, RegistryInv, NamesOfThePast
<1>2. exec'[j.slot] # "free" /\ generation'[j.slot] = j.gen
  BY DEF Live
<1>3. ~(generation[j.slot] < generation'[j.slot])
  BY <1>1, <1>2
<1> QED
  BY <1>1, <1>2, <1>3 DEF NoneRevived, Live

\* Ends still to be reported drive nothing, while no drive starts in their slots.
LEMMA EndsStay ==
  ASSUME Types, Types', RegistryInv, EndsDriveNothing, NoneRevived, jobs' \subseteq jobs,
         \A s \in Slots : driving'[s] = driving[s] \/ driving'[s] = 0
                          \/ ~(\E j \in jobs : j.slot = s /\ j.result \in Terminal /\ Live(s, j.gen))
  PROVE  EndsDriveNothing'
<1> SUFFICES ASSUME NEW j \in jobs
             PROVE  /\ j.by[1] = "closure" \/ j.result \in Terminal
                    /\ j.result \in Terminal /\ Live(j.slot, j.gen)' => driving'[j.slot] = 0
  BY DEF EndsDriveNothing
<1>1. ASSUME j.result \in Terminal, Live(j.slot, j.gen)' PROVE driving'[j.slot] = 0
  <2>1. j.slot \in Slots /\ Live(j.slot, j.gen)
    BY <1>1, LiveBefore
  <2> QED
    BY <1>1, <2>1 DEF EndsDriveNothing
<1> QED
  BY <1>1 DEF EndsDriveNothing

\* And are the ends of contexts that have ended.
LEMMA ReachedStays ==
  ASSUME Types, Types', RegistryInv, EndsReached, NoneRevived, jobs' \subseteq jobs,
         \A s \in Slots : Ended(s) /\ exec'[s] # "free" /\ generation'[s] = generation[s] => Ended(s)'
  PROVE  EndsReached'
<1> SUFFICES ASSUME NEW j \in jobs, j.result \in Terminal, Live(j.slot, j.gen)' PROVE Ended(j.slot)'
  BY DEF EndsReached
<1>1. /\ j.slot \in Slots /\ Live(j.slot, j.gen) /\ generation'[j.slot] = generation[j.slot]
      /\ exec'[j.slot] # "free"
  BY LiveBefore
<1> QED
  BY <1>1 DEF EndsReached

\* Wakes on a stack are current, while the contexts they are for are.
LEMMA CurrentStays ==
  ASSUME Types, WakesCurrent, Same(stack', stack), UNCHANGED spawned,
         \A s \in Slots : Woken(s) \/ Queued(s) => generation'[s] = generation[s]
  PROVE  WakesCurrent'
<1>1. OncePer({"wake"}, stack')
  BY DEF WakesCurrent, Same
<1>2. \A x \in ToSet(stack') : /\ x.op = "wake" => x.gen = generation'[x.slot]
                               /\ x.op = "return" => x.id \in {"done", "error"}
  <2> TAKE x \in ToSet(stack')
  <2>1. ASSUME x.op \in Watched PROVE x \in ToSet(stack) /\ x.slot \in Slots
    <3>1. x \in ToSet(stack)
      BY <2>1 DEF Same
    <3>2. \A k \in DOMAIN stack : stack[k] \in Items
      BY DEF Types, StackTypes, StackOfItems
    <3> QED
      BY <3>1, <3>2 DEF ToSet, Items
  <2>2. ASSUME x.op = "wake" PROVE x.gen = generation'[x.slot]
    <3>1. x \in ToSet(stack) /\ x.slot \in Slots /\ Woken(x.slot)
      BY <2>1, <2>2 DEF Watched, Woken, On
    <3> QED
      BY <2>2, <3>1 DEF WakesCurrent
  <2>3. ASSUME x.op = "return" PROVE x.id \in {"done", "error"}
    BY <2>1, <2>3 DEF Watched, WakesCurrent
  <2> QED
    BY <2>2, <2>3
<1>3. /\ \A k, l \in 1 .. Len(spawned) : spawned[k].slot = spawned[l].slot => k = l
      /\ \A k \in 1 .. Len(spawned) : spawned[k].gen = generation'[spawned[k].slot]
  <2>1. \A k \in 1 .. Len(spawned) : spawned[k].slot \in Slots /\ Queued(spawned[k].slot)
    <3>1. \A k \in 1 .. Len(spawned) : spawned[k] \in Identities
      BY DEF Types, ContextTypes
    <3> QED
      BY <3>1 DEF Identities, Queued
  <2> QED
    BY <2>1 DEF WakesCurrent
<1> QED
  BY <1>1, <1>2, <1>3 DEF WakesCurrent

(***************************************************************************)
(* Steps that only call.                                                   *)
(***************************************************************************)
\* A step that changes neither drives nor contexts nor wakes.
LEMMA SafeStays ==
  ASSUME Types, Types', RegistryInv, SafeInv, Same(stack', stack),
         UNCHANGED <<generation, exec, driving, phase, by, jobs, slotOf, genOf>>,
         deferredCancels' = <<>>, \A i \in Invocations : inv'[i] \in Unbegun => inv[i] \in Unbegun,
         terminated' \/ UNCHANGED <<steps, result, spawned, deferredWakes, terminated>>
  PROVE  SafeInv'
<1>1. NoneRevived
  BY DEF NoneRevived
<1>2. \A t \in Slots : DriveStays(t)
  BY DEF DriveStays, Same, Frame, Watched
<1>3. OneFrame'
  <2>1. \A x \in ToSet(stack') : x.op # "cancel"
    BY DEF SafeInv, DriveInv, OneFrame, Same, Watched
  <2> QED
    BY <2>1 DEF SafeInv, DriveInv, OneFrame, Same
<1>4. OwnersAgree'
  BY OwnersStay DEF SafeInv, DriveInv
<1>5. EndsDriveNothing'
  BY <1>1, EndsStay DEF SafeInv, DriveInv
<1>6. \A t \in Slots : SlotDriven(t)'
  BY <1>2, DrivenStays DEF SafeInv, DriveInv
<1>7. ASSUME ~terminated' PROVE WakeInv'
  <2>1. ~terminated /\ WakeInv /\ UNCHANGED <<steps, result, spawned, deferredWakes>>
    BY <1>7 DEF SafeInv
  <2>2. \A t \in Slots : WakeStays(t)
    BY <1>2, <2>1 DEF WakeStays, Same, Watched, Queued
  <2>3. \A t \in Slots : SlotWoken(t)'
    BY <2>1, <2>2, WokenStays DEF WakeInv
  <2>4. WakesCurrent'
    BY <2>1, CurrentStays DEF WakeInv
  <2>5. EndsReached'
    BY <1>1, <2>1, ReachedStays DEF WakeInv, Ended
  <2> QED
    BY <2>1, <2>3, <2>4, <2>5 DEF WakeInv
<1> QED
  BY <1>3, <1>4, <1>5, <1>6, <1>7 DEF SafeInv, DriveInv

\* What is on the stack, typed.
LEMMA StackHere ==
  ASSUME Types
  PROVE  /\ stack \in Seq(Items)
         /\ stack # <<>> => /\ Tail(stack) \in Seq(Items) /\ Top \in Items
                            /\ Top.slot \in Slots /\ Top.gen \in Nat
                            /\ StackOfItems(Tail(stack))
BY StackPopped DEF Types, StackTypes, StackOfItems, Top

\* A call that returns, of a kind that is not watched.
LEMMA SameReturned ==
  ASSUME Types, stack # <<>>, Top.op \notin Watched, stack' = Tail(stack)
  PROVE  Same(stack', stack)
BY StackHere, SamePopped DEF Top

\* The counts of drives, the embedder's calls and the drainer's.
LEMMA SafeOfRest ==
  ASSUME Types, Types', RegistryInv, SafeInv,
         \/ TrackDrive \/ FinallyRest \/ KickClosureDrainer \/ DrainerNext \/ Quiesce
         \/ Terminate \/ (\E c \in Calls : Schedule(c)) \/ (\E i \in Invocations : Invoke(i))
         \/ UNCHANGED vars
  PROVE  SafeInv'
<1>1. stack \in Seq(Items) /\ deferredCancels = <<>>
  BY StackHere DEF SafeInv, DriveInv, OneFrame
<1>2. CASE TrackDrive \/ FinallyRest \/ KickClosureDrainer
  <2>1. /\ stack # <<>> /\ Top.op \in {"track", "finally", "kick"} /\ stack' = Tail(stack)
        /\ UNCHANGED <<generation, exec, driving, phase, by, jobs, slotOf, genOf, inv,
                       deferredCancels, steps, result, spawned, deferredWakes, terminated>>
    BY <1>2 DEF TrackDrive, FinallyRest, KickClosureDrainer, Calling, context, wakes, drives, invokes
  <2>2. Same(stack', stack)
    BY <2>1, SameReturned DEF Watched
  <2> QED
    BY <1>1, <2>1, <2>2, SafeStays
<1>3. CASE DrainerNext \/ Quiesce \/ UNCHANGED vars
  <2>1. UNCHANGED <<stack, generation, exec, driving, phase, by, jobs, slotOf, genOf, inv,
                    deferredCancels, steps, result, spawned, deferredWakes, terminated>>
    BY <1>3 DEF DrainerNext, Quiesce, vars, context, wakes, drives, invokes
  <2>2. Same(stack', stack)
    BY <1>1, <2>1, SameHere
  <2> QED
    BY <1>1, <2>1, <2>2, SafeStays
<1>4. CASE Terminate
  <2>1. /\ UNCHANGED <<stack, generation, exec, driving, phase, by, jobs, slotOf, genOf>>
        /\ terminated' /\ deferredCancels' = <<>>
        /\ \A i \in Invocations : inv'[i] = inv[i] \/ inv'[i] = "terminated"
    BY <1>4 DEF Terminate, context, wakes, drives
  <2>2. Same(stack', stack)
    BY <1>1, <2>1, SameHere
  <2>3. \A i \in Invocations : inv'[i] \in Unbegun => inv[i] \in Unbegun
    BY <2>1 DEF Unbegun
  <2> QED
    BY <2>1, <2>2, <2>3, SafeStays
<1>5. ASSUME NEW c \in Calls, Schedule(c) PROVE SafeInv'
  <2> DEFINE x == Item("kick", Root, 0, None)
  <2>1. /\ stack' = <<x>> \o stack
        /\ UNCHANGED <<generation, exec, driving, phase, by, jobs, slotOf, genOf, inv,
                       deferredCancels, steps, result, spawned, deferredWakes, terminated>>
    BY <1>5 DEF Schedule, context, wakes, drives, invokes
  <2>2. x \in Items /\ x.op \notin Watched
    BY OtherCalls DEF Watched
  <2> HIDE DEF x
  <2>3. Same(stack', stack)
    BY <1>1, <2>1, <2>2, SameAlone
  <2> QED
    BY <1>1, <2>1, <2>3, SafeStays
<1>6. ASSUME NEW i \in Invocations, Invoke(i) PROVE SafeInv'
  <2> DEFINE x == Item("begin", Root, 0, i)
  <2>1. /\ stack' = stack \/ stack' = <<x>> \o stack
        /\ UNCHANGED <<generation, exec, driving, phase, by, jobs, slotOf, genOf,
                       deferredCancels, steps, result, spawned, deferredWakes, terminated>>
        /\ inv[i] = "none" /\ \E r : inv' = Outcome(i, r)
    BY <1>6 DEF Invoke, context, wakes, drives
  <2>2. \A j \in Invocations : inv'[j] \in Unbegun => inv[j] \in Unbegun
    <3>1. \A j \in Invocations : j = i \/ inv'[j] = inv[j]
      BY <2>1, OutcomeIs
    <3> QED
      BY <2>1, <3>1 DEF Unbegun
  <2>3. x \in Items /\ x.op \notin Watched
    BY OtherCalls DEF Watched
  <2> HIDE DEF x
  <2>4. Same(stack', stack)
    BY <1>1, <2>1, <2>3, SameAlone, SameHere
  <2> QED
    BY <1>1, <2>1, <2>2, <2>4, SafeStays
<1> QED
  BY <1>2, <1>3, <1>4, <1>5, <1>6

\* resume()'s calls: no owner was cancelled meanwhile.
LEMMA SafeOfResume ==
  ASSUME Types, Types', RegistryInv, SafeInv, Resume \/ ResumeReinvokes
  PROVE  SafeInv'
<1>1. stack \in Seq(Items) /\ deferredCancels = <<>>
  BY StackHere DEF SafeInv, DriveInv, OneFrame
<1>2. CASE Resume
  <2> DEFINE x == Item("redispatch", Root, 0, None)
             none == [k \in DOMAIN deferredCancels |-> Item("cancel", Root, 0, deferredCancels[k])]
  <2>1. /\ stack' = none \o <<x>> \o stack /\ deferredCancels' = <<>>
        /\ UNCHANGED <<generation, exec, driving, phase, by, jobs, slotOf, genOf, inv,
                       steps, result, spawned, deferredWakes, terminated>>
    BY <1>2 DEF Resume, context, wakes, drives
  <2>2. none = <<>>
    <3>1. DOMAIN deferredCancels = {}
      BY <1>1
    <3> QED
      BY <3>1
  <2>3. x \in Items /\ x.op \notin Watched
    BY OtherCalls DEF Watched
  <2> HIDE DEF x, none
  <2>4. none \o <<x>> = <<x>>
    BY <2>2
  <2>5. Same(stack', stack)
    BY <1>1, <2>1, <2>3, <2>4, SameAlone
  <2> QED
    BY <2>1, <2>5, SafeStays
<1>3. CASE ResumeReinvokes
  <2> DEFINE x == Item("kick", Root, 0, None)
             calls == [k \in DOMAIN deferredInvokes |-> Item("rebegin", Root, 0, deferredInvokes[k])]
  <2>1. /\ stack # <<>> /\ Top.op = "reinvoke" /\ stack' = calls \o <<x>> \o Tail(stack)
        /\ UNCHANGED <<generation, exec, driving, phase, by, jobs, slotOf, genOf, inv,
                       deferredCancels, steps, result, spawned, deferredWakes, terminated>>
    BY <1>3 DEF ResumeReinvokes, Calling, context, wakes, drives
  <2>2. x \in Items /\ x.op = "kick"
    BY OtherCalls
  <2>3. calls \in Seq(Items) /\ \A y \in ToSet(calls) : y.op = "rebegin"
    <3>1. /\ Len(deferredInvokes) \in Nat /\ DOMAIN deferredInvokes = 1 .. Len(deferredInvokes)
          /\ \A k \in 1 .. Len(deferredInvokes) : deferredInvokes[k] \in Invocations
      BY DEF Types, InvokeTypes
    <3>2. /\ calls \in [1 .. Len(deferredInvokes) -> Items]
          /\ \A k \in 1 .. Len(deferredInvokes) : calls[k].op = "rebegin"
      BY <3>1, OtherCalls
    <3> HIDE DEF calls
    <3>3. calls \in Seq(Items) /\ ToSet(calls) = {calls[k] : k \in 1 .. Len(deferredInvokes)}
      BY <3>1, <3>2, MappedOn
    <3> QED
      BY <3>2, <3>3
  <2> HIDE DEF x, calls
  <2>4. <<x>> \in Seq(Items) /\ ToSet(<<x>>) = {x}
    BY <2>2, ShortElements
  <2>5. calls \o <<x>> \in Seq(Items) /\ \A y \in ToSet(calls \o <<x>>) : y.op \notin Watched
    <3>1. /\ calls \o <<x>> \in Seq(Items)
          /\ ToSet(calls \o <<x>>) = ToSet(calls) \cup ToSet(<<x>>)
      BY <2>3, <2>4, ConcatElements
    <3> QED
      BY <2>2, <2>3, <2>4, <3>1 DEF Watched
  <2>6. Tail(stack) \in Seq(Items) /\ Same(Tail(stack), stack)
    BY <1>1, <2>1, StackHere, SamePopped DEF Watched, Top
  <2>7. Same(stack', stack)
    BY <2>1, <2>5, <2>6, SamePushed, SameChain
  <2> QED
    BY <1>1, <2>1, <2>7, SafeStays
<1> QED
  BY <1>2, <1>3

(***************************************************************************)
(* Runs of contexts.                                                       *)
(***************************************************************************)
\* A drive whose frame is the innermost call is in its loop, and has no wake.
LEMMA LoopHere ==
  ASSUME Types, SafeInv, stack # <<>>, Top.op \in Frame
  PROVE  LET s == Top.slot
         IN /\ s \in Slots /\ phase[s] = "loop" /\ driving[s] # 0 /\ exec[s] # "free"
            /\ driving[s] = generation[s]
            /\ ~terminated => /\ ~Woken(s) /\ ~Queued(s) /\ ~Held(s)
                              /\ Top.op = "loop" => exec[s] \in Runnable
                              /\ Top.op = "return" => Ended(s) /\ Top.id \in {"done", "error"}
<1> DEFINE s == Top.slot
<1>1. s \in Slots /\ stack \in Seq(Items)
  BY StackHere
<1>2. Top \in ToSet(stack)
  BY <1>1, TailElements DEF Top
<1>3. On(Top.op, s, stack)
  BY <1>2 DEF On
<1> HIDE DEF s
<1>4. phase[s] = "loop" /\ driving[s] # 0 /\ exec[s] # "free" /\ driving[s] = generation[s]
  BY <1>1, <1>3 DEF SafeInv, DriveInv, SlotDriven, Framed, Frame
<1>5. ASSUME ~terminated
      PROVE  /\ ~Woken(s) /\ ~Queued(s) /\ ~Held(s)
             /\ Top.op = "loop" => exec[s] \in Runnable
             /\ Top.op = "return" => Ended(s) /\ Top.id \in {"done", "error"}
  BY <1>1, <1>2, <1>3, <1>4, <1>5 DEF SafeInv, WakeInv, SlotWoken, InLoop, WakesCurrent
<1> QED
  BY <1>1, <1>4, <1>5 DEF s

\* What a step of the loop that drives slot s leaves of the stack: the other slots'
\* calls, and for s at most its return.
FrameMoves(s) ==
  /\ OncePer(Frame, stack') /\ (OncePer({"wake"}, stack) => OncePer({"wake"}, stack'))
  /\ \A x \in ToSet(stack') : x.op \in Watched =>
       x \in ToSet(stack) \/ (x.op = "return" /\ x.slot = s /\ x.id \in {"done", "error"})
  /\ \A op \in Watched : \A t : t # s \/ op = "wake" => (On(op, t, stack') <=> On(op, t, stack))

\* A run of a slot moves that slot's frame, drive and context, and nothing else.
LEMMA LoopSteps ==
  ASSUME Types, Types', RegistryInv, SafeInv, stack # <<>>, Top.op \in Frame,
         NEW s, s = Top.slot, FrameMoves(s),
         UNCHANGED <<generation, driving, by, jobs, slotOf, genOf, inv, deferredCancels,
                     terminated, spawned, deferredWakes>>,
         \A t \in Slots : t # s => /\ exec'[t] = exec[t] /\ phase'[t] = phase[t]
                                   /\ steps'[t] = steps[t] /\ result'[t] = result[t],
         steps \in [Slots -> Nat] => steps' \in [Slots -> Nat],
         exec'[s] # "free", phase'[s] # "none", phase'[s] = "loop" <=> Framed(s)',
         ~terminated => (Ended(s) => Ended(s)') /\ SlotWoken(s)'
  PROVE  SafeInv'
<1>1. /\ s \in Slots /\ phase[s] = "loop" /\ driving[s] # 0 /\ exec[s] # "free"
      /\ driving[s] = generation[s]
  BY LoopHere
<1>2. NoneRevived
  BY <1>1 DEF NoneRevived
<1>3. \A t \in Slots : t # s => DriveStays(t)
  BY DEF DriveStays, FrameMoves, Frame, Watched
<1>4. OneFrame'
  <2>1. \A x \in ToSet(stack') : x.op # "cancel"
    BY DEF SafeInv, DriveInv, OneFrame, FrameMoves, Watched
  <2> QED
    BY <2>1 DEF SafeInv, DriveInv, OneFrame, FrameMoves
<1>5. OwnersAgree'
  BY OwnersStay DEF SafeInv, DriveInv
<1>6. EndsDriveNothing'
  BY <1>2, EndsStay DEF SafeInv, DriveInv
<1>7. \A t \in Slots : SlotDriven(t)'
  <2>1. SlotDriven(s)'
    BY <1>1 DEF SlotDriven
  <2>2. \A t \in Slots : t # s => SlotDriven(t)'
    BY <1>3, DrivenStays DEF SafeInv, DriveInv
  <2> QED
    BY <2>1, <2>2
<1>8. ASSUME ~terminated' PROVE WakeInv'
  <2>1. ~terminated /\ WakeInv
    BY <1>8 DEF SafeInv
  <2>2. \A t \in Slots : t # s => WakeStays(t)
    BY <1>3, <2>1 DEF WakeStays, FrameMoves, Watched, Queued
  <2>3. \A t \in Slots : t # s => SlotWoken(t)'
    BY <2>1, <2>2, WokenStays DEF WakeInv
  <2>4. WakesCurrent'
    BY <2>1 DEF WakeInv, WakesCurrent, FrameMoves, Watched
  <2>5. EndsReached'
    <3>1. \A t \in Slots : Ended(t) => Ended(t)'
      BY <2>1 DEF Ended
    <3> QED
      BY <1>2, <2>1, <3>1, ReachedStays DEF WakeInv
  <2> QED
    BY <2>1, <2>3, <2>4, <2>5 DEF WakeInv
<1> QED
  BY <1>4, <1>5, <1>6, <1>7, <1>8 DEF SafeInv, DriveInv

\* The loop has returned.
LEMMA FrameReturned ==
  ASSUME Types, SafeInv, stack # <<>>, Top.op \in Frame, Same(stack', Tail(stack))
  PROVE  /\ FrameMoves(Top.slot)
         /\ ~On("loop", Top.slot, stack') /\ ~On("return", Top.slot, stack')
<1> DEFINE s == Top.slot
           t == Tail(stack)
<1>1. stack \in Seq(Items) /\ OncePer(Frame, stack)
  BY StackHere DEF SafeInv, DriveInv, OneFrame
<1>2. /\ t \in Seq(Items) /\ ToSet(stack) = {Top} \cup ToSet(t)
      /\ \A op, n : On(op, n, stack) <=> (Top.op = op /\ s = n) \/ On(op, n, t)
      /\ \A ops : OncePer(ops, stack) =>
           /\ OncePer(ops, t)
           /\ Top.op \in ops => \A y \in ToSet(t) : y.op \in ops => s # y.slot
  BY <1>1, PoppedOn DEF Top
<1> HIDE DEF t, s
<1>3. ~On("loop", s, t) /\ ~On("return", s, t)
  BY <1>1, <1>2 DEF On, Frame
<1>4. ~On("loop", s, stack') /\ ~On("return", s, stack')
  BY <1>3 DEF Same, Watched, t
<1>5. FrameMoves(s)
  BY <1>1, <1>2 DEF FrameMoves, Same, Frame, Watched, t
<1> QED
  BY <1>4, <1>5 DEF s

\* The stack on which the loop is to return r.
LEMMA ReturnCalled ==
  ASSUME Types, SafeInv, stack # <<>>, Top.op \in Frame, NEW r \in {"done", "error"}
  PROVE  LET s == Top.slot
             u == <<Item("return", s, Top.gen, r)>> \o Tail(stack)
         IN /\ u \in Seq(Items)
            /\ \A x \in ToSet(u) : x \in ToSet(stack) \/ (x.op = "return" /\ x.slot = s /\ x.id = r)
            /\ OncePer(Frame, u) /\ (OncePer({"wake"}, stack) => OncePer({"wake"}, u))
            /\ On("return", s, u) /\ ~On("loop", s, u)
            /\ \A op \in Watched : \A t : t # s \/ op = "wake" => (On(op, t, u) <=> On(op, t, stack))
            /\ \A calls \in Seq(Items) : ReturnAfter(calls, s, r) =>
                 stack' = calls \o u /\ UNCHANGED <<phase, result>>
<1> DEFINE s == Top.slot
           t == Tail(stack)
           x == Item("return", s, Top.gen, r)
           u == <<x>> \o t
<1>1. stack \in Seq(Items) /\ OncePer(Frame, stack) /\ s \in Slots /\ Top.gen \in Nat
  BY StackHere DEF SafeInv, DriveInv, OneFrame
<1>2. /\ t \in Seq(Items) /\ ToSet(stack) = {Top} \cup ToSet(t)
      /\ \A op, n : On(op, n, stack) <=> (Top.op = op /\ s = n) \/ On(op, n, t)
      /\ \A ops : OncePer(ops, stack) =>
           /\ OncePer(ops, t)
           /\ Top.op \in ops => \A y \in ToSet(t) : y.op \in ops => s # y.slot
  BY <1>1, PoppedOn DEF Top
<1>3. x \in Items /\ x.op = "return" /\ x.slot = s /\ x.id = r
  BY <1>1, WatchedCalls DEF Results
<1>4. \A calls : ReturnAfter(calls, s, r) => UNCHANGED <<phase, result>> /\ stack' = calls \o <<x>> \o t
  BY DEF ReturnAfter
<1> HIDE DEF t, s, x
<1>5. /\ u \in Seq(Items) /\ ToSet(u) = {x} \cup ToSet(t)
      /\ \A op, n : On(op, n, u) <=> (x.op = op /\ x.slot = n) \/ On(op, n, t)
      /\ \A ops : /\ OncePer(ops, t)
                  /\ x.op \in ops => \A y \in ToSet(t) : y.op \in ops => x.slot # y.slot
                  => OncePer(ops, u)
  BY <1>2, <1>3, PushedOn
<1>6. \A calls \in Seq(Items) : ReturnAfter(calls, s, r) => stack' = calls \o u /\ UNCHANGED <<phase, result>>
  <2>1. <<x>> \in Seq(Items)
    BY <1>3
  <2>2. \A calls \in Seq(Items) : calls \o <<x>> \o t = calls \o u
    BY <1>2, <2>1, ConcatAssociative
  <2> HIDE DEF u
  <2> QED
    BY <1>4, <2>2
<1> HIDE DEF u
<1>7. ~On("loop", s, t) /\ ~On("return", s, t)
  BY <1>1, <1>2 DEF On, Frame
<1>8. On("return", s, u) /\ ~On("loop", s, u)
  BY <1>3, <1>5, <1>7
<1>9. OncePer(Frame, u) /\ (OncePer({"wake"}, stack) => OncePer({"wake"}, u))
  BY <1>1, <1>2, <1>3, <1>5 DEF Frame
<1>10. \A op \in Watched : \A n : n # s \/ op = "wake" => (On(op, n, u) <=> On(op, n, stack))
  BY <1>2, <1>3, <1>5 DEF Frame
<1>11. \A y \in ToSet(u) : y \in ToSet(stack) \/ (y.op = "return" /\ y.slot = s /\ y.id = r)
  BY <1>2, <1>3, <1>5
<1> QED
  BY <1>5, <1>6, <1>8, <1>9, <1>10, <1>11 DEF u, x, t, s

\* The loop is to return r, after calls of other kinds.
LEMMA FrameReturns ==
  ASSUME Types, SafeInv, stack # <<>>, Top.op \in Frame, NEW r \in {"done", "error"},
         NEW calls \in Seq(Items), \A x \in ToSet(calls) : x.op \notin Watched,
         ReturnAfter(calls, Top.slot, r)
  PROVE  /\ FrameMoves(Top.slot) /\ On("return", Top.slot, stack') /\ ~On("loop", Top.slot, stack')
         /\ UNCHANGED <<phase, result>>
<1> DEFINE s == Top.slot
           u == <<Item("return", s, Top.gen, r)>> \o Tail(stack)
<1>1. /\ u \in Seq(Items)
      /\ \A x \in ToSet(u) : x \in ToSet(stack) \/ (x.op = "return" /\ x.slot = s /\ x.id = r)
      /\ OncePer(Frame, u) /\ (OncePer({"wake"}, stack) => OncePer({"wake"}, u))
      /\ On("return", s, u) /\ ~On("loop", s, u)
      /\ \A op \in Watched : \A t : t # s \/ op = "wake" => (On(op, t, u) <=> On(op, t, stack))
      /\ stack' = calls \o u /\ UNCHANGED <<phase, result>>
  BY ReturnCalled
<1> HIDE DEF u, s
<1>2. Same(stack', u)
  BY <1>1, SamePushed
<1>3. FrameMoves(s)
  BY <1>1, <1>2 DEF FrameMoves, Same, Frame, Watched
<1>4. On("return", s, stack') /\ ~On("loop", s, stack')
  BY <1>1, <1>2 DEF Same, Watched
<1> QED
  BY <1>1, <1>3, <1>4 DEF s

\* The loop of a drive, each way its run ends.
LEMMA SafeOfRuns ==
  ASSUME Types, Types', RegistryInv, SafeInv, NEW s \in Slots,
         \/ RunEnds(s) \/ RunParks(s) \/ RunPauses(s)
         \/ RunReturns(s) \/ RunStrays(s) \/ LoopTerminated(s)
  PROVE  SafeInv'
<1>1. /\ stack # <<>> /\ Top.op \in Frame /\ s = Top.slot
      /\ UNCHANGED <<generation, driving, by, jobs, slotOf, genOf, inv, deferredCancels,
                     terminated, spawned, deferredWakes>>
  BY DEF RunEnds, RunParks, RunPauses, RunReturns, RunStrays, LoopTerminated, Run, Calling, Frame,
         context, wakes, invokes
<1>2. /\ phase[s] = "loop" /\ driving[s] # 0 /\ exec[s] # "free"
      /\ ~terminated => /\ ~Woken(s) /\ ~Queued(s) /\ ~Held(s)
                        /\ Top.op = "loop" => exec[s] \in Runnable
                        /\ Top.op = "return" => Ended(s) /\ Top.id \in {"done", "error"}
                        /\ SlotWoken(s) /\ steps \in [Slots -> Nat]
  BY <1>1, LoopHere DEF SafeInv, WakeInv
<1>3. stack \in Seq(Items) /\ Tail(stack) \in Seq(Items)
  BY <1>1, StackHere
<1>4. /\ exec \in [Slots -> Execs] /\ phase \in [Slots -> Phases] /\ result \in [Slots -> Results]
  BY DEF Types, ContextTypes, DriveTypes
\* The slot has no wake, and no cancellation took one off the queue.
<1>5. ~terminated /\ FrameMoves(s) => ~Woken(s)' /\ ~Queued(s)' /\ ~Held(s)'
  BY <1>1, <1>2 DEF FrameMoves, Woken, Queued, Held, Watched
<1>6. CASE RunEnds(s)
  <2>1. PICK e \in {"done", "failed"}, r \in {"done", "error"} :
          exec' = [exec EXCEPT ![s] = e] /\ ReturnAfter(<<Drain>>, s, r)
    BY <1>6 DEF RunEnds
  <2>2. ~terminated /\ UNCHANGED steps
    BY <1>6 DEF RunEnds, Run
  <2>3. <<Drain>> \in Seq(Items) /\ \A x \in ToSet(<<Drain>>) : x.op \notin Watched
    BY OtherCalls, ShortElements DEF Watched
  <2>4. /\ FrameMoves(s) /\ On("return", s, stack') /\ ~On("loop", s, stack')
        /\ UNCHANGED <<phase, result>>
    BY <1>1, <2>1, <2>3, FrameReturns
  <2>5. exec'[s] = e /\ Ended(s)'
    BY <1>4, <2>1 DEF Ended
  <2>6. SlotWoken(s)'
    BY <1>2, <1>5, <2>2, <2>4, <2>5 DEF SlotWoken, Runnable
  <2> QED
    BY <1>1, <1>2, <1>4, <2>1, <2>2, <2>4, <2>5, <2>6, LoopSteps DEF Framed
<1>7. ASSUME NEW r \in Results, LoopReturn(s, r)
      PROVE  /\ FrameMoves(s) /\ ~On("loop", s, stack') /\ ~On("return", s, stack')
             /\ phase'[s] = "returned" /\ result'[s] = r
             /\ \A t \in Slots : t # s => phase'[t] = phase[t] /\ result'[t] = result[t]
  <2>1. Same(stack', Tail(stack))
    BY <1>3, <1>7, SameHere DEF LoopReturn
  <2> QED
    BY <1>1, <1>4, <1>7, <2>1, FrameReturned DEF LoopReturn
<1>8. CASE RunParks(s)
  <2>1. /\ ~terminated /\ exec' = [exec EXCEPT ![s] = "parked"] /\ steps' = Step(s)
        /\ LoopReturn(s, "parked")
    BY <1>8 DEF RunParks, Run
  <2>2. /\ FrameMoves(s) /\ ~On("loop", s, stack') /\ ~On("return", s, stack')
        /\ phase'[s] = "returned" /\ result'[s] = "parked"
        /\ \A t \in Slots : t # s => phase'[t] = phase[t] /\ result'[t] = result[t]
    BY <1>7, <2>1 DEF Results
  <2>3. /\ exec'[s] = "parked" /\ steps'[s] # 0 /\ steps' \in [Slots -> Nat]
        /\ \A t \in Slots : t # s => exec'[t] = exec[t] /\ steps'[t] = steps[t]
    BY <1>2, <1>4, <2>1 DEF Step
  <2>4. SlotWoken(s)'
    BY <1>5, <2>1, <2>2, <2>3 DEF SlotWoken, Runnable, Ended, Parked, Terminal
  <2>5. Ended(s) => Ended(s)'
    BY <1>1, <1>2, <1>8, <2>1 DEF Ended, Runnable, RunParks, Run
  <2> QED
    BY <1>1, <2>2, <2>3, <2>4, <2>5, LoopSteps DEF Framed
<1>9. CASE RunPauses(s)
  <2>1. /\ ~terminated /\ exec' = [exec EXCEPT ![s] = "paused"] /\ steps' = Step(s)
        /\ \/ UNCHANGED <<stack, phase, result>>
           \/ LoopReturn(s, "paused")
           \/ phase' = [phase EXCEPT ![s] = "hook"] /\ stack' = Tail(stack) /\ UNCHANGED result
        /\ exec[s] \in Runnable /\ Top.op = "loop"
    BY <1>9 DEF RunPauses, Run, Calling
  <2>2. /\ exec'[s] = "paused" /\ steps' \in [Slots -> Nat] /\ (Ended(s) => Ended(s)')
        /\ \A t \in Slots : t # s => exec'[t] = exec[t] /\ steps'[t] = steps[t]
    BY <1>2, <1>4, <2>1 DEF Step, Ended, Runnable
  <2>3. CASE UNCHANGED <<stack, phase, result>>
    <3>1. FrameMoves(s)
      BY <2>3 DEF FrameMoves, SafeInv, DriveInv, OneFrame
    <3>2. On("loop", s, stack) /\ ~On("return", s, stack)
      <4>1. On("loop", s, stack)
        BY <1>1, <1>3, <2>1, TailElements DEF On, Top
      <4>2. ~On("return", s, stack)
        BY <1>2, <2>1 DEF SlotWoken, Ended, Runnable
      <4> QED
        BY <4>1, <4>2
    <3>3. phase'[s] = "loop" /\ InLoop(s)' /\ On("loop", s, stack') /\ ~On("return", s, stack')
      BY <1>2, <2>3, <3>2 DEF InLoop
    <3>4. SlotWoken(s)'
      BY <1>5, <2>1, <2>2, <3>1, <3>3 DEF SlotWoken, Runnable
    <3> QED
      BY <1>1, <2>2, <2>3, <3>1, <3>3, <3>4, LoopSteps DEF Framed
  <2>4. CASE LoopReturn(s, "paused")
    <3>1. /\ FrameMoves(s) /\ ~On("loop", s, stack') /\ ~On("return", s, stack')
          /\ phase'[s] = "returned" /\ result'[s] = "paused"
          /\ \A t \in Slots : t # s => phase'[t] = phase[t] /\ result'[t] = result[t]
      BY <1>7, <2>4 DEF Results
    <3>2. SlotWoken(s)'
      BY <1>5, <2>1, <2>2, <3>1 DEF SlotWoken, Runnable, Ended, Parked, Terminal
    <3> QED
      BY <1>1, <2>2, <3>1, <3>2, LoopSteps DEF Framed
  <2>5. CASE phase' = [phase EXCEPT ![s] = "hook"] /\ stack' = Tail(stack) /\ UNCHANGED result
    <3>1. Same(stack', Tail(stack))
      BY <1>3, <2>5, SameHere
    <3>2. /\ FrameMoves(s) /\ ~On("loop", s, stack') /\ ~On("return", s, stack')
          /\ phase'[s] = "hook" /\ \A t \in Slots : t # s => phase'[t] = phase[t]
      BY <1>1, <1>4, <2>5, <3>1, FrameReturned
    <3>3. SlotWoken(s)'
      BY <1>5, <2>1, <2>2, <3>2 DEF SlotWoken, Runnable
    <3> QED
      BY <1>1, <2>2, <2>5, <3>2, <3>3, LoopSteps DEF Framed
  <2> QED
    BY <2>1, <2>3, <2>4, <2>5
<1>10. CASE RunReturns(s) \/ RunStrays(s) \/ LoopTerminated(s)
  <2>1. PICK r \in Results :
          /\ LoopReturn(s, r) /\ UNCHANGED <<exec, steps>>
          /\ ~terminated => Top.op = "return" /\ r = Top.id
    <3>1. CASE RunReturns(s)
      <4>1. Top.op = "return" /\ ItemTyped(Top)
        BY <1>1, <3>1, StackPopped DEF RunReturns, Calling, Types, StackTypes, Top
      <4> QED
        BY <3>1, <4>1 DEF RunReturns, context, ItemTyped
    <3>2. CASE RunStrays(s)
      <4>1. ~terminated /\ Top.op = "loop" /\ exec[s] \notin Runnable
        BY <3>2 DEF RunStrays, Calling
      <4> QED
        BY <1>2, <4>1
    <3>3. CASE LoopTerminated(s)
      BY <3>3 DEF LoopTerminated, context, Results
    <3> QED
      BY <1>10, <3>1, <3>2, <3>3
  <2>2. /\ FrameMoves(s) /\ ~On("loop", s, stack') /\ ~On("return", s, stack')
        /\ phase'[s] = "returned" /\ result'[s] = r
        /\ \A t \in Slots : t # s => phase'[t] = phase[t] /\ result'[t] = result[t]
    BY <1>7, <2>1
  <2>3. Ended(s) => Ended(s)'
    BY <2>1 DEF Ended
  <2>4. ASSUME ~terminated PROVE SlotWoken(s)'
    <3>1. Ended(s)' /\ r \in {"done", "error"}
      BY <1>2, <2>1, <2>3, <2>4
    <3> QED
      BY <1>5, <2>2, <2>4, <3>1 DEF SlotWoken, Runnable, Ended, Parked, Terminal
  <2> QED
    BY <1>1, <1>2, <2>1, <2>2, <2>3, <2>4, LoopSteps DEF Framed
<1> QED
  BY <1>6, <1>8, <1>9, <1>10

(***************************************************************************)
(* Steps that wake or allocate a context.                                  *)
(***************************************************************************)
\* A step that touches the slots T.
LEMMA SafeTouched ==
  ASSUME SafeInv, NEW T, OneFrame', OwnersAgree', EndsDriveNothing',
         \A t \in Slots : t \notin T => DriveStays(t),
         \A t \in Slots : t \in T => SlotDriven(t)',
         ~terminated' => /\ ~terminated /\ steps' \in [Slots -> Nat] /\ WakesCurrent' /\ EndsReached'
                         /\ \A t \in Slots : t \notin T => WakeStays(t)
                         /\ \A t \in Slots : t \in T => SlotWoken(t)'
  PROVE  SafeInv'
<1>1. \A t \in Slots : SlotDriven(t)'
  BY DrivenStays DEF SafeInv, DriveInv
<1>2. ASSUME ~terminated' PROVE \A t \in Slots : SlotWoken(t)'
  BY <1>2, WokenStays DEF SafeInv, WakeInv
<1> QED
  BY <1>1, <1>2 DEF SafeInv, DriveInv, WakeInv

\* A free slot is not driven, and nobody wakes it.
LEMMA FreeSlot ==
  ASSUME SafeInv, NEW n \in Slots, exec[n] = "free"
  PROVE  /\ driving[n] = 0 /\ phase[n] = "none" /\ ~Framed(n)
         /\ ~terminated => ~Woken(n) /\ ~Queued(n) /\ ~Held(n)
BY DEF SafeInv, DriveInv, SlotDriven, WakeInv, SlotWoken, Runnable

\* A parked context is not in a loop, and nobody wakes it yet.
LEMMA ParkedSlot ==
  ASSUME SafeInv, ~terminated, NEW n \in Slots, exec[n] = "parked"
  PROVE  ~InLoop(n) /\ ~Woken(n) /\ ~Queued(n) /\ ~Held(n) /\ ~Framed(n) /\ steps[n] # 0
<1>1. SlotDriven(n) /\ SlotWoken(n)
  BY DEF SafeInv, DriveInv, WakeInv
<1>2. ~Woken(n) /\ ~Queued(n) /\ ~Held(n) /\ steps[n] # 0
  BY <1>1 DEF SlotWoken, Runnable
<1>3. ~Framed(n)
  BY <1>1 DEF SlotWoken, Framed, Runnable, Ended
<1>4. ~InLoop(n)
  BY <1>1, <1>3 DEF InLoop, SlotDriven, SlotWoken
<1> QED
  BY <1>2, <1>3, <1>4

\* A wake put on a stack.
LEMMA WakeCalled ==
  ASSUME NEW rest \in Seq(Items), NEW n \in Slots, NEW g \in Nat, ~On("wake", n, rest)
  PROVE  LET u == <<Wake(n, g)>> \o rest
         IN /\ u \in Seq(Items) /\ ToSet(u) = {Wake(n, g)} \cup ToSet(rest)
            /\ \A op, t : On(op, t, u) <=> (op = "wake" /\ t = n) \/ On(op, t, rest)
            /\ \A ops \in {Frame, {"wake"}} : OncePer(ops, rest) => OncePer(ops, u)
<1> DEFINE x == Wake(n, g)
<1>1. x \in Items /\ x.op = "wake" /\ x.slot = n
  BY WatchedCalls
<1> HIDE DEF x
<1> DEFINE u == <<x>> \o rest
<1>2. /\ u \in Seq(Items) /\ ToSet(u) = {x} \cup ToSet(rest)
      /\ \A op, t : On(op, t, u) <=> (x.op = op /\ x.slot = t) \/ On(op, t, rest)
      /\ \A ops : /\ OncePer(ops, rest)
                  /\ x.op \in ops => \A y \in ToSet(rest) : y.op \in ops => x.slot # y.slot
                  => OncePer(ops, u)
  BY <1>1, PushedOn
<1> HIDE DEF u
<1>3. \A ops \in {Frame, {"wake"}} : OncePer(ops, rest) => OncePer(ops, u)
  <2>1. \A y \in ToSet(rest) : y.op = "wake" => n # y.slot
    BY DEF On
  <2> QED
    BY <1>1, <1>2, <2>1 DEF Frame
<1>4. \A op, t : On(op, t, u) <=> (op = "wake" /\ t = n) \/ On(op, t, rest)
  BY <1>1, <1>2
<1> QED
  BY <1>2, <1>3, <1>4 DEF u, x

\* A context that is allocated takes a free slot, and a generation of its own.
LEMMA Allocated ==
  ASSUME Types, RegistryInv, CanAllocate, generation' = [generation EXCEPT ![NextSlot] = @ + 1]
  PROVE  \E n \in Slots, g \in Nat :
           /\ n = NextSlot /\ g = NextGeneration /\ exec[n] = "free" /\ waiter[n] = None
           /\ generation[n] < g /\ generation'[n] = g /\ g # 0
           /\ \A t \in Slots : t # n => generation'[t] = generation[t]
<1>1. PICK n \in Slots, g \in Nat : n = NextSlot /\ g = NextGeneration
  BY FreshContext
<1>2. /\ exec[n] = "free" /\ waiter[n] = None /\ generation[n] < g /\ generation'[n] = g
      /\ generation[n] \in Nat /\ \A t \in Slots : t # n => generation'[t] = generation[t]
  BY <1>1, FreshContext DEF Types, ContextTypes
<1>3. g # 0
  BY <1>2
<1> QED
  BY <1>1, <1>2, <1>3

\* The slots of what waits on the stack and in the queue.
LEMMA WakesOfSlots ==
  ASSUME Types
  PROVE  /\ \A x \in ToSet(stack) : x.slot \in Slots /\ (x.op = "wake" => Woken(x.slot))
         /\ Len(spawned) \in Nat
         /\ \A k \in 1 .. Len(spawned) : spawned[k].slot \in Slots /\ Queued(spawned[k].slot)
<1>1. \A k \in DOMAIN stack : stack[k] \in Items
  BY DEF Types, StackTypes, StackOfItems
<1>2. \A x \in ToSet(stack) : x.slot \in Slots /\ (x.op = "wake" => Woken(x.slot))
  BY <1>1 DEF ToSet, Items, Woken, On
<1>3. Len(spawned) \in Nat /\ \A k \in 1 .. Len(spawned) : spawned[k] \in Identities
  BY DEF Types, ContextTypes
<1>4. \A k \in 1 .. Len(spawned) : spawned[k].slot \in Slots /\ Queued(spawned[k].slot)
  BY <1>3 DEF Identities, Queued
<1> QED
  BY <1>2, <1>3, <1>4

\* A child context is spawned, and its wake is called.
LEMMA SafeOfSpawn ==
  ASSUME Types, Types', RegistryInv, SafeInv, NEW s \in Slots, RunSpawns(s)
  PROVE  SafeInv'
<1>1. /\ stack # <<>> /\ Top.op = "loop" /\ s = Top.slot /\ ~terminated /\ exec[s] \in Runnable
      /\ CanAllocate /\ generation' = [generation EXCEPT ![NextSlot] = @ + 1]
      /\ exec' = [exec EXCEPT ![NextSlot] = "ready"]
      /\ steps' = [steps EXCEPT ![s] = @ + 1, ![NextSlot] = 0]
      /\ stack' = <<Wake(NextSlot, NextGeneration)>> \o stack
      /\ UNCHANGED <<driving, phase, result, by, jobs, slotOf, genOf, inv, deferredCancels,
                     terminated, spawned, deferredWakes>>
  BY DEF RunSpawns, Run, Calling, wakes, drives, invokes
<1>2. PICK n \in Slots, g \in Nat :
        /\ n = NextSlot /\ g = NextGeneration /\ exec[n] = "free"
        /\ generation[n] < g /\ generation'[n] = g /\ g # 0
        /\ \A t \in Slots : t # n => generation'[t] = generation[t]
  BY <1>1, Allocated
<1>3. /\ exec[n] = "free" /\ generation'[n] = g /\ g # 0 /\ n # s /\ generation[n] < g
      /\ \A t \in Slots : t # n => generation'[t] = generation[t]
  BY <1>1, <1>2 DEF Runnable
<1>4. /\ driving[n] = 0 /\ phase[n] = "none" /\ ~Framed(n) /\ ~Woken(n) /\ ~Queued(n) /\ ~Held(n)
  BY <1>1, <1>3, FreeSlot
<1>5. /\ exec'[n] = "ready" /\ (\A t \in Slots : t # n => exec'[t] = exec[t])
      /\ steps' \in [Slots -> Nat] /\ steps'[s] # 0
      /\ \A t \in Slots : t \notin {n, s} => steps'[t] = steps[t]
  <2>1. steps \in [Slots -> Nat] /\ exec \in [Slots -> Execs]
    BY <1>1 DEF SafeInv, WakeInv, Types, ContextTypes
  <2>2. /\ steps' = [steps EXCEPT ![s] = steps[s] + 1, ![n] = 0]
        /\ exec' = [exec EXCEPT ![n] = "ready"]
    BY <1>1, <1>2
  <2> QED
    BY <1>3, <2>1, <2>2
<1>6. /\ stack' \in Seq(Items) /\ ToSet(stack') = {Wake(n, g)} \cup ToSet(stack)
      /\ \A op, t : On(op, t, stack') <=> (op = "wake" /\ t = n) \/ On(op, t, stack)
      /\ \A ops \in {Frame, {"wake"}} : OncePer(ops, stack) => OncePer(ops, stack')
  BY <1>1, <1>2, <1>4, StackHere, WakeCalled DEF Woken
<1>7. Wake(n, g).op = "wake" /\ Wake(n, g).slot = n /\ Wake(n, g).gen = g
  BY WatchedCalls
<1>8. NoneRevived
  BY <1>3, <1>5 DEF NoneRevived
<1>9. OneFrame'
  BY <1>1, <1>6, <1>7 DEF SafeInv, DriveInv, OneFrame
<1>10. OwnersAgree' /\ EndsDriveNothing'
  BY <1>1, <1>8, OwnersStay, EndsStay DEF SafeInv, DriveInv
<1>11. \A t \in Slots : t # n => DriveStays(t)
  BY <1>1, <1>3, <1>5, <1>6 DEF DriveStays, Frame
<1>12. SlotDriven(n)'
  BY <1>1, <1>3, <1>4, <1>6 DEF SlotDriven, Framed
<1>13. WakesCurrent'
  <2>1. \A x \in ToSet(stack) : x.op = "wake" => x.gen = generation'[x.slot]
    BY <1>1, <1>3, <1>4, WakesOfSlots DEF SafeInv, WakeInv, WakesCurrent
  <2>2. \A k \in 1 .. Len(spawned) : spawned[k].gen = generation'[spawned[k].slot]
    BY <1>1, <1>3, <1>4, WakesOfSlots DEF SafeInv, WakeInv, WakesCurrent
  <2> QED
    BY <1>1, <1>3, <1>6, <1>7, <2>1, <2>2 DEF SafeInv, WakeInv, WakesCurrent
<1>14. EndsReached'
  <2>1. \A t \in Slots : Ended(t) => Ended(t)'
    BY <1>3, <1>5 DEF Ended
  <2> QED
    BY <1>1, <1>8, <2>1, ReachedStays DEF SafeInv, WakeInv
<1>15. \A t \in Slots : t \notin {n, s} => WakeStays(t)
  BY <1>1, <1>5, <1>6, <1>11 DEF WakeStays, Queued
<1>16. SlotWoken(n)'
  BY <1>1, <1>4, <1>5, <1>6 DEF SlotWoken, Woken, Queued, Held, Framed, InLoop, Runnable
<1>17. SlotWoken(s)' /\ SlotDriven(s)'
  <2>1. SlotDriven(s)'
    BY <1>3, <1>11, DrivenStays DEF SafeInv, DriveInv
  <2>2. /\ SlotWoken(s) /\ InLoop(s)
    <3>1. On("loop", s, stack)
      BY <1>1, StackHere, TailElements DEF On, Top
    <3> QED
      BY <1>1, <3>1 DEF SafeInv, DriveInv, SlotDriven, Framed, InLoop, WakeInv
  <2>3. /\ exec'[s] = exec[s] /\ generation'[s] = generation[s] /\ steps'[s] # 0
        /\ UNCHANGED <<phase, result, deferredWakes, spawned>>
        /\ \A op : On(op, s, stack') <=> On(op, s, stack)
    BY <1>1, <1>3, <1>5, <1>6
  <2>4. SlotWoken(s)'
    BY <2>2, <2>3 DEF SlotWoken, Woken, Queued, Held, InLoop, Ended, Fresh
  <2> QED
    BY <2>1, <2>4
<1> QED
  <2> DEFINE T == {n, s}
  <2>1. /\ \A t \in Slots : t \notin T => DriveStays(t) /\ WakeStays(t)
        /\ \A t \in Slots : t \in T => SlotDriven(t)' /\ SlotWoken(t)'
    BY <1>11, <1>12, <1>15, <1>16, <1>17
  <2> HIDE DEF T
  <2> QED
    BY <1>1, <1>5, <1>9, <1>10, <1>13, <1>14, <2>1, SafeTouched

\* A parked context that is made ready, and whose wake is queued or called.
LEMMA ReadySlot ==
  ASSUME SafeInv, ~terminated, NEW t \in Slots, exec[t] = "parked", exec'[t] = "ready",
         generation'[t] = generation[t], steps'[t] = steps[t], phase'[t] = phase[t],
         driving'[t] = driving[t], result'[t] = result[t], deferredWakes'[t] = deferredWakes[t],
         \A op \in Frame : On(op, t, stack') <=> On(op, t, stack),
         (Woken(t)' /\ (Queued(t)' <=> Queued(t))) \/ (Queued(t)' /\ (Woken(t)' <=> Woken(t)))
  PROVE  SlotDriven(t)' /\ SlotWoken(t)'
<1>1. /\ ~InLoop(t) /\ ~Woken(t) /\ ~Queued(t) /\ ~Held(t) /\ ~Framed(t) /\ steps[t] # 0
      /\ SlotDriven(t) /\ SlotWoken(t)
  BY ParkedSlot DEF SafeInv, DriveInv, WakeInv
<1>2. SlotDriven(t)'
  BY <1>1 DEF SlotDriven, Framed, Frame
<1>3. SlotWoken(t)'
  BY <1>1 DEF SlotWoken, InLoop, Held, Framed, Frame, Runnable, Ended
<1> QED
  BY <1>2, <1>3

\* A method or an async call ends, and the context that awaits it is woken.
LEMMA SafeOfCompletes ==
  ASSUME Types, Types', RegistryInv, SafeInv, NEW s \in Slots, RunCompletes(s)
  PROVE  SafeInv'
<1>1. /\ stack # <<>> /\ Top.op = "loop" /\ s = Top.slot /\ ~terminated /\ exec[s] \in Runnable
      /\ UNCHANGED <<generation, steps, driving, by, jobs, slotOf, genOf, inv, deferredCancels,
                     terminated, spawned, deferredWakes>>
  BY DEF RunCompletes, Run, Calling, invokes
<1>2. PICK id \in promises :
        /\ id.slot # s /\ Live(id.slot, id.gen) /\ exec[id.slot] = "parked"
        /\ exec' = [exec EXCEPT ![s] = "done", ![id.slot] = "ready"]
        /\ ReturnAfter(<<Wake(id.slot, id.gen), Drain>>, s, "done")
  BY DEF RunCompletes
<1>3. id.slot \in Slots /\ id.gen \in Nat
  BY DEF Types, ContextTypes, Identities
<1> DEFINE w == Wake(id.slot, id.gen)
           calls == <<w, Drain>>
           u == <<Item("return", s, Top.gen, "done")>> \o Tail(stack)
<1>4. PICK t \in Slots : t = id.slot
  BY <1>3
<1>5. /\ t # s /\ exec[t] = "parked" /\ generation[t] = id.gen
      /\ exec'[s] = "done" /\ exec'[t] = "ready"
      /\ \A n \in Slots : n \notin {s, t} => exec'[n] = exec[n]
  <2>1. exec \in [Slots -> Execs] /\ exec' = [exec EXCEPT ![s] = "done", ![t] = "ready"]
    BY <1>2, <1>4 DEF Types, ContextTypes
  <2> QED
    BY <1>2, <1>4, <2>1 DEF Live
<1>6. w \in Items /\ w.op = "wake" /\ w.slot = t /\ w.gen = generation[t] /\ Drain \in Items
      /\ Drain.op = "drain"
  BY <1>3, <1>4, <1>5, WatchedCalls, OtherCalls
<1>7. /\ u \in Seq(Items)
      /\ \A x \in ToSet(u) : x \in ToSet(stack) \/ (x.op = "return" /\ x.slot = s /\ x.id = "done")
      /\ OncePer(Frame, u) /\ (OncePer({"wake"}, stack) => OncePer({"wake"}, u))
      /\ On("return", s, u) /\ ~On("loop", s, u)
      /\ \A op \in Watched : \A n : n # s \/ op = "wake" => (On(op, n, u) <=> On(op, n, stack))
      /\ stack' = calls \o u /\ UNCHANGED <<phase, result>>
  <2>1. calls \in Seq(Items)
    BY <1>6
  <2> QED
    BY <1>1, <1>2, <2>1, ReturnCalled DEF Frame
<1>8. /\ phase[s] = "loop" /\ driving[s] # 0 /\ ~Woken(s) /\ ~Queued(s) /\ ~Held(s) /\ SlotDriven(s)
      /\ driving[s] = generation[s] /\ OncePer({"wake"}, stack) /\ steps \in [Slots -> Nat]
  BY <1>1, LoopHere DEF Frame, SafeInv, WakeInv, WakesCurrent, DriveInv
<1>9. ~InLoop(t) /\ ~Woken(t) /\ ~Queued(t) /\ ~Held(t) /\ ~Framed(t)
  BY <1>1, <1>5, ParkedSlot
<1>10. /\ calls \in Seq(Items) /\ ToSet(calls) = {w, Drain} /\ \A ops \in {Frame, {"wake"}} : OncePer(ops, calls)
       /\ \A op \in Watched : \A n : On(op, n, calls) <=> op = "wake" /\ n = t
  BY <1>6, FewOn, OtherCalls DEF Frame, Watched
<1> HIDE DEF u, calls, w
<1>11. /\ stack' \in Seq(Items) /\ ToSet(stack') = {w, Drain} \cup ToSet(u)
       /\ \A op \in Watched : \A n : On(op, n, stack') <=> (op = "wake" /\ n = t) \/ On(op, n, u)
       /\ OncePer(Frame, stack') /\ OncePer({"wake"}, stack')
  <2>1. /\ stack' \in Seq(Items) /\ ToSet(stack') = ToSet(calls) \cup ToSet(u)
        /\ \A op, n : On(op, n, stack') <=> On(op, n, calls) \/ On(op, n, u)
        /\ \A ops : /\ OncePer(ops, calls) /\ OncePer(ops, u)
                    /\ \A x \in ToSet(calls), y \in ToSet(u) :
                         x.op \in ops /\ y.op \in ops => x.slot # y.slot
                    => OncePer(ops, stack')
    BY <1>7, <1>10, ConcatOn
  <2>2. \A y \in ToSet(u) : y.op = "wake" => y.slot # t
    <3>1. ~On("wake", t, u)
      BY <1>7, <1>9 DEF Woken, Watched
    <3> QED
      BY <3>1 DEF On
  <2>3. OncePer(Frame, stack') /\ OncePer({"wake"}, stack')
    BY <1>6, <1>7, <1>8, <1>10, <2>1, <2>2 DEF Frame
  <2> QED
    BY <1>10, <2>1, <2>3
<1>12. NoneRevived
  BY <1>1, <1>5 DEF NoneRevived, Runnable
<1>13. OneFrame'
  BY <1>1, <1>6, <1>7, <1>11 DEF SafeInv, DriveInv, OneFrame
<1>14. OwnersAgree' /\ EndsDriveNothing'
  BY <1>1, <1>12, OwnersStay, EndsStay DEF SafeInv, DriveInv
<1>15. \A n \in Slots : n \notin {s, t} => WakeStays(n)
  BY <1>1, <1>5, <1>7, <1>11 DEF WakeStays, DriveStays, Queued, Frame, Watched
<1>16. WakesCurrent'
  BY <1>1, <1>6, <1>7, <1>11 DEF SafeInv, WakeInv, WakesCurrent
<1>17. EndsReached'
  <2>1. \A n \in Slots : Ended(n) => Ended(n)'
    BY <1>1, <1>5 DEF Ended, Runnable
  <2> QED
    BY <1>1, <1>12, <2>1, ReachedStays DEF SafeInv, WakeInv
<1>18. SlotDriven(t)' /\ SlotWoken(t)'
  <2>1. /\ \A op \in Frame : On(op, t, stack') <=> On(op, t, stack)
        /\ Woken(t)' /\ (Queued(t)' <=> Queued(t))
    BY <1>1, <1>5, <1>7, <1>11 DEF Frame, Watched, Woken, Queued
  <2> QED
    BY <1>1, <1>5, <1>7, <2>1, ReadySlot
<1>19. SlotDriven(s)' /\ SlotWoken(s)'
  <2>1. /\ On("return", s, stack') /\ ~On("loop", s, stack') /\ ~Woken(s)' /\ ~Queued(s)' /\ ~Held(s)'
    BY <1>1, <1>5, <1>7, <1>8, <1>11 DEF Woken, Queued, Held, Watched
  <2>2. SlotDriven(s)'
    BY <1>1, <1>5, <1>7, <1>8, <2>1 DEF SlotDriven, Framed
  <2>3. SlotWoken(s)'
    BY <1>5, <1>7, <1>8, <2>1 DEF SlotWoken, Ended
  <2> QED
    BY <2>2, <2>3
<1> QED
  <2> DEFINE T == {s, t}
  <2>1. /\ \A n \in Slots : n \notin T => DriveStays(n) /\ WakeStays(n)
        /\ \A n \in Slots : n \in T => SlotDriven(n)' /\ SlotWoken(n)'
    BY <1>15, <1>18, <1>19 DEF WakeStays
  <2> HIDE DEF T
  <2> QED
    BY <1>1, <1>8, <1>13, <1>14, <1>16, <1>17, <2>1, SafeTouched

\* A host promise settles: the context that awaits it is made ready, and its wake queued.
LEMMA SafeOfSettle ==
  ASSUME Types, Types', RegistryInv, SafeInv, Settle
  PROVE  SafeInv'
<1>1. /\ stack = <<>>
      /\ UNCHANGED <<generation, steps, driving, phase, result, by, jobs, slotOf, genOf, inv,
                     deferredCancels, terminated, deferredWakes>>
  BY DEF Settle, BetweenJobs, drives, invokes
<1>2. PICK id \in promises :
        \/ /\ Live(id.slot, id.gen) /\ exec[id.slot] = "parked"
           /\ exec' = [exec EXCEPT ![id.slot] = "ready"]
           /\ spawned' = IF Contains(spawned, id) THEN spawned ELSE Append(spawned, id)
           /\ stack' = <<Drain>>
        \/ UNCHANGED <<exec, spawned, stack>>
  BY DEF Settle
<1>3. id \in Identities /\ id.slot \in Slots /\ spawned \in Seq(Identities) /\ Len(spawned) \in Nat
  BY DEF Types, ContextTypes, Identities
<1>4. Same(stack', stack)
  <2>1. Drain \in Items /\ Drain.op \notin Watched
    BY OtherCalls DEF Watched
  <2>2. Same(<<Drain>>, <<>>) /\ Same(<<>>, <<>>)
    BY <2>1, SameAlone, SameHere, EmptySeq
  <2> QED
    BY <1>1, <1>2, <2>2
<1>5. CASE UNCHANGED <<exec, spawned, stack>>
  BY <1>1, <1>4, <1>5, SafeStays DEF SafeInv, DriveInv, OneFrame
<1>6. CASE /\ Live(id.slot, id.gen) /\ exec[id.slot] = "parked"
           /\ exec' = [exec EXCEPT ![id.slot] = "ready"]
           /\ spawned' = IF Contains(spawned, id) THEN spawned ELSE Append(spawned, id)
  <2>1. PICK t \in Slots : t = id.slot
    BY <1>3
  <2>2. /\ exec[t] = "parked" /\ generation[t] = id.gen /\ exec'[t] = "ready"
        /\ \A n \in Slots : n # t => exec'[n] = exec[n]
    BY <1>6, <2>1 DEF Live, Types, ContextTypes
  <2>3. NoneRevived
    BY <1>1, <2>2 DEF NoneRevived
  <2>4. OneFrame'
    BY <1>1, <1>4 DEF SafeInv, DriveInv, OneFrame, Same, Watched
  <2>5. OwnersAgree' /\ EndsDriveNothing'
    BY <1>1, <2>3, OwnersStay, EndsStay DEF SafeInv, DriveInv
  <2>6. \A n \in Slots : n # t => DriveStays(n)
    BY <1>1, <1>4, <2>2 DEF DriveStays, Same, Frame, Watched
  <2>7. CASE terminated
    <3>1. SlotDriven(t)'
      BY <1>1, <1>4, <2>2 DEF SlotDriven, SafeInv, DriveInv, Framed, Same, Watched
    <3> DEFINE T == {t}
    <3>2. /\ \A n \in Slots : n \notin T => DriveStays(n)
          /\ \A n \in Slots : n \in T => SlotDriven(n)'
      BY <2>6, <3>1
    <3> HIDE DEF T
    <3> QED
      BY <1>1, <2>4, <2>5, <2>7, <3>2, SafeTouched
  <2>8. CASE ~terminated
    <3>1. WakesCurrent /\ ~Queued(t) /\ steps \in [Slots -> Nat]
      BY <2>2, <2>8, ParkedSlot DEF SafeInv, WakeInv
    <3>2. ~Contains(spawned, id)
      <4>1. DOMAIN spawned = 1 .. Len(spawned)
        BY <1>3
      <4>2. \A k \in 1 .. Len(spawned) : spawned[k].slot # id.slot
        BY <2>1, <3>1 DEF Queued
      <4> QED
        BY <4>1, <4>2 DEF Contains
    <3>3. spawned' = Append(spawned, id)
      BY <1>6, <3>2
    <3>4. /\ Len(spawned') = Len(spawned) + 1 /\ spawned'[Len(spawned) + 1] = id
          /\ \A k \in 1 .. Len(spawned) : spawned'[k] = spawned[k]
      BY <1>3, <3>3, AppendElements
    <3>5. \A k \in 1 .. Len(spawned') : k = Len(spawned) + 1 \/ k \in 1 .. Len(spawned)
      BY <1>3, <3>4
    <3>6. \A k \in 1 .. Len(spawned) : k \in 1 .. Len(spawned') /\ Len(spawned) + 1 \in 1 .. Len(spawned')
      BY <1>3, <3>4
    <3>7. Len(spawned) + 1 \in 1 .. Len(spawned')
      BY <1>3, <3>4
    <3>8. Queued(t)' /\ \A n \in Slots : n # t => (Queued(n)' <=> Queued(n))
      BY <2>1, <3>4, <3>5, <3>6, <3>7 DEF Queued
    <3>9. \A k, l \in 1 .. Len(spawned') : spawned'[k].slot = spawned'[l].slot => k = l
      <4> TAKE k, l \in 1 .. Len(spawned')
      <4>1. \A m \in 1 .. Len(spawned) : spawned[m].slot # id.slot
        BY <2>1, <3>1 DEF Queued
      <4> QED
        BY <3>1, <3>4, <3>5, <4>1 DEF WakesCurrent
    <3>10. WakesCurrent'
      <4>1. OncePer({"wake"}, stack')
        BY <1>4, <3>1 DEF WakesCurrent, Same
      <4>2. \A x \in ToSet(stack') : x.op \notin Watched
        BY <1>1, <1>4, FewOn DEF Same
      <4>3. \A k \in 1 .. Len(spawned') : spawned'[k].gen = generation'[spawned'[k].slot]
        BY <1>1, <2>1, <2>2, <3>1, <3>4, <3>5 DEF WakesCurrent
      <4> QED
        BY <3>9, <4>1, <4>2, <4>3 DEF WakesCurrent, Watched
    <3>11. EndsReached'
      <4>1. \A n \in Slots : Ended(n) => Ended(n)'
        BY <2>2 DEF Ended
      <4> QED
        BY <1>1, <2>3, <2>8, <4>1, ReachedStays DEF SafeInv, WakeInv
    <3>12. \A n \in Slots : n # t => WakeStays(n)
      BY <1>1, <1>4, <2>6, <3>8 DEF WakeStays, Same, Watched
    <3>13. SlotDriven(t)' /\ SlotWoken(t)'
      <4>1. /\ \A op \in Frame : On(op, t, stack') <=> On(op, t, stack)
            /\ Woken(t)' <=> Woken(t)
        BY <1>4 DEF Same, Frame, Watched, Woken
      <4> QED
        BY <1>1, <2>2, <2>8, <3>8, <4>1, ReadySlot
    <3> DEFINE T == {t}
    <3>14. /\ \A n \in Slots : n \notin T => DriveStays(n) /\ WakeStays(n)
           /\ \A n \in Slots : n \in T => SlotDriven(n)' /\ SlotWoken(n)'
      BY <2>6, <3>12, <3>13
    <3> HIDE DEF T
    <3> QED
      BY <1>1, <2>4, <2>5, <2>8, <3>1, <3>10, <3>11, <3>14, SafeTouched
  <2> QED
    BY <2>7, <2>8
<1> QED
  BY <1>2, <1>5, <1>6

\* The calls made for a sequence of wakes, one per slot, with more calls after them.
LEMMA WakesMade ==
  ASSUME Types, stack # <<>>, Top.op \notin Watched,
         NEW n \in Nat, NEW made \in [1 .. n -> Items],
         NEW more \in Seq(Items), \A x \in ToSet(more) : x.op \notin Watched,
         \A k \in 1 .. n : made[k].op = "wake" /\ ~Woken(made[k].slot),
         \A k, l \in 1 .. n : made[k].slot = made[l].slot => k = l,
         stack' = made \o (more \o Tail(stack))
  PROVE  /\ \A x \in ToSet(stack') : x.op \in Watched =>
              x \in ToSet(stack) \/ \E k \in 1 .. n : x = made[k]
         /\ \A op \in Watched : \A s :
              On(op, s, stack') <=> On(op, s, stack) \/ (op = "wake" /\ \E k \in 1 .. n : made[k].slot = s)
         /\ \A ops \in {Frame, {"wake"}} : OncePer(ops, stack) => OncePer(ops, stack')
<1>1. Tail(stack) \in Seq(Items) /\ Same(Tail(stack), stack)
  BY StackHere, SamePopped DEF Top
<1> DEFINE rest == more \o Tail(stack)
<1>2. Same(rest, stack)
  BY <1>1, SamePushed, SameChain
<1> HIDE DEF rest
<1>3. /\ made \in Seq(Items) /\ ToSet(made) = {made[k] : k \in 1 .. n} /\ \A ops : OncePer(ops, made)
  BY MappedOn
<1>4. /\ ToSet(stack') = ToSet(made) \cup ToSet(rest)
      /\ \A op, s : On(op, s, stack') <=> On(op, s, made) \/ On(op, s, rest)
      /\ \A ops : /\ OncePer(ops, made) /\ OncePer(ops, rest)
                  /\ \A x \in ToSet(made), y \in ToSet(rest) :
                       x.op \in ops /\ y.op \in ops => x.slot # y.slot
                  => OncePer(ops, stack')
  BY <1>2, <1>3, ConcatOn DEF Same, rest
<1>5. \A op, s : On(op, s, made) <=> op = "wake" /\ \E k \in 1 .. n : made[k].slot = s
  BY <1>3 DEF On
<1>6. \A ops \in {Frame, {"wake"}} : OncePer(ops, stack) => OncePer(ops, stack')
  <2>1. \A x \in ToSet(made), y \in ToSet(rest) : y.op = "wake" => x.slot # y.slot
    <3> TAKE x \in ToSet(made), y \in ToSet(rest)
    <3>1. ASSUME y.op = "wake", x.slot = y.slot PROVE FALSE
      <4>1. ~Woken(x.slot)
        BY <1>3
      <4>2. y \in ToSet(stack)
        BY <1>2, <3>1 DEF Same, Watched
      <4> QED
        BY <3>1, <4>1, <4>2 DEF Woken, On
    <3> QED
      BY <3>1
  <2>2. \A x \in ToSet(made) : x.op = "wake"
    BY <1>3
  <2> SUFFICES ASSUME NEW ops \in {Frame, {"wake"}}, OncePer(ops, stack) PROVE OncePer(ops, stack')
    OBVIOUS
  <2>3. OncePer(ops, rest)
    BY <1>2 DEF Same
  <2>4. \A x \in ToSet(made), y \in ToSet(rest) : x.op \in ops /\ y.op \in ops => x.slot # y.slot
    BY <2>1, <2>2 DEF Frame
  <2> QED
    BY <1>3, <1>4, <2>3, <2>4
<1>7. \A op \in Watched : \A s : On(op, s, rest) <=> On(op, s, stack)
  BY <1>2 DEF Same
<1>8. \A x \in ToSet(stack') : x.op \in Watched => x \in ToSet(stack) \/ \E k \in 1 .. n : x = made[k]
  BY <1>2, <1>3, <1>4 DEF Same
<1> QED
  BY <1>4, <1>5, <1>6, <1>7, <1>8


\* Wakes that are called from where they waited: no slot's is called twice, and none is left.
LEMMA WakesHanded ==
  ASSUME Types, Types', RegistryInv, SafeInv, stack # <<>>, Top.op \notin Watched,
         NEW n \in Nat, NEW made \in [1 .. n -> Items],
         NEW more \in Seq(Items), \A x \in ToSet(more) : x.op \notin Watched,
         stack' = made \o (more \o Tail(stack)),
         \A k \in 1 .. n : made[k].op = "wake",
         UNCHANGED <<context, drives, slotOf, genOf, inv, deferredCancels, terminated>>,
         ~terminated =>
           /\ \A k \in 1 .. n : LET s == made[k].slot
                                IN /\ made[k].gen = generation[s] /\ (Queued(s) \/ Held(s))
                                   /\ ~Queued(s)' /\ deferredWakes'[s] = 0
           /\ \A k, l \in 1 .. n : made[k].slot = made[l].slot => k = l
           /\ spawned' \in {spawned, <<>>}
           /\ \A s \in Slots : \/ \E k \in 1 .. n : made[k].slot = s
                               \/ (Queued(s)' <=> Queued(s)) /\ deferredWakes'[s] = deferredWakes[s]
  PROVE  SafeInv'
<1>1. UNCHANGED <<generation, exec, steps, driving, phase, result, by, jobs, slotOf, genOf, inv,
                  deferredCancels, terminated>>
  BY DEF context, drives
<1> DEFINE rest == more \o Tail(stack)
<1>2. Same(rest, stack)
  <2>1. Tail(stack) \in Seq(Items) /\ Same(Tail(stack), stack)
    BY StackHere, SamePopped DEF Top
  <2> QED
    BY <2>1, SamePushed, SameChain
<1>3. /\ made \in Seq(Items) /\ OncePer(Frame, made)
      /\ \A x \in ToSet(made) : x.op = "wake"
  <2>1. \A k \in 1 .. n : made[k].op \notin Frame
    BY DEF Frame
  <2> QED
    BY <2>1, MappedOn
<1>4. /\ ToSet(stack') = ToSet(made) \cup ToSet(rest)
      /\ \A op, s : On(op, s, stack') <=> On(op, s, made) \/ On(op, s, rest)
      /\ \A ops : /\ OncePer(ops, made) /\ OncePer(ops, rest)
                  /\ \A x \in ToSet(made), y \in ToSet(rest) :
                       x.op \in ops /\ y.op \in ops => x.slot # y.slot
                  => OncePer(ops, stack')
  BY <1>2, <1>3, ConcatOn DEF Same
<1> HIDE DEF rest
<1>5. \A op \in Frame : \A s : On(op, s, stack') <=> On(op, s, stack)
  <2>1. \A op \in Frame : \A s : ~On(op, s, made)
    BY <1>3 DEF On, Frame
  <2>2. \A op \in Frame : \A s : On(op, s, rest) <=> On(op, s, stack)
    BY <1>2 DEF Same, Frame, Watched
  <2> QED
    BY <1>4, <2>1, <2>2
<1>6. OneFrame'
  <2>1. OncePer(Frame, rest) /\ \A x \in ToSet(rest) : x.op # "cancel"
    BY <1>2 DEF SafeInv, DriveInv, OneFrame, Same, Watched
  <2>2. OncePer(Frame, stack')
    <3>1. \A x \in ToSet(made) : x.op \notin Frame
      BY <1>3 DEF Frame
    <3> QED
      BY <1>3, <1>4, <2>1, <3>1
  <2> QED
    BY <1>1, <1>3, <1>4, <2>1, <2>2 DEF SafeInv, DriveInv, OneFrame
<1>7. NoneRevived
  BY <1>1 DEF NoneRevived
<1>8. OwnersAgree' /\ EndsDriveNothing'
  BY <1>1, <1>7, OwnersStay, EndsStay DEF SafeInv, DriveInv
<1>9. \A t \in Slots : DriveStays(t)
  BY <1>1, <1>5 DEF DriveStays
<1> DEFINE T == {made[k].slot : k \in 1 .. n}
<1>10. \A t \in Slots : SlotDriven(t)'
  BY <1>9, DrivenStays DEF SafeInv, DriveInv
<1>11. ASSUME ~terminated
       PROVE  /\ steps' \in [Slots -> Nat] /\ WakesCurrent' /\ EndsReached'
              /\ \A t \in Slots : t \notin T => WakeStays(t)
              /\ \A t \in Slots : t \in T => SlotWoken(t)'
  <2>1. WakeInv
    BY <1>11 DEF SafeInv
  <2>2. \A k \in 1 .. n : made[k].slot \in Slots /\ made[k].op = "wake" /\ ~Woken(made[k].slot)
    BY <1>11, <2>1 DEF Items, WakeInv, SlotWoken
  <2>3. /\ \A x \in ToSet(stack') : x.op \in Watched =>
             x \in ToSet(stack) \/ \E k \in 1 .. n : x = made[k]
        /\ \A op \in Watched : \A s :
             On(op, s, stack') <=> On(op, s, stack) \/ (op = "wake" /\ \E k \in 1 .. n : made[k].slot = s)
        /\ \A ops \in {Frame, {"wake"}} : OncePer(ops, stack) => OncePer(ops, stack')
    <3>1. \A k, l \in 1 .. n : made[k].slot = made[l].slot => k = l
      BY <1>11
    <3>2. \A k \in 1 .. n : made[k].op = "wake" /\ ~Woken(made[k].slot)
      BY <2>2
    <3> QED
      BY <3>1, <3>2, WakesMade
  <2>4. \A t \in Slots : t \notin T => WakeStays(t)
    BY <1>1, <1>9, <1>11, <2>3 DEF WakeStays, Watched
  <2>5. ASSUME NEW t \in Slots, t \in T PROVE SlotWoken(t)'
    <3>1. /\ SlotWoken(t) /\ (Queued(t) \/ Held(t)) /\ ~Queued(t)' /\ ~Held(t)'
          /\ Woken(t)'
      <4>1. PICK k \in 1 .. n : made[k].slot = t
        BY <2>5
      <4>2. (Queued(t) \/ Held(t)) /\ ~Queued(t)' /\ deferredWakes'[t] = 0
        BY <1>11, <4>1
      <4>3. On("wake", t, stack')
        BY <2>3, <4>1 DEF Watched
      <4>4. SlotWoken(t)
        BY <2>1 DEF WakeInv
      <4> QED
        BY <4>2, <4>3, <4>4 DEF Held, Woken
    <3>2. /\ exec[t] \in Runnable /\ ~InLoop(t) /\ ~InLoop(t)' /\ exec'[t] = exec[t]
          /\ phase'[t] = phase[t]
      BY <1>1, <3>1 DEF SlotWoken, InLoop
    <3> QED
      BY <1>1, <1>5, <3>1, <3>2 DEF SlotWoken, Frame, Ended, InLoop
  <2>6. WakesCurrent'
    <3>1. \A x \in ToSet(stack') : /\ x.op = "wake" => x.gen = generation'[x.slot]
                                   /\ x.op = "return" => x.id \in {"done", "error"}
      BY <1>1, <1>11, <2>1, <2>3 DEF WakeInv, WakesCurrent, Watched
    <3>2. /\ \A k, l \in 1 .. Len(spawned') : spawned'[k].slot = spawned'[l].slot => k = l
          /\ \A k \in 1 .. Len(spawned') : spawned'[k].gen = generation'[spawned'[k].slot]
      <4>1. CASE spawned' = spawned
        BY <1>1, <2>1, <4>1 DEF WakeInv, WakesCurrent
      <4>2. CASE spawned' = <<>>
        <5>1. 1 .. Len(spawned') = {}
          BY <4>2
        <5> QED
          BY <5>1
      <4> QED
        BY <1>11, <4>1, <4>2
    <3> QED
      BY <2>1, <2>3, <3>1, <3>2 DEF WakeInv, WakesCurrent
  <2>7. EndsReached'
    BY <1>1, <1>7, <2>1, ReachedStays DEF WakeInv, Ended
  <2> QED
    BY <1>1, <2>1, <2>4, <2>5, <2>6, <2>7 DEF WakeInv
<1>12. /\ \A t \in Slots : t \notin T => DriveStays(t)
       /\ \A t \in Slots : t \in T => SlotDriven(t)'
  BY <1>9, <1>10
<1>13. ~terminated' =>
         /\ ~terminated /\ steps' \in [Slots -> Nat] /\ WakesCurrent' /\ EndsReached'
         /\ \A t \in Slots : t \notin T => WakeStays(t)
         /\ \A t \in Slots : t \in T => SlotWoken(t)'
  BY <1>1, <1>11
<1> HIDE DEF T
<1> QED
  BY <1>6, <1>8, <1>12, <1>13, SafeTouched

\* The airlock's queue is drained: every wake in it is called.
LEMMA SafeOfDrain ==
  ASSUME Types, Types', RegistryInv, SafeInv, DrainSpawned
  PROVE  SafeInv'
<1>1. /\ stack # <<>> /\ Top.op = "drain" /\ Top.op \notin Watched
      /\ UNCHANGED <<context, drives, deferredWakes, slotOf, genOf, inv, deferredCancels, terminated>>
  BY DEF DrainSpawned, Calling, Watched, invokes
<1>2. CASE spawned' = spawned /\ stack' = Tail(stack)
  <2>1. Same(stack', stack)
    BY <1>1, <1>2, SameReturned
  <2> QED
    BY <1>1, <1>2, <2>1, SafeStays DEF context, drives, SafeInv, DriveInv, OneFrame
<1>3. CASE /\ spawned' = <<>> /\ ~terminated
           /\ stack' = [k \in DOMAIN spawned |-> Wake(spawned[k].slot, spawned[k].gen)] \o Tail(stack)
  <2>1. PICK n, made : n = Len(spawned) /\ made = [k \in 1 .. n |-> Wake(spawned[k].slot, spawned[k].gen)]
    OBVIOUS
  <2>2. n \in Nat /\ DOMAIN spawned = 1 .. n /\ \A k \in 1 .. n : spawned[k] \in Identities
    BY <2>1 DEF Types, ContextTypes
  <2>3. /\ made \in [1 .. n -> Items]
        /\ \A k \in 1 .. n : /\ made[k].op = "wake"
                              /\ made[k].slot = spawned[k].slot /\ made[k].gen = spawned[k].gen
    <3>1. \A k \in 1 .. n : LET w == Wake(spawned[k].slot, spawned[k].gen)
                            IN /\ w \in Items /\ w.op = "wake"
                               /\ w.slot = spawned[k].slot /\ w.gen = spawned[k].gen
      BY <2>2, WatchedCalls DEF Identities
    <3> QED
      BY <2>1, <3>1
  <2>4. stack' = made \o (<<>> \o Tail(stack)) /\ <<>> \in Seq(Items) /\ ToSet(<<>>) = {}
    <3>1. Tail(stack) \in Seq(Items)
      BY <1>1, StackHere
    <3>2. <<>> \o Tail(stack) = Tail(stack)
      BY <3>1, ConcatEmptySeq
    <3> QED
      BY <1>3, <2>1, <2>2, <3>2, ShortElements
  <2>5. WakesCurrent /\ \A s \in Slots : SlotWoken(s)
    BY <1>3 DEF SafeInv, WakeInv
  <2>6. \A s : ~Queued(s)' /\ (Queued(s) <=> \E k \in 1 .. n : made[k].slot = s)
    <3>1. 1 .. Len(spawned') = {}
      BY <1>3
    <3> QED
      BY <2>1, <2>3, <3>1 DEF Queued
  <2>7. \A k \in 1 .. n : LET s == made[k].slot
                          IN /\ s \in Slots /\ made[k].gen = generation[s] /\ Queued(s)
                             /\ deferredWakes[s] = 0
    BY <2>1, <2>2, <2>3, <2>5, <2>6 DEF WakesCurrent, SlotWoken, Held, Identities
  <2>8. \A k, l \in 1 .. n : made[k].slot = made[l].slot => k = l
    BY <2>1, <2>3, <2>5 DEF WakesCurrent
  <2>9. /\ \A k \in 1 .. n : LET s == made[k].slot
                             IN /\ made[k].gen = generation[s] /\ (Queued(s) \/ Held(s))
                                /\ ~Queued(s)' /\ deferredWakes'[s] = 0
        /\ \A s \in Slots : \/ \E k \in 1 .. n : made[k].slot = s
                            \/ (Queued(s)' <=> Queued(s)) /\ deferredWakes'[s] = deferredWakes[s]
    BY <1>1, <2>6, <2>7
  <2>10. PICK more \in Seq(Items) : more = <<>>
    BY <2>4
  <2>11. (\A x \in ToSet(more) : x.op \notin Watched) /\ stack' = made \o (more \o Tail(stack))
    BY <2>4, <2>10
  <2>12. \A k \in 1 .. n : made[k].op = "wake"
    BY <2>3
  <2> QED
    BY <1>1, <1>3, <2>2, <2>3, <2>8, <2>9, <2>11, <2>12, WakesHanded
<1> QED
  BY <1>2, <1>3 DEF DrainSpawned

\* A sequence of all the elements of a finite set, each once.
LEMMA Ordered ==
  ASSUME NEW H, IsFiniteSet(H), NEW order \in SetToSeqs(H)
  PROVE  \E n \in Nat :
           /\ order \in [1 .. n -> H]
           /\ \A k, l \in 1 .. n : order[k] = order[l] => k = l
           /\ \A s \in H : \E k \in 1 .. n : order[k] = s
<1> DEFINE n == Cardinality(H)
           D == 1 .. n
<1>1. n \in Nat
  BY FS_CardinalityType
<1>2. order \in [D -> H] /\ \A k, l \in D : order[k] = order[l] => k = l
  BY DEF SetToSeqs
<1>3. order \in Injection(D, H)
  BY <1>2 DEF Injection, IsInjective
<1>4. IsFiniteSet(D) /\ Cardinality(D) = n
  BY <1>1, FS_Interval
<1>5. order \in Surjection(D, H)
  BY <1>3, <1>4, FS_Injection
<1>6. \A s \in H : \E k \in D : order[k] = s
  BY <1>5 DEF Surjection
<1> QED
  BY <1>1, <1>2, <1>6

\* The wakes held back are called, when the runtime resumes.
LEMMA SafeOfRedispatch ==
  ASSUME Types, Types', RegistryInv, SafeInv, ResumeRedispatches
  PROVE  SafeInv'
<1> DEFINE reinvoke == Item("reinvoke", Root, 0, None)
<1>1. /\ stack # <<>> /\ Top.op = "redispatch" /\ Top.op \notin Watched
      /\ UNCHANGED <<context, drives, spawned, slotOf, genOf, inv, deferredCancels, terminated>>
      /\ deferredWakes' = [s \in Slots |-> 0]
  BY DEF ResumeRedispatches, Calling, Watched, invokes, wakes
<1>2. PICK H : H = {s \in Slots : deferredWakes[s] # 0}
  OBVIOUS
<1>3. PICK order \in SetToSeqs(H) :
        stack' = [k \in DOMAIN order |-> Wake(order[k], deferredWakes[order[k]])]
                 \o <<Drain, reinvoke>> \o Tail(stack)
  BY <1>2 DEF ResumeRedispatches
<1>4. PICK n \in Nat : /\ order \in [1 .. n -> H]
                       /\ \A k, l \in 1 .. n : order[k] = order[l] => k = l
                       /\ \A s \in H : \E k \in 1 .. n : order[k] = s
  <2>1. IsFiniteSet(H)
    BY <1>2, SlotsFinite, FS_Subset
  <2> QED
    BY <2>1, Ordered
<1>5. PICK made : made = [k \in 1 .. n |-> Wake(order[k], deferredWakes[order[k]])]
  OBVIOUS
<1>6. /\ made \in [1 .. n -> Items]
      /\ \A k \in 1 .. n : made[k].op = "wake" /\ made[k].slot = order[k]
                           /\ made[k].gen = deferredWakes[order[k]] /\ order[k] \in Slots
                           /\ deferredWakes[order[k]] # 0
  <2>1. \A k \in 1 .. n : order[k] \in Slots /\ deferredWakes[order[k]] \in Nat /\ deferredWakes[order[k]] # 0
    BY <1>2, <1>4 DEF Types, ContextTypes
  <2>2. \A k \in 1 .. n : LET w == Wake(order[k], deferredWakes[order[k]])
                          IN /\ w \in Items /\ w.op = "wake"
                             /\ w.slot = order[k] /\ w.gen = deferredWakes[order[k]]
    BY <2>1, WatchedCalls
  <2> QED
    BY <1>5, <2>1, <2>2
<1>7. PICK more \in Seq(Items) : more = <<Drain, reinvoke>>
  <2>1. Drain \in Items /\ reinvoke \in Items
    BY OtherCalls
  <2> HIDE DEF reinvoke
  <2>2. \A x, y \in Items : <<x, y>> \in Seq(Items)
    OBVIOUS
  <2> QED
    BY <2>1, <2>2
<1>8. \A x \in ToSet(more) : x.op \notin Watched
  BY <1>7, OtherCalls, ShortElements DEF Watched
<1>9. stack' = made \o (more \o Tail(stack))
  <2>1. made \in Seq(Items) /\ Tail(stack) \in Seq(Items)
    BY <1>1, <1>6, MappedOn, StackHere
  <2>2. DOMAIN order = 1 .. n
    BY <1>4
  <2>3. stack' = (made \o more) \o Tail(stack)
    BY <1>3, <1>5, <1>7, <2>2
  <2>4. \A a, b, c \in Seq(Items) : (a \o b) \o c = a \o (b \o c)
    BY ConcatAssociative
  <2> QED
    BY <2>1, <2>3, <2>4
<1>10. \A k, l \in 1 .. n : made[k].slot = made[l].slot => k = l
  BY <1>4, <1>6
<1>11. \A s \in Slots : Held(s) => \E k \in 1 .. n : made[k].slot = s
  BY <1>2, <1>4, <1>6 DEF Held
<1>12. \A s \in Slots : deferredWakes'[s] = 0 /\ (Queued(s)' <=> Queued(s))
  BY <1>1 DEF Queued
<1>13. ~terminated =>
        /\ \A k \in 1 .. n : LET s == made[k].slot
                             IN /\ made[k].gen = generation[s] /\ (Queued(s) \/ Held(s))
                                /\ ~Queued(s)' /\ deferredWakes'[s] = 0
        /\ \A k, l \in 1 .. n : made[k].slot = made[l].slot => k = l
        /\ spawned' \in {spawned, <<>>}
        /\ \A s \in Slots : \/ \E k \in 1 .. n : made[k].slot = s
                            \/ (Queued(s)' <=> Queued(s)) /\ deferredWakes'[s] = deferredWakes[s]
  <2> SUFFICES ASSUME ~terminated
               PROVE  /\ \A k \in 1 .. n : LET s == made[k].slot
                                           IN /\ made[k].gen = generation[s] /\ (Queued(s) \/ Held(s))
                                              /\ ~Queued(s)' /\ deferredWakes'[s] = 0
                      /\ \A s \in Slots : \/ \E k \in 1 .. n : made[k].slot = s
                                          \/ /\ Queued(s)' <=> Queued(s)
                                             /\ deferredWakes'[s] = deferredWakes[s]
    BY <1>1, <1>10
  <2>1. \A s \in Slots : SlotWoken(s)
    BY DEF SafeInv, WakeInv
  <2>2. \A s \in Slots : Held(s) => deferredWakes[s] = generation[s] /\ ~Queued(s)
    BY <2>1 DEF SlotWoken
  <2>3. \A k \in 1 .. n : Held(order[k]) /\ order[k] \in Slots /\ made[k].slot = order[k]
    BY <1>6 DEF Held
  <2> QED
    BY <1>6, <1>11, <1>12, <2>2, <2>3 DEF Held
<1>14. \A k \in 1 .. n : made[k].op = "wake"
  BY <1>6
<1> QED
  BY <1>1, <1>6, <1>8, <1>9, <1>13, <1>14, WakesHanded

(***************************************************************************)
(* A drive starts, or its wake is held back.                               *)
(***************************************************************************)
\* A loop and the rest of its drive, put on a stack.
LEMMA LoopCalled ==
  ASSUME NEW s \in Slots, NEW g \in Nat, NEW rest \in Seq(Items),
         \A op \in Frame : ~On(op, s, rest)
  PROVE  LET u == <<Item("loop", s, g, None), Item("track", s, g, None)>> \o rest
         IN /\ u \in Seq(Items)
            /\ \A x \in ToSet(u) : x.op \in Watched => x \in ToSet(rest) \/ x.op = "loop"
            /\ \A op \in Watched : \A t : On(op, t, u) <=> (op = "loop" /\ t = s) \/ On(op, t, rest)
            /\ \A ops \in {Frame, {"wake"}} : OncePer(ops, rest) => OncePer(ops, u)
<1> DEFINE x == Item("loop", s, g, None)
           y == Item("track", s, g, None)
           two == <<x, y>>
           u == two \o rest
<1>1. /\ x \in Items /\ x.op = "loop" /\ x.slot = s /\ y \in Items /\ y.op = "track"
  BY WatchedCalls, OtherCalls
<1> HIDE DEF x, y
<1>2. /\ ToSet(two) = {x, y}
      /\ \A op, n : On(op, n, two) <=> (x.op = op /\ x.slot = n) \/ (y.op = op /\ y.slot = n)
      /\ \A ops : x.op \notin ops \/ y.op \notin ops => OncePer(ops, two)
  BY FewOn
<1>3. two \in Seq(Items)
  <2>1. \A a, b \in Items : <<a, b>> \in Seq(Items)
    OBVIOUS
  <2> QED
    BY <1>1, <2>1
<1> HIDE DEF two
<1>4. /\ u \in Seq(Items) /\ ToSet(u) = ToSet(two) \cup ToSet(rest)
      /\ \A op, n : On(op, n, u) <=> On(op, n, two) \/ On(op, n, rest)
      /\ \A ops : /\ OncePer(ops, two) /\ OncePer(ops, rest)
                  /\ \A a \in ToSet(two), b \in ToSet(rest) :
                       a.op \in ops /\ b.op \in ops => a.slot # b.slot
                  => OncePer(ops, u)
  BY <1>3, ConcatOn
<1> HIDE DEF u
<1>5. \A op \in Watched : \A t : On(op, t, two) <=> op = "loop" /\ t = s
  BY <1>1, <1>2 DEF Watched
<1>6. \A ops \in {Frame, {"wake"}} : OncePer(ops, rest) => OncePer(ops, u)
  <2> SUFFICES ASSUME NEW ops \in {Frame, {"wake"}}, OncePer(ops, rest) PROVE OncePer(ops, u)
    OBVIOUS
  <2>1. OncePer(ops, two)
    BY <1>1, <1>2 DEF Frame
  <2>2. \A a \in ToSet(two), b \in ToSet(rest) : a.op \in ops /\ b.op \in ops => a.slot # b.slot
    <3> SUFFICES ASSUME NEW a \in ToSet(two), NEW b \in ToSet(rest), a.op \in ops, b.op \in ops,
                        a.slot = b.slot
                 PROVE  FALSE
      OBVIOUS
    <3>1. a = x /\ ops = Frame
      BY <1>1, <1>2 DEF Frame
    <3>2. b.op \in Frame /\ b.slot = s
      BY <1>1, <3>1
    <3> QED
      BY <3>2 DEF On
  <2> QED
    BY <1>4, <2>1, <2>2
<1>7. \A z \in ToSet(u) : z.op \in Watched => z \in ToSet(rest) \/ z.op = "loop"
  BY <1>1, <1>2, <1>4 DEF Watched
<1> QED
  BY <1>4, <1>5, <1>6, <1>7 DEF u, two, x, y

\* _driveSlot, for a context that may run, that no drive runs and that nobody else wakes;
\* `rest` is the stack without what called it.
LEMMA SafeStarts ==
  ASSUME Types, Types', RegistryInv, SafeInv, NoneRevived, ~terminated,
         NEW s \in Slots, NEW g \in Nat, g # 0, NEW who \in Drivers, NEW rest \in Seq(Items),
         DriveSlot(s, g, who, rest),
         UNCHANGED <<terminated, spawned, deferredCancels>>,
         OncePer(Frame, rest), OncePer({"wake"}, rest),
         \A x \in ToSet(rest) : x.op \in Watched => x \in ToSet(stack),
         \A op \in Watched : \A t : t # s \/ op # "wake" => (On(op, t, rest) <=> On(op, t, stack)),
         ~On("wake", s, rest), driving[s] = 0, ~Queued(s), ~Held(s),
         exec'[s] \in Runnable, generation'[s] = g,
         (exec[s] \in Runnable /\ generation[s] = g) \/ generation[s] < g,
         steps' \in [Slots -> Nat],
         \A t \in Slots : t # s => /\ exec'[t] = exec[t] /\ generation'[t] = generation[t]
                                   /\ steps'[t] = steps[t],
         \A i \in Invocations : /\ inv'[i] \in Unbegun => inv[i] \in Unbegun /\ slotOf'[i] = slotOf[i]
                                /\ slotOf[i] # -1 => slotOf'[i] = slotOf[i] /\ genOf'[i] = genOf[i],
         who[1] = "invoke" => slotOf'[who[2]] = s /\ genOf'[who[2]] = g
  PROVE  SafeInv'
<1>1. /\ phase[s] = "none" /\ ~Framed(s) /\ WakeInv
      /\ \A t \in Slots : driving[t] \in Nat /\ by[t] \in Drivers
      /\ \A j \in jobs : j.slot \in Slots /\ j.gen \in Nat /\ j.by \in Drivers
      /\ driving \in [Slots -> Nat] /\ phase \in [Slots -> Phases] /\ by \in [Slots -> Drivers]
      /\ deferredWakes \in [Slots -> Nat]
  BY DEF SafeInv, DriveInv, SlotDriven, Types, DriveTypes, ContextTypes, Jobs
<1>2. \A op \in Frame : ~On(op, s, rest)
  BY <1>1 DEF Frame, Watched, Framed
\* What the two outcomes have in common.
<1>3. ASSUME stack' \in Seq(Items),
             \A x \in ToSet(stack') : x.op \in Watched => x \in ToSet(stack) \/ x.op = "loop",
             OncePer(Frame, stack'), OncePer({"wake"}, stack'), ~On("wake", s, stack'),
             \A op \in Watched : \A t : t # s => (On(op, t, stack') <=> On(op, t, stack)),
             \A t \in Slots : t # s => /\ driving'[t] = driving[t] /\ phase'[t] = phase[t]
                                       /\ result'[t] = result[t] /\ by'[t] = by[t]
                                       /\ deferredWakes'[t] = deferredWakes[t],
             driving'[s] \in {0, g}, (by'[s] = who /\ driving'[s] = g) \/ (by'[s] = by[s] /\ driving'[s] = 0),
             \A j \in jobs' : j \in jobs \/ (j.by[1] = "closure" /\ j.result = "quiesced"),
             SlotDriven(s)', SlotWoken(s)'
      PROVE  SafeInv'
  <2>1. OneFrame'
    BY <1>3 DEF SafeInv, DriveInv, OneFrame, Watched
  <2>2. OwnersAgree'
    <3>1. \A i \in Invocations : inv'[i] \in Unbegun => slotOf'[i] = -1
      BY DEF SafeInv, DriveInv, OwnersAgree
    <3>2. ASSUME NEW t \in Slots, by'[t][1] = "invoke"
          PROVE  slotOf'[by'[t][2]] = t /\ genOf'[by'[t][2]] = driving'[t]
      <4>1. CASE by'[t] = by[t] /\ driving'[t] = driving[t]
        <5>1. slotOf[by[t][2]] = t /\ genOf[by[t][2]] = driving[t] /\ t # -1
          BY <3>2, <4>1 DEF SafeInv, DriveInv, OwnersAgree, Slots
        <5>2. by[t][2] \in Invocations
          BY <1>1, <3>2, <4>1, WhoDrives
        <5> QED
          BY <4>1, <5>1, <5>2
      <4>2. CASE t = s /\ by'[t] = who /\ driving'[t] = g
        BY <3>2, <4>2
      <4> QED
        BY <1>3, <4>1, <4>2
    <3>3. ASSUME NEW j \in jobs', j.by[1] = "invoke"
          PROVE  slotOf'[j.by[2]] = j.slot /\ genOf'[j.by[2]] = j.gen
      <4>1. j \in jobs
        BY <1>3, <3>3
      <4>2. slotOf[j.by[2]] = j.slot /\ genOf[j.by[2]] = j.gen /\ j.slot # -1
        BY <1>1, <3>3, <4>1 DEF SafeInv, DriveInv, OwnersAgree, Slots
      <4>3. j.by[2] \in Invocations
        BY <1>1, <3>3, <4>1, WhoDrives
      <4> QED
        BY <4>2, <4>3
    <3> QED
      BY <3>1, <3>2, <3>3 DEF OwnersAgree
  <2>3. ASSUME NEW j \in jobs', j.result \in Terminal, Live(j.slot, j.gen)'
        PROVE  /\ j \in jobs /\ j.slot \in Slots /\ Live(j.slot, j.gen) /\ j.slot # s
               /\ driving'[j.slot] = 0 /\ Ended(j.slot)'
    <3>1. j \in jobs
      BY <1>3, <2>3 DEF Terminal
    <3>2. j.slot \in Slots /\ Live(j.slot, j.gen) /\ generation'[j.slot] = generation[j.slot]
      BY <2>3, <3>1, LiveBefore
    <3>3. Ended(j.slot) /\ driving[j.slot] = 0
      BY <1>1, <2>3, <3>1, <3>2 DEF WakeInv, EndsReached, SafeInv, DriveInv, EndsDriveNothing
    <3>4. j.slot # s
      <4>1. generation[s] \in Nat
        BY DEF Types, ContextTypes
      <4> QED
        BY <3>2, <3>3, <4>1 DEF Ended, Runnable
    <3> QED
      BY <1>3, <3>1, <3>2, <3>3, <3>4 DEF Ended
  <2>4. EndsDriveNothing'
    BY <1>3, <2>3 DEF EndsDriveNothing, SafeInv, DriveInv
  <2>5. \A t \in Slots : t # s => WakeStays(t) /\ DriveStays(t)
    BY <1>3 DEF WakeStays, DriveStays, Queued, Frame, Watched
  <2>6. WakesCurrent'
    <3>1. \A x \in ToSet(stack') : /\ x.op = "wake" => x.gen = generation'[x.slot]
                                   /\ x.op = "return" => x.id \in {"done", "error"}
      <4> TAKE x \in ToSet(stack')
      <4>1. ASSUME x.op = "wake" PROVE x.gen = generation'[x.slot]
        <5>1. x \in ToSet(stack) /\ x.slot \in Slots /\ x.slot # s
          BY <1>3, <4>1, WakesOfSlots DEF On, Watched
        <5> QED
          BY <1>1, <4>1, <5>1 DEF WakeInv, WakesCurrent
      <4>2. ASSUME x.op = "return" PROVE x.id \in {"done", "error"}
        BY <1>1, <1>3, <4>2 DEF WakeInv, WakesCurrent, Watched
      <4> QED
        BY <4>1, <4>2
    <3>2. \A k \in 1 .. Len(spawned) : spawned[k].gen = generation'[spawned[k].slot]
      BY <1>1, WakesOfSlots DEF WakeInv, WakesCurrent
    <3> QED
      BY <1>1, <1>3, <3>1, <3>2 DEF WakeInv, WakesCurrent
  <2>7. EndsReached'
    BY <2>3 DEF EndsReached
  <2> DEFINE T == {s}
  <2>8. /\ \A t \in Slots : t \notin T => DriveStays(t)
        /\ \A t \in Slots : t \in T => SlotDriven(t)'
        /\ \A t \in Slots : t \notin T => WakeStays(t)
        /\ \A t \in Slots : t \in T => SlotWoken(t)'
    BY <1>3, <2>5
  <2> HIDE DEF T
  <2> QED
    BY <2>1, <2>2, <2>4, <2>6, <2>7, <2>8, SafeTouched
<1>4. CASE quiesced
  <2>1. /\ jobs' = jobs \cup Continuation(who, s, g, "quiesced")
        /\ deferredWakes' = [deferredWakes EXCEPT ![s] = g] /\ stack' = rest
        /\ UNCHANGED <<driving, phase, result, by>>
    BY <1>4 DEF DriveSlot
  <2>2. \A j \in jobs' : j \in jobs \/ (j.by[1] = "closure" /\ j.result = "quiesced")
    BY <2>1 DEF Continuation, Terminal
  <2>3. deferredWakes'[s] = g /\ \A t \in Slots : t # s => deferredWakes'[t] = deferredWakes[t]
    BY <1>1, <2>1
  <2>4. SlotDriven(s)'
    BY <1>1, <1>2, <2>1 DEF SlotDriven, Framed, Frame, Runnable
  <2>5. SlotWoken(s)'
    <3>1. ~Woken(s)' /\ ~Queued(s)' /\ Held(s)' /\ ~InLoop(s)' /\ phase'[s] = "none"
      BY <1>1, <2>1, <2>3 DEF Woken, Queued, Held, InLoop
    <3>2. ~On("loop", s, stack') /\ ~On("return", s, stack')
      BY <1>2, <2>1 DEF Frame
    <3> QED
      BY <2>3, <3>1, <3>2 DEF SlotWoken, Runnable
  <2> QED
    BY <1>1, <1>3, <2>1, <2>2, <2>3, <2>4, <2>5
<1>5. CASE ~quiesced
  <2>1. /\ driving' = [driving EXCEPT ![s] = g] /\ phase' = [phase EXCEPT ![s] = "loop"]
        /\ by' = [by EXCEPT ![s] = who]
        /\ stack' = <<Item("loop", s, g, None), Item("track", s, g, None)>> \o rest
        /\ UNCHANGED <<result, jobs, deferredWakes>>
    BY <1>5 DEF DriveSlot
  <2>2. /\ stack' \in Seq(Items)
        /\ \A x \in ToSet(stack') : x.op \in Watched => x \in ToSet(rest) \/ x.op = "loop"
        /\ \A op \in Watched : \A t : On(op, t, stack') <=> (op = "loop" /\ t = s) \/ On(op, t, rest)
        /\ \A ops \in {Frame, {"wake"}} : OncePer(ops, rest) => OncePer(ops, stack')
    BY <1>2, <2>1, LoopCalled
  <2>3. /\ driving'[s] = g /\ phase'[s] = "loop" /\ by'[s] = who
        /\ \A t \in Slots : t # s => /\ driving'[t] = driving[t] /\ phase'[t] = phase[t]
                                     /\ by'[t] = by[t]
    BY <1>1, <2>1
  <2>4. On("loop", s, stack') /\ ~On("return", s, stack') /\ ~On("wake", s, stack')
    BY <1>2, <2>2 DEF Frame, Watched
  <2>5. SlotDriven(s)'
    BY <2>3, <2>4 DEF SlotDriven, Framed, Runnable
  <2>6. SlotWoken(s)'
    <3>1. ~Woken(s)' /\ ~Queued(s)' /\ ~Held(s)' /\ InLoop(s)'
      BY <2>1, <2>3, <2>4 DEF Woken, Queued, Held, InLoop
    <3> QED
      BY <2>3, <2>4, <3>1 DEF SlotWoken, Runnable
  <2>7. /\ stack' \in Seq(Items) /\ ~On("wake", s, stack')
        /\ \A x \in ToSet(stack') : x.op \in Watched => x \in ToSet(stack) \/ x.op = "loop"
        /\ OncePer(Frame, stack') /\ OncePer({"wake"}, stack')
        /\ \A op \in Watched : \A t : t # s => (On(op, t, stack') <=> On(op, t, stack))
    BY <2>2, <2>4
  <2>8. /\ \A t \in Slots : t # s => /\ driving'[t] = driving[t] /\ phase'[t] = phase[t]
                                     /\ result'[t] = result[t] /\ by'[t] = by[t]
                                     /\ deferredWakes'[t] = deferredWakes[t]
        /\ driving'[s] \in {0, g}
        /\ (by'[s] = who /\ driving'[s] = g) \/ (by'[s] = by[s] /\ driving'[s] = 0)
        /\ \A j \in jobs' : j \in jobs \/ (j.by[1] = "closure" /\ j.result = "quiesced")
    BY <2>1, <2>3
  <2> QED
    BY <1>3, <2>5, <2>6, <2>7, <2>8
<1> QED
  BY <1>4, <1>5

\* A wake that is called is current, and the only one of its slot.
LEMMA WakeHere ==
  ASSUME Types, SafeInv, stack # <<>>, Top.op = "wake"
  PROVE  LET s == Top.slot
             rest == Tail(stack)
         IN /\ s \in Slots /\ rest \in Seq(Items) /\ OncePer(Frame, rest)
            /\ ToSet(rest) \subseteq ToSet(stack)
            /\ \A op \in Watched : \A t : t # s \/ op # "wake" =>
                 (On(op, t, rest) <=> On(op, t, stack))
            /\ ~terminated => /\ OncePer({"wake"}, rest) /\ ~On("wake", s, rest)
                              /\ Top.gen = generation[s] /\ Top.gen # 0 /\ exec[s] \in Runnable
                              /\ ~InLoop(s) /\ ~Queued(s) /\ ~Held(s)
                              /\ driving[s] \in {0, Top.gen}
<1> DEFINE s == Top.slot
           rest == Tail(stack)
<1>1. stack \in Seq(Items) /\ OncePer(Frame, stack) /\ s \in Slots
  BY StackHere DEF SafeInv, DriveInv, OneFrame
<1>2. /\ rest \in Seq(Items) /\ ToSet(stack) = {Top} \cup ToSet(rest)
      /\ \A op, n : On(op, n, stack) <=> (Top.op = op /\ s = n) \/ On(op, n, rest)
      /\ \A ops : OncePer(ops, stack) =>
           /\ OncePer(ops, rest)
           /\ Top.op \in ops => \A y \in ToSet(rest) : y.op \in ops => s # y.slot
  BY <1>1, PoppedOn DEF Top
<1> HIDE DEF s, rest
<1>3. \A op \in Watched : \A t : t # s \/ op # "wake" => (On(op, t, rest) <=> On(op, t, stack))
  BY <1>2
<1>4. ASSUME ~terminated
      PROVE  /\ OncePer({"wake"}, rest) /\ ~On("wake", s, rest)
             /\ Top.gen = generation[s] /\ Top.gen # 0 /\ exec[s] \in Runnable
             /\ ~InLoop(s) /\ ~Queued(s) /\ ~Held(s) /\ driving[s] \in {0, Top.gen}
  <2>1. WakesCurrent /\ SlotWoken(s) /\ SlotDriven(s)
    BY <1>1, <1>4 DEF SafeInv, WakeInv, DriveInv
  <2>2. OncePer({"wake"}, rest) /\ ~On("wake", s, rest)
    BY <1>2, <2>1 DEF WakesCurrent, On
  <2>3. Woken(s)
    BY <1>2 DEF Woken
  <2>4. Top.gen = generation[s]
    BY <1>2, <2>1 DEF WakesCurrent, s
  <2> QED
    BY <2>1, <2>2, <2>3, <2>4 DEF SlotWoken, SlotDriven, Runnable
<1> QED
  BY <1>1, <1>2, <1>3, <1>4 DEF s, rest

\* _dispatchWoken: the wake drives its slot, or is held back.
LEMMA SafeOfWake ==
  ASSUME Types, Types', RegistryInv, SafeInv, DispatchWoken
  PROVE  SafeInv'
<1>1. /\ stack # <<>> /\ Top.op = "wake"
      /\ UNCHANGED <<generation, exec, steps, spawned, slotOf, genOf, inv, waiter, deferredCancels,
                     terminated>>
  BY DEF DispatchWoken, Calling, context, wakes, invokes
<1>2. PICK s, g, rest : s = Top.slot /\ g = Top.gen /\ rest = Tail(stack)
  OBVIOUS
<1>3. /\ s \in Slots /\ g \in Nat /\ rest \in Seq(Items) /\ OncePer(Frame, rest)
      /\ ToSet(rest) \subseteq ToSet(stack)
      /\ \A op \in Watched : \A t : t # s \/ op # "wake" => (On(op, t, rest) <=> On(op, t, stack))
      /\ ~terminated => /\ OncePer({"wake"}, rest) /\ ~On("wake", s, rest)
                        /\ g = generation[s] /\ g # 0 /\ exec[s] \in Runnable
                        /\ ~InLoop(s) /\ ~Queued(s) /\ ~Held(s)
                        /\ driving[s] \in {0, g}
  BY <1>1, <1>2, WakeHere, StackHere
<1>4. NoneRevived
  BY <1>1 DEF NoneRevived
<1>5. ~terminated => Live(s, g)
  BY <1>3 DEF Live, Runnable
\* The wake returns, at once or held back.
<1>6. ASSUME stack' = rest, UNCHANGED drives,
             deferredWakes' = [deferredWakes EXCEPT ![s] = g] \/ terminated
      PROVE  SafeInv'
  <2>1. UNCHANGED <<driving, phase, result, by, jobs>>
    BY <1>6 DEF drives
  <2>2. OneFrame'
    BY <1>1, <1>3, <1>6 DEF SafeInv, DriveInv, OneFrame
  <2>3. OwnersAgree' /\ EndsDriveNothing'
    BY <1>1, <1>4, <2>1, OwnersStay, EndsStay DEF SafeInv, DriveInv
  <2>4. \A t \in Slots : DriveStays(t)
    BY <1>1, <1>3, <1>6, <2>1 DEF DriveStays, Frame, Watched
  <2>5. \A t \in Slots : SlotDriven(t)'
    BY <2>4, DrivenStays DEF SafeInv, DriveInv
  <2> DEFINE T == {s}
  <2>6. ASSUME ~terminated
        PROVE  /\ steps' \in [Slots -> Nat] /\ WakesCurrent' /\ EndsReached'
               /\ \A t \in Slots : t \notin T => WakeStays(t)
               /\ \A t \in Slots : t \in T => SlotWoken(t)'
    <3>1. /\ WakeInv /\ SlotWoken(s) /\ deferredWakes'[s] = g
          /\ \A t \in Slots : t # s => deferredWakes'[t] = deferredWakes[t]
      BY <1>3, <1>6, <2>6 DEF SafeInv, WakeInv, Types, ContextTypes
    <3>2. \A t \in Slots : t # s => WakeStays(t)
      BY <1>1, <1>3, <1>6, <2>1, <2>4, <3>1 DEF WakeStays, Queued, Watched
    <3>3. SlotWoken(s)'
      <4>1. /\ ~Woken(s)' /\ ~Queued(s)' /\ Held(s)' /\ (InLoop(s)' <=> InLoop(s))
        BY <1>1, <1>3, <1>6, <2>1, <2>6, <3>1 DEF Woken, Queued, Held, InLoop
      <4>2. \A op \in Frame : On(op, s, stack') <=> On(op, s, stack)
        BY <1>3, <1>6 DEF Frame, Watched
      <4>3. /\ exec'[s] = exec[s] /\ generation'[s] = generation[s] /\ steps'[s] = steps[s]
            /\ phase'[s] = phase[s] /\ result'[s] = result[s]
        BY <1>1, <2>1
      <4> QED
        BY <1>3, <2>6, <3>1, <4>1, <4>2, <4>3 DEF SlotWoken, Frame, Ended
    <3>4. WakesCurrent'
      BY <1>1, <1>3, <1>6, <2>6, <3>1 DEF WakeInv, WakesCurrent
    <3>5. EndsReached'
      BY <1>1, <1>4, <2>1, <3>1, ReachedStays DEF WakeInv, Ended
    <3> QED
      BY <1>1, <3>1, <3>2, <3>3, <3>4, <3>5 DEF WakeInv
  <2>7. /\ \A t \in Slots : t \notin T => DriveStays(t)
        /\ \A t \in Slots : t \in T => SlotDriven(t)'
    BY <2>4, <2>5
  <2>8. ~terminated' => /\ ~terminated /\ steps' \in [Slots -> Nat] /\ WakesCurrent' /\ EndsReached'
                        /\ \A t \in Slots : t \notin T => WakeStays(t)
                        /\ \A t \in Slots : t \in T => SlotWoken(t)'
    BY <1>1, <2>6
  <2> HIDE DEF T
  <2> QED
    BY <2>2, <2>3, <2>7, <2>8, SafeTouched
<1>7. CASE /\ ~Live(s, g) \/ (terminated /\ ~quiesced /\ driving[s] # g)
           /\ stack' = rest /\ UNCHANGED drives
  BY <1>5, <1>6, <1>7
<1>8. CASE /\ deferredWakes' = [deferredWakes EXCEPT ![s] = g] /\ stack' = rest /\ UNCHANGED drives
  BY <1>6, <1>8
<1>9. CASE ~terminated /\ driving[s] = 0 /\ DriveSlot(s, g, WakeOwner(s, g), rest)
  <2>1. PICK who : who = WakeOwner(s, g)
    OBVIOUS
  <2>2. who \in Drivers /\ (who[1] = "invoke" => slotOf[who[2]] = s /\ genOf[who[2]] = g)
    <3>1. waiter[s] # None => waiter[s] \in Invocations /\ slotOf[waiter[s]] = s
      BY <1>3 DEF Types, InvokeTypes, RegistryInv, OwnerRegistry
    <3> QED
      BY <2>1, <3>1, WhoDrives DEF WakeOwner
  <2>3. DriveSlot(s, g, who, rest)
    BY <1>9, <2>1
  <2>4. steps \in [Slots -> Nat]
    BY <1>9 DEF SafeInv, WakeInv
  <2>5. /\ OncePer(Frame, rest) /\ OncePer({"wake"}, rest) /\ ~On("wake", s, rest)
        /\ g # 0 /\ ~Queued(s) /\ ~Held(s) /\ exec'[s] \in Runnable /\ generation'[s] = g
        /\ exec[s] \in Runnable /\ generation[s] = g
    BY <1>1, <1>3, <1>9
  <2> QED
    BY <1>1, <1>3, <1>4, <1>9, <2>2, <2>3, <2>4, <2>5, SafeStarts
<1>10. CASE ~terminated /\ driving[s] \notin {0, g}
  BY <1>3, <1>10
<1> QED
  BY <1>2, <1>7, <1>8, <1>9, <1>10 DEF DispatchWoken

\* run(slot), of a slot that nobody runs and nobody wakes.
LEMMA SafeOfRunSlot ==
  ASSUME Types, Types', RegistryInv, SafeInv, NEW s \in Slots, RunSlot(s)
  PROVE  SafeInv'
<1>1. /\ ~terminated /\ (exec[s] = "paused" \/ (exec[s] = "ready" /\ steps[s] = 0))
      /\ driving[s] = 0 /\ deferredWakes[s] = 0 /\ ~Pending("wake", s)
      /\ UNCHANGED <<generation, exec, steps, spawned, slotOf, genOf, inv, waiter, deferredCancels,
                     terminated>>
  BY DEF RunSlot, context, wakes, invokes
<1>2. PICK g, who, rest : /\ g = generation[s] /\ rest = stack
                          /\ who = IF waiter[s] # None THEN <<"invoke", waiter[s]>> ELSE <<"run", None>>
  OBVIOUS
<1>3. DriveSlot(s, g, who, rest)
  BY <1>2 DEF RunSlot
<1>4. NoneRevived
  BY <1>1 DEF NoneRevived
<1>5. WakeInv /\ SlotWoken(s) /\ SlotDriven(s) /\ g \in Nat
  BY <1>1, <1>2 DEF SafeInv, WakeInv, DriveInv, Types, ContextTypes
<1>6. rest \in Seq(Items) /\ OncePer(Frame, rest) /\ OncePer({"wake"}, rest)
  BY <1>2, <1>5, StackHere DEF SafeInv, DriveInv, OneFrame, WakeInv, WakesCurrent
<1>7. ~On("wake", s, rest)
  <2> SUFFICES ASSUME On("wake", s, stack) PROVE FALSE
    BY <1>2
  <2>1. PICK k \in DOMAIN stack : stack[k].op = "wake" /\ stack[k].slot = s
    BY DEF On, ToSet
  <2>2. stack[k] \in ToSet(stack)
    BY DEF ToSet
  <2>3. stack[k].gen = generation[s]
    BY <1>5, <2>1, <2>2 DEF WakeInv, WakesCurrent
  <2> QED
    BY <1>1, <2>1, <2>3 DEF Pending
<1>8. ~Queued(s) /\ ~Held(s) /\ g # 0
  BY <1>1, <1>2, <1>5 DEF SlotWoken, SlotDriven, Held
<1>9. who \in Drivers /\ (who[1] = "invoke" => slotOf[who[2]] = s /\ genOf[who[2]] = g)
  <2>1. waiter[s] # None => /\ waiter[s] \in Invocations /\ slotOf[waiter[s]] = s
                            /\ genOf[waiter[s]] = generation[s]
    BY DEF Types, InvokeTypes, RegistryInv, OwnerRegistry
  <2> QED
    BY <1>2, <2>1, WhoDrives
<1>10. exec'[s] \in Runnable /\ exec[s] \in Runnable /\ generation'[s] = g /\ generation[s] = g
  BY <1>1, <1>2 DEF Runnable
<1>11. steps \in [Slots -> Nat]
  BY <1>5 DEF WakeInv
<1>12. /\ \A x \in ToSet(rest) : x.op \in Watched => x \in ToSet(stack)
       /\ \A op \in Watched : \A t : t # s \/ op # "wake" => (On(op, t, rest) <=> On(op, t, stack))
  BY <1>2
<1> QED
  BY <1>1, <1>3, <1>4, <1>5, <1>6, <1>7, <1>8, <1>9, <1>10, <1>11, <1>12, SafeStarts

(***************************************************************************)
(* Invocations and closure calls.                                          *)
(***************************************************************************)
\* A context that is allocated and freed again: only its generation is left of it.
LEMMA SafeBumped ==
  ASSUME Types, Types', RegistryInv, SafeInv, ~terminated, CanAllocate,
         generation' = [generation EXCEPT ![NextSlot] = @ + 1], Same(stack', stack),
         UNCHANGED <<exec, steps, driving, phase, result, by, jobs, slotOf, genOf, spawned,
                     deferredWakes, deferredCancels, terminated>>,
         \A i \in Invocations : inv'[i] \in Unbegun => inv[i] \in Unbegun
  PROVE  SafeInv'
<1>1. PICK n \in Slots, g \in Nat :
        /\ exec[n] = "free" /\ generation[n] < g /\ generation'[n] = g
        /\ \A t \in Slots : t # n => generation'[t] = generation[t]
  BY Allocated
<1>2. driving[n] = 0 /\ phase[n] = "none" /\ ~Framed(n) /\ ~Woken(n) /\ ~Queued(n) /\ ~Held(n)
  BY <1>1, FreeSlot
<1>3. NoneRevived
  BY <1>1 DEF NoneRevived
<1>4. OneFrame'
  <2>1. \A x \in ToSet(stack') : x.op # "cancel"
    BY DEF SafeInv, DriveInv, OneFrame, Same, Watched
  <2> QED
    BY <2>1 DEF SafeInv, DriveInv, OneFrame, Same
<1>5. OwnersAgree' /\ EndsDriveNothing'
  BY <1>3, OwnersStay, EndsStay DEF SafeInv, DriveInv
<1>6. WakeInv
  BY DEF SafeInv
<1>7. \A t \in Slots : t # n => DriveStays(t) /\ WakeStays(t)
  BY <1>1 DEF WakeStays, DriveStays, Same, Frame, Watched, Queued
<1>8. \A op \in Watched : ~On(op, n, stack') \/ op = "cancel"
  BY <1>2 DEF Same, Watched, Framed, Woken
<1>9. SlotDriven(n)'
  BY <1>1, <1>2, <1>8 DEF SlotDriven, Framed, Watched
<1>10. SlotWoken(n)'
  BY <1>1, <1>2, <1>8 DEF SlotWoken, Woken, Queued, Held, Watched
<1>11. WakesCurrent'
  <2>1. \A s \in Slots : Woken(s) \/ Queued(s) => generation'[s] = generation[s]
    BY <1>1, <1>2
  <2> QED
    BY <1>6, <2>1, CurrentStays DEF WakeInv
<1>12. EndsReached'
  BY <1>3, <1>6, ReachedStays DEF WakeInv, Ended
<1> DEFINE T == {n}
<1>13. /\ \A t \in Slots : t \notin T => DriveStays(t) /\ WakeStays(t)
       /\ \A t \in Slots : t \in T => SlotDriven(t)' /\ SlotWoken(t)'
  BY <1>7, <1>9, <1>10
<1>14. steps' \in [Slots -> Nat]
  BY <1>6 DEF WakeInv
<1> HIDE DEF T
<1> QED
  BY <1>4, <1>5, <1>11, <1>12, <1>13, <1>14, SafeTouched

\* A context that is allocated, and driven or left to resume().
LEMMA SafeAllocated ==
  ASSUME Types, Types', RegistryInv, SafeInv, ~terminated, CanAllocate, Allocate("ready"),
         NEW who \in Drivers, NEW rest, Same(rest, stack),
         DriveSlot(NextSlot, NextGeneration, who, rest),
         UNCHANGED <<terminated, spawned, deferredCancels>>,
         \A i \in Invocations : /\ inv'[i] \in Unbegun => inv[i] \in Unbegun /\ slotOf'[i] = slotOf[i]
                                /\ slotOf[i] # -1 => slotOf'[i] = slotOf[i] /\ genOf'[i] = genOf[i],
         who[1] = "invoke" => slotOf'[who[2]] = NextSlot /\ genOf'[who[2]] = NextGeneration
  PROVE  SafeInv'
<1>1. PICK n \in Slots, g \in Nat :
        /\ n = NextSlot /\ g = NextGeneration
        /\ exec[n] = "free" /\ generation[n] < g /\ generation'[n] = g /\ g # 0
        /\ \A t \in Slots : t # n => generation'[t] = generation[t]
  BY Allocated DEF Allocate
<1>2. driving[n] = 0 /\ phase[n] = "none" /\ ~Framed(n) /\ ~Woken(n) /\ ~Queued(n) /\ ~Held(n)
  BY <1>1, FreeSlot
<1>3. /\ exec'[n] = "ready" /\ steps' \in [Slots -> Nat]
      /\ \A t \in Slots : t # n => exec'[t] = exec[t] /\ steps'[t] = steps[t]
  <2>1. steps \in [Slots -> Nat] /\ exec \in [Slots -> Execs]
    BY DEF SafeInv, WakeInv, Types, ContextTypes
  <2>2. steps' = [steps EXCEPT ![n] = 0] /\ exec' = [exec EXCEPT ![n] = "ready"]
    BY <1>1 DEF Allocate
  <2> QED
    BY <2>1, <2>2
<1>4. NoneRevived
  BY <1>1, <1>3 DEF NoneRevived
<1>5. /\ rest \in Seq(Items) /\ OncePer(Frame, rest) /\ OncePer({"wake"}, rest)
      /\ \A x \in ToSet(rest) : x.op \in Watched => x \in ToSet(stack)
      /\ \A op \in Watched : \A t : t # n \/ op # "wake" => (On(op, t, rest) <=> On(op, t, stack))
  BY DEF Same, SafeInv, DriveInv, OneFrame, WakeInv, WakesCurrent
<1>6. ~On("wake", n, rest)
  BY <1>2 DEF Same, Woken, Watched
<1>7. DriveSlot(n, g, who, rest) /\ (who[1] = "invoke" => slotOf'[who[2]] = n /\ genOf'[who[2]] = g)
  BY <1>1
<1>8. exec'[n] \in Runnable
  BY <1>3 DEF Runnable
<1> QED
  BY <1>1, <1>2, <1>3, <1>4, <1>5, <1>6, <1>7, <1>8, SafeStarts

\* _beginInvoke: the invocation fails, or its context is driven.
LEMMA SafeOfBegin ==
  ASSUME Types, Types', RegistryInv, SafeInv, BeginInvoke
  PROVE  SafeInv'
<1>1. /\ stack # <<>> /\ Top.op \in {"begin", "rebegin"}
      /\ UNCHANGED <<spawned, deferredCancels, terminated>>
  BY DEF BeginInvoke, wakes
<1>2. PICK i : i = Top.id
  OBVIOUS
<1>3. i \in Invocations /\ i \in Named(stack)
  <2>1. Top \in ToSet(stack) /\ ItemTyped(Top)
    BY <1>1, StackHere, TailElements DEF Top, Types, StackTypes, StackOfItems
  <2> QED
    BY <1>1, <1>2, <2>1 DEF ItemTyped, Named, Begins
<1>4. PICK rest : rest = Tail(stack)
  OBVIOUS
<1>5. Same(rest, stack)
  BY <1>1, <1>4, StackHere, SamePopped DEF Top, Watched
<1>6. CASE BeginInvokeFails(i)
  <2>1. /\ stack' = rest /\ UNCHANGED <<exec, steps, drives, deferredWakes, slotOf, genOf>>
        /\ \E r \in {"terminated", "error"} : inv' = Outcome(i, r)
        /\ \/ UNCHANGED generation
           \/ ~terminated /\ CanAllocate /\ generation' = [generation EXCEPT ![NextSlot] = @ + 1]
    BY <1>4, <1>6 DEF BeginInvokeFails
  <2>2. \A j \in Invocations : inv'[j] \in Unbegun => inv[j] \in Unbegun
    <3>1. PICK r \in {"terminated", "error"} : inv' = Outcome(i, r)
      BY <2>1
    <3>2. \A j \in Invocations : inv'[j] = inv[j] \/ inv'[j] = r
      BY <1>3, <3>1 DEF Outcome, Types, InvokeTypes
    <3> QED
      BY <3>1, <3>2 DEF Unbegun
  <2>3. CASE UNCHANGED generation
    BY <1>1, <1>5, <2>1, <2>2, <2>3, SafeStays DEF drives, SafeInv, DriveInv, OneFrame
  <2>4. CASE ~terminated /\ CanAllocate /\ generation' = [generation EXCEPT ![NextSlot] = @ + 1]
    BY <1>1, <1>5, <2>1, <2>2, <2>4, SafeBumped DEF drives
  <2> QED
    BY <2>1, <2>3, <2>4
<1>7. CASE BeginInvokeDrives(i)
  <2>1. /\ ~terminated /\ inv[i] \notin Settled /\ CanAllocate /\ Allocate("ready")
        /\ slotOf' = [slotOf EXCEPT ![i] = NextSlot] /\ genOf' = [genOf EXCEPT ![i] = NextGeneration]
    BY <1>7 DEF BeginInvokeDrives
  <2>2. ~AlreadyDriving(NextSlot)
    <3>1. PICK n \in Slots : n = NextSlot /\ exec[n] = "free"
      BY <2>1, Allocated DEF Allocate
    <3> QED
      BY <3>1, FreeSlot DEF AlreadyDriving
  <2>3. DriveSlot(NextSlot, NextGeneration, <<"invoke", i>>, rest) /\ inv' = Outcome(i, "live")
    BY <1>4, <1>7, <2>2 DEF BeginInvokeDrives
  <2>4. slotOf[i] = -1
    BY <1>3, <2>1 DEF RegistryInv, StillToBegin, SafeInv, DriveInv, OwnersAgree, Unbegun
  <2>5. /\ inv'[i] = "live" /\ slotOf'[i] = NextSlot /\ genOf'[i] = NextGeneration
        /\ \A j \in Invocations : j # i => inv'[j] = inv[j] /\ slotOf'[j] = slotOf[j] /\ genOf'[j] = genOf[j]
    BY <1>3, <2>1, <2>3 DEF Outcome, Types, InvokeTypes
  <2>6. \A j \in Invocations : /\ inv'[j] \in Unbegun => inv[j] \in Unbegun /\ slotOf'[j] = slotOf[j]
                               /\ slotOf[j] # -1 => slotOf'[j] = slotOf[j] /\ genOf'[j] = genOf[j]
    BY <2>4, <2>5 DEF Unbegun
  <2>7. PICK who \in Drivers : who = <<"invoke", i>>
    BY <1>3, WhoDrives
  <2>8. who[1] = "invoke" => slotOf'[who[2]] = NextSlot /\ genOf'[who[2]] = NextGeneration
    BY <2>5, <2>7
  <2> QED
    BY <1>1, <1>5, <2>1, <2>3, <2>6, <2>7, <2>8, SafeAllocated
<1> QED
  BY <1>2, <1>6, <1>7 DEF BeginInvoke

\* runClosureCall: abandoned, refused or delivered.
LEMMA SafeOfCall ==
  ASSUME Types, Types', OrderInv, RegistryInv, SafeInv, RunClosureCall
  PROVE  SafeInv'
<1>1. /\ stack = <<>> /\ drainer = "backpressure"
      /\ UNCHANGED <<spawned, deferredCancels, terminated, inv, slotOf, genOf>>
      /\ CallAbandoned \/ CallRefused \/ CallDelivered
  BY DEF RunClosureCall, BetweenJobs, wakes, invokes
<1>2. current \in Calls
  BY <1>1 DEF OrderInv, QueueInOrder
<1>3. Same(stack, stack)
  BY StackHere, SameHere
<1>4. CASE CallAbandoned
  <2>1. UNCHANGED <<stack, generation, exec, driving, phase, by, jobs, steps, result, deferredWakes>>
    BY <1>4 DEF CallAbandoned, context, drives
  <2> QED
    BY <1>1, <1>3, <2>1, SafeStays DEF SafeInv, DriveInv, OneFrame
<1>5. ASSUME UNCHANGED <<exec, steps, drives, deferredWakes, stack>>,
             \/ UNCHANGED generation
             \/ ~terminated /\ CanAllocate /\ generation' = [generation EXCEPT ![NextSlot] = @ + 1]
      PROVE  SafeInv'
  <2>1. UNCHANGED <<stack, exec, driving, phase, by, jobs, steps, result, deferredWakes>>
    BY <1>5 DEF drives
  <2>2. CASE UNCHANGED generation
    BY <1>1, <1>3, <2>1, <2>2, SafeStays DEF SafeInv, DriveInv, OneFrame
  <2>3. CASE ~terminated /\ CanAllocate /\ generation' = [generation EXCEPT ![NextSlot] = @ + 1]
    BY <1>1, <1>3, <2>1, <2>3, SafeBumped
  <2> QED
    BY <1>5, <2>2, <2>3
<1>6. CASE CallRefused
  BY <1>5, <1>6 DEF CallRefused
<1>7. CASE CallDelivered
  <2>1. CASE /\ Allocate("ready")
             /\ DriveSlot(NextSlot, NextGeneration, <<"closure", current>>, <<>>)
    <3>1. PICK who, rest : who = <<"closure", current>> /\ rest = <<>>
      OBVIOUS
    <3>2. who \in Drivers /\ who[1] # "invoke" /\ Same(rest, stack)
      BY <1>1, <1>2, <1>3, <3>1, WhoDrives
    <3>3. ~terminated /\ CanAllocate
      BY <1>7 DEF CallDelivered
    <3> QED
      BY <1>1, <2>1, <3>1, <3>2, <3>3, SafeAllocated
  <2>2. CASE /\ generation' = [generation EXCEPT ![NextSlot] = @ + 1]
             /\ UNCHANGED <<exec, steps, drives, deferredWakes, stack>>
    BY <1>5, <1>7, <2>2 DEF CallDelivered
  <2> QED
    BY <1>7, <2>1, <2>2 DEF CallDelivered
<1> QED
  BY <1>1, <1>4, <1>6, <1>7

(***************************************************************************)
(* Ends of drives.                                                         *)
(***************************************************************************)
\* The fuel hook's promise resolves, and a drive's .then.
LEMMA SafeOfThen ==
  ASSUME Types, Types', RegistryInv, SafeInv, NEW s \in Slots, HookResolves(s) \/ DriveThen(s)
  PROVE  SafeInv'
<1>1. /\ stack = <<>> /\ phase[s] \in {"hook", "returned"}
      /\ UNCHANGED <<generation, exec, steps, spawned, driving, by, jobs, deferredWakes, slotOf, genOf,
                     inv, deferredCancels, terminated>>
  BY DEF HookResolves, DriveThen, BetweenJobs, context, wakes, invokes
<1>2. /\ stack' \in {stack, <<Item("loop", s, driving[s], None)>>}
      /\ \E p : /\ phase' = [phase EXCEPT ![s] = p]
                /\ p = IF stack' # stack THEN "loop"
                       ELSE IF phase[s] = "hook" THEN "returned" ELSE "unwound"
      /\ stack' # stack => phase[s] = "hook" /\ UNCHANGED result
      /\ phase[s] = "returned" => UNCHANGED result
      /\ stack' = stack /\ phase[s] = "hook" => result' = [result EXCEPT ![s] = "paused"]
  BY <1>1 DEF HookResolves, DriveThen
<1>3. /\ stack' \in Seq(Items) /\ OncePer(Frame, stack') /\ OncePer({"wake"}, stack')
      /\ \A x \in ToSet(stack') : x.op = "loop"
      /\ \A op, t : On(op, t, stack') <=> stack' # stack /\ op = "loop" /\ t = s
      /\ \A op, t : ~On(op, t, stack)
  <2>1. PICK g \in Nat : g = driving[s]
    BY DEF Types, DriveTypes
  <2>2. PICK x \in Items : x = Item("loop", s, g, None) /\ x.op = "loop" /\ x.slot = s
    BY WatchedCalls
  <2>3. <<x>> \in Seq(Items) /\ <<>> \in Seq(Items) /\ <<x>> # <<>>
    OBVIOUS
  <2>4. CASE stack' = <<>>
    BY <1>1, <2>3, <2>4, FewOn
  <2>5. CASE stack' = <<x>>
    <3>1. /\ ToSet(stack') = {x} /\ \A op, n : On(op, n, stack') <=> x.op = op /\ x.slot = n
          /\ \A ops : OncePer(ops, stack')
      BY <2>5, FewOn
    <3>2. \A op, t : ~On(op, t, stack)
      BY <1>1, FewOn
    <3> QED
      BY <1>1, <2>2, <2>3, <2>5, <3>1, <3>2
  <2> QED
    BY <1>1, <1>2, <2>1, <2>2, <2>4, <2>5
<1>4. /\ \A t \in Slots : t # s => phase'[t] = phase[t] /\ result'[t] = result[t]
      /\ phase'[s] = IF stack' # stack THEN "loop" ELSE IF phase[s] = "hook" THEN "returned" ELSE "unwound"
      /\ stack' = stack /\ phase[s] = "hook" => result'[s] = "paused"
      /\ phase[s] = "returned" => result'[s] = result[s]
  <2>1. phase \in [Slots -> Phases] /\ result \in [Slots -> Results]
    BY DEF Types, DriveTypes
  <2>2. UNCHANGED result \/ result' = [result EXCEPT ![s] = "paused"]
    BY <1>1, <1>2
  <2>3. \A t \in Slots : t # s => result'[t] = result[t]
    BY <2>1, <2>2
  <2>4. PICK p : /\ phase' = [phase EXCEPT ![s] = p]
                 /\ p = IF stack' # stack THEN "loop"
                        ELSE IF phase[s] = "hook" THEN "returned" ELSE "unwound"
    BY <1>2
  <2>5. phase'[s] = p /\ \A t \in Slots : t # s => phase'[t] = phase[t]
    BY <2>1, <2>4
  <2>6. stack' = stack /\ phase[s] = "hook" => result'[s] = "paused"
    BY <1>2, <2>1
  <2> QED
    BY <1>2, <2>3, <2>4, <2>5, <2>6
<1>5. NoneRevived
  BY <1>1 DEF NoneRevived
<1>6. OneFrame'
  BY <1>1, <1>3 DEF SafeInv, DriveInv, OneFrame
<1>7. OwnersAgree' /\ EndsDriveNothing'
  BY <1>1, <1>5, OwnersStay, EndsStay DEF SafeInv, DriveInv
<1>8. \A t \in Slots : t # s => DriveStays(t)
  BY <1>1, <1>3, <1>4 DEF DriveStays
<1>9. SlotDriven(s)'
  <2>1. SlotDriven(s)
    BY DEF SafeInv, DriveInv
  <2>2. driving[s] # 0 /\ Framed(s)' <=> stack' # stack
    BY <1>1, <1>3, <2>1 DEF SlotDriven, Framed
  <2> QED
    BY <1>1, <1>3, <1>4, <2>1, <2>2 DEF SlotDriven, Framed
<1> DEFINE T == {s}
<1>10. ASSUME ~terminated
       PROVE  /\ steps' \in [Slots -> Nat] /\ WakesCurrent' /\ EndsReached'
              /\ \A t \in Slots : t \notin T => WakeStays(t)
              /\ \A t \in Slots : t \in T => SlotWoken(t)'
  <2>1. WakeInv /\ SlotWoken(s)
    BY <1>10 DEF SafeInv, WakeInv
  <2>2. \A t \in Slots : t # s => WakeStays(t)
    BY <1>1, <1>3, <1>4, <1>8 DEF WakeStays, Queued
  <2>3. SlotWoken(s)'
    <3>1. /\ Queued(s)' <=> Queued(s)
          /\ Held(s)' <=> Held(s)
          /\ ~Woken(s) /\ ~Woken(s)' /\ ~On("return", s, stack')
          /\ On("loop", s, stack') <=> stack' # stack
      BY <1>1, <1>3 DEF Queued, Held, Woken
    <3>2. CASE phase[s] = "hook"
      <4>1. exec[s] = "paused" /\ ~Queued(s) /\ ~Held(s)
        BY <2>1, <3>2 DEF SlotWoken, InLoop
      <4> QED
        BY <1>1, <1>4, <3>1, <3>2, <4>1 DEF SlotWoken, Runnable, Ended, Parked, Terminal
    <3>3. CASE phase[s] = "returned"
      <4>1. phase'[s] = "unwound" /\ result'[s] = result[s] /\ stack' = stack
        BY <1>2, <1>4, <3>3
      <4>2. ~InLoop(s) /\ ~InLoop(s)'
        BY <3>3, <4>1 DEF InLoop
      <4> QED
        BY <1>1, <2>1, <3>1, <3>3, <4>1, <4>2 DEF SlotWoken, Ended, Fresh
    <3> QED
      BY <1>1, <3>2, <3>3
  <2>4. WakesCurrent'
    <3>1. \A x \in ToSet(stack') : /\ x.op = "wake" => x.gen = generation'[x.slot]
                                   /\ x.op = "return" => x.id \in {"done", "error"}
      BY <1>3
    <3> QED
      BY <1>1, <1>3, <2>1, <3>1 DEF WakeInv, WakesCurrent
  <2>5. EndsReached'
    BY <1>1, <1>5, <2>1, ReachedStays DEF WakeInv, Ended
  <2> QED
    BY <1>1, <2>1, <2>2, <2>3, <2>4, <2>5 DEF WakeInv
<1>11. /\ \A t \in Slots : t \notin T => DriveStays(t)
       /\ \A t \in Slots : t \in T => SlotDriven(t)'
  BY <1>8, <1>9
<1>12. ~terminated' => /\ ~terminated /\ steps' \in [Slots -> Nat] /\ WakesCurrent' /\ EndsReached'
                       /\ \A t \in Slots : t \notin T => WakeStays(t)
                       /\ \A t \in Slots : t \in T => SlotWoken(t)'
  BY <1>1, <1>10
<1> HIDE DEF T
<1> QED
  BY <1>6, <1>7, <1>11, <1>12, SafeTouched

\* A drive's .finally: a wake that it held back is called, and its end is to be reported.
LEMMA SafeOfFinally ==
  ASSUME Types, Types', RegistryInv, SafeInv, NEW s \in Slots, DriveFinally(s)
  PROVE  SafeInv'
<1>1. /\ stack = <<>> /\ phase[s] = "unwound"
      /\ UNCHANGED <<generation, exec, steps, spawned, slotOf, genOf, inv, deferredCancels, terminated>>
      /\ driving' = [driving EXCEPT ![s] = 0] /\ phase' = [phase EXCEPT ![s] = "none"]
      /\ result' = [result EXCEPT ![s] = "none"] /\ by' = [by EXCEPT ![s] = <<"none", None>>]
  BY DEF DriveFinally, BetweenJobs, context, wakes, invokes
<1>2. PICK g, r : g = driving[s] /\ r = result[s]
  OBVIOUS
<1>3. /\ jobs' = jobs \cup Continuation(by[s], s, g, r)
      /\ deferredWakes' = IF deferredWakes[s] = g THEN [deferredWakes EXCEPT ![s] = 0]
                                                  ELSE deferredWakes
      /\ stack' = (IF deferredWakes[s] = g /\ r \notin Terminal THEN <<Wake(s, g)>> ELSE <<>>)
                  \o <<Item("finally", s, g, None)>>
  BY <1>2 DEF DriveFinally
<1>4. /\ g \in Nat /\ g # 0 /\ g = generation[s] /\ exec[s] # "free" /\ ~Framed(s) /\ SlotDriven(s)
  BY <1>1, <1>2 DEF SafeInv, DriveInv, SlotDriven, Types, DriveTypes
<1>5. /\ \A t \in Slots : t # s => /\ driving'[t] = driving[t] /\ phase'[t] = phase[t]
                                   /\ result'[t] = result[t] /\ by'[t] = by[t]
                                   /\ deferredWakes'[t] = deferredWakes[t]
      /\ driving'[s] = 0 /\ phase'[s] = "none" /\ by'[s] = <<"none", None>>
      /\ deferredWakes'[s] = IF deferredWakes[s] = g THEN 0 ELSE deferredWakes[s]
  <2>1. /\ driving \in [Slots -> Nat] /\ phase \in [Slots -> Phases] /\ result \in [Slots -> Results]
        /\ by \in [Slots -> Drivers] /\ deferredWakes \in [Slots -> Nat]
    BY DEF Types, DriveTypes, ContextTypes
  <2> QED
    BY <1>1, <1>3, <2>1
<1> DEFINE woken == deferredWakes[s] = g /\ r \notin Terminal
<1>6. /\ stack' \in Seq(Items) /\ OncePer(Frame, stack') /\ OncePer({"wake"}, stack')
      /\ \A x \in ToSet(stack') : x.op \in Watched => x.op = "wake" /\ x.slot = s /\ x.gen = g
      /\ \A op \in Watched : \A t : On(op, t, stack') <=> woken /\ op = "wake" /\ t = s
      /\ \A op, t : ~On(op, t, stack)
  <2>1. PICK w \in Items, x \in Items :
          /\ w = Wake(s, g) /\ w.op = "wake" /\ w.slot = s /\ w.gen = g
          /\ x = Item("finally", s, g, None) /\ x.op = "finally"
    BY <1>4, WatchedCalls, OtherCalls
  <2>2. \A op, t : ~On(op, t, stack)
    BY <1>1, FewOn
  <2>3. /\ <<x>> \in Seq(Items) /\ <<>> \o <<x>> = <<x>>
        /\ ToSet(<<x>>) = {x} /\ \A op, n : On(op, n, <<x>>) <=> x.op = op /\ x.slot = n
        /\ \A ops : OncePer(ops, <<x>>)
    <3>1. <<x>> \in Seq(Items)
      OBVIOUS
    <3> QED
      BY <3>1, ConcatEmptySeq, FewOn
  <2>4. CASE ~woken
    <3>1. stack' = <<x>>
      BY <1>3, <2>1, <2>3, <2>4
    <3> QED
      BY <2>1, <2>2, <2>3, <2>4, <3>1 DEF Watched
  <2>5. CASE woken
    <3>1. PICK rest : rest = <<x>>
      OBVIOUS
    <3>2. rest \in Seq(Items) /\ ~On("wake", s, rest)
      BY <2>1, <2>3, <3>1
    <3>3. stack' = <<Wake(s, g)>> \o rest
      BY <1>3, <2>1, <2>5, <3>1
    <3>4. /\ stack' \in Seq(Items) /\ ToSet(stack') = {Wake(s, g)} \cup ToSet(rest)
          /\ \A op, t : On(op, t, stack') <=> (op = "wake" /\ t = s) \/ On(op, t, rest)
          /\ \A ops \in {Frame, {"wake"}} : OncePer(ops, rest) => OncePer(ops, stack')
      BY <1>4, <3>2, <3>3, WakeCalled
    <3> QED
      BY <2>1, <2>2, <2>3, <2>5, <3>1, <3>4 DEF Watched
  <2> QED
    BY <2>4, <2>5
<1> HIDE DEF woken
<1>7. NoneRevived
  BY <1>1 DEF NoneRevived
<1>8. OneFrame'
  BY <1>1, <1>6 DEF SafeInv, DriveInv, OneFrame, Watched
<1>9. ASSUME NEW j \in jobs', j \notin jobs
      PROVE  /\ j.by = by[s] /\ j.slot = s /\ j.gen = g /\ j.result = r
             /\ j.by[1] = "closure" \/ r \in Terminal
  BY <1>3, <1>9 DEF Continuation
<1>10. OwnersAgree'
  <2>1. OwnersAgree
    BY DEF SafeInv, DriveInv
  <2>2. \A t \in Slots : by'[t][1] = "invoke" => slotOf'[by'[t][2]] = t /\ genOf'[by'[t][2]] = driving'[t]
    BY <1>1, <1>5, <2>1 DEF OwnersAgree
  <2>3. \A j \in jobs' : j.by[1] = "invoke" => slotOf'[j.by[2]] = j.slot /\ genOf'[j.by[2]] = j.gen
    BY <1>1, <1>2, <1>9, <2>1 DEF OwnersAgree
  <2> QED
    BY <1>1, <2>1, <2>2, <2>3 DEF OwnersAgree
<1>11. EndsDriveNothing'
  <2> SUFFICES ASSUME NEW j \in jobs'
               PROVE  /\ j.by[1] = "closure" \/ j.result \in Terminal
                      /\ j.result \in Terminal /\ Live(j.slot, j.gen)' => driving'[j.slot] = 0
    BY DEF EndsDriveNothing
  <2>1. CASE j \in jobs
    <3>1. ASSUME j.result \in Terminal, Live(j.slot, j.gen)' PROVE driving'[j.slot] = 0
      <4>1. j.slot \in Slots /\ Live(j.slot, j.gen)
        BY <1>7, <2>1, <3>1, LiveBefore
      <4> QED
        BY <1>5, <2>1, <3>1, <4>1 DEF SafeInv, DriveInv, EndsDriveNothing
    <3> QED
      BY <2>1, <3>1 DEF SafeInv, DriveInv, EndsDriveNothing
  <2>2. CASE j \notin jobs
    BY <1>5, <1>9, <2>2
  <2> QED
    BY <2>1, <2>2
<1>12. \A t \in Slots : t # s => DriveStays(t)
  BY <1>1, <1>5, <1>6 DEF DriveStays, Frame, Watched
<1>13. SlotDriven(s)'
  BY <1>1, <1>4, <1>5, <1>6 DEF SlotDriven, Framed, Watched
<1> DEFINE T == {s}
<1>14. ASSUME ~terminated
       PROVE  /\ steps' \in [Slots -> Nat] /\ WakesCurrent' /\ EndsReached'
              /\ \A t \in Slots : t \notin T => WakeStays(t)
              /\ \A t \in Slots : t \in T => SlotWoken(t)'
  <2>1. WakeInv /\ SlotWoken(s)
    BY <1>14 DEF SafeInv, WakeInv
  <2>2. \A t \in Slots : t # s => WakeStays(t)
    BY <1>1, <1>5, <1>6, <1>12 DEF WakeStays, Queued, Watched
  <2>3. r \in Terminal <=> Ended(s)
    BY <1>1, <1>2, <2>1 DEF SlotWoken
  <2>4. /\ woken <=> Held(s)
        /\ ~Held(s)' /\ (Woken(s)' <=> Held(s)) /\ ~Woken(s)
        /\ Queued(s)' <=> Queued(s)
        /\ ~InLoop(s) /\ ~InLoop(s)'
    <3>1. Held(s) => deferredWakes[s] = g /\ r \notin Terminal
      BY <1>4, <2>1, <2>3 DEF SlotWoken, Runnable, Ended
    <3>2. woken <=> Held(s)
      BY <1>4, <3>1 DEF woken, Held
    <3>3. ~Held(s)'
      BY <1>5, <3>1 DEF Held
    <3>4. ~InLoop(s) /\ ~InLoop(s)'
      BY <1>1, <1>5 DEF InLoop
    <3> QED
      BY <1>1, <1>6, <3>2, <3>3, <3>4 DEF Woken, Queued, Watched
  <2>5. SlotWoken(s)'
    <3>1. ~On("loop", s, stack') /\ ~On("return", s, stack')
      BY <1>6 DEF Watched
    <3> QED
      BY <1>1, <1>5, <2>1, <2>4, <3>1 DEF SlotWoken, Fresh
  <2>6. WakesCurrent'
    <3>1. \A x \in ToSet(stack') : /\ x.op = "wake" => x.gen = generation'[x.slot]
                                   /\ x.op = "return" => x.id \in {"done", "error"}
      BY <1>1, <1>4, <1>6 DEF Watched
    <3> QED
      BY <1>1, <1>6, <2>1, <3>1 DEF WakeInv, WakesCurrent
  <2>7. EndsReached'
    <3> SUFFICES ASSUME NEW j \in jobs', j.result \in Terminal, Live(j.slot, j.gen)'
                 PROVE  Ended(j.slot)'
      BY DEF EndsReached
    <3>1. CASE j \in jobs
      <4>1. j.slot \in Slots /\ Live(j.slot, j.gen)
        BY <1>7, <3>1, LiveBefore
      <4> QED
        BY <1>1, <2>1, <3>1, <4>1 DEF WakeInv, EndsReached, Ended
    <3>2. CASE j \notin jobs
      BY <1>1, <1>9, <2>3, <3>2 DEF Ended
    <3> QED
      BY <3>1, <3>2
  <2> QED
    BY <1>1, <2>1, <2>2, <2>5, <2>6, <2>7 DEF WakeInv
<1>15. /\ \A t \in Slots : t \notin T => DriveStays(t)
       /\ \A t \in Slots : t \in T => SlotDriven(t)'
  BY <1>12, <1>13
<1>16. ~terminated' => /\ ~terminated /\ steps' \in [Slots -> Nat] /\ WakesCurrent' /\ EndsReached'
                       /\ \A t \in Slots : t \notin T => WakeStays(t)
                       /\ \A t \in Slots : t \in T => SlotWoken(t)'
  BY <1>1, <1>14
<1> HIDE DEF T
<1> QED
  BY <1>8, <1>10, <1>11, <1>15, <1>16, SafeTouched

\* What a drive's caller does at its end: a context that is freed has ended, and is driven
\* and woken by nobody.
LEMMA SafeOfContinue ==
  ASSUME Types, Types', RegistryInv, SafeInv, Continue
  PROVE  SafeInv'
<1>1. /\ stack = <<>>
      /\ UNCHANGED <<stack, generation, steps, spawned, driving, phase, result, by, slotOf, genOf,
                     deferredCancels, terminated>>
  BY DEF Continue, BetweenJobs, wakes
<1>2. PICK j \in jobs :
        /\ jobs' = jobs \ {j}
        /\ \/ j.by[1] = "invoke" /\ InvokeContinues(j)
           \/ /\ j.by[1] = "background" /\ BackgroundContinues(j)
              /\ UNCHANGED <<inv, waiter, deferredWakes, drainer>>
           \/ /\ j.by[1] = "closure" /\ ClosureContinues(j)
              /\ UNCHANGED <<inv, waiter, deferredWakes, cleanup>>
  BY DEF Continue
<1>3. j.slot \in Slots /\ j.gen \in Nat /\ j.by \in Drivers
  BY DEF Types, DriveTypes, Jobs
<1>4. /\ j.by[1] = "closure" \/ j.result \in Terminal
      /\ j.result \in Terminal /\ Live(j.slot, j.gen) =>
           driving[j.slot] = 0 /\ (~terminated => Ended(j.slot))
      /\ j.by[1] = "invoke" => slotOf[j.by[2]] = j.slot /\ genOf[j.by[2]] = j.gen
                               /\ j.by[2] \in Invocations
  BY <1>3, WhoDrives DEF SafeInv, DriveInv, EndsDriveNothing, OwnersAgree, WakeInv, EndsReached
\* The context of an ended drive is freed, or none is; wakes held back are kept.
<1>5. /\ \/ UNCHANGED exec
         \/ /\ j.result \in Terminal /\ Live(j.slot, j.gen)
            /\ exec' = [exec EXCEPT ![j.slot] = "free"]
      /\ \A i \in Invocations : inv'[i] \in Unbegun => inv[i] \in Unbegun
      /\ ~terminated => UNCHANGED deferredWakes
  <2>1. CASE j.by[1] = "invoke" /\ InvokeContinues(j)
    <3>1. PICK i \in Invocations : i = j.by[2]
      BY <1>4, <2>1
    <3>2. CASE ~OwnsSlot(i)
      BY <2>1, <3>1, <3>2 DEF InvokeContinues
    <3>3. CASE OwnsSlot(i)
      <4>1. /\ Live(j.slot, j.gen) /\ j.result \in Terminal
            /\ slotOf[i] = j.slot /\ genOf[i] = j.gen
        <5>1. slotOf[i] = j.slot /\ genOf[i] = j.gen /\ waiter[j.slot] = i
          BY <1>4, <2>1, <3>1, <3>3 DEF OwnsSlot
        <5>2. i # None
          BY SchedulerAssumption
        <5> QED
          BY <1>3, <1>4, <2>1, <5>1, <5>2 DEF RegistryInv, OwnerRegistry, Live
      <4>2. \E q \in {"value", "error", "terminated"} : inv' = Outcome(i, q)
        BY <2>1, <3>1, <3>3 DEF InvokeContinues
      <4>3. deferredWakes' = [deferredWakes EXCEPT ![j.slot] = 0]
        BY <2>1, <3>1, <3>3, <4>1 DEF InvokeContinues
      <4>4. UNCHANGED exec \/ exec' = [exec EXCEPT ![j.slot] = "free"]
        BY <2>1, <3>1, <3>3, <4>1 DEF InvokeContinues, FreeIfLive
      <4>5. \A k \in Invocations : inv'[k] \in Unbegun => inv[k] \in Unbegun
        <5>1. PICK q \in {"value", "error", "terminated"} : inv' = Outcome(i, q)
          BY <4>2
        <5>2. \A k \in Invocations : inv'[k] = inv[k] \/ inv'[k] = q
          BY <5>1, OutcomeIs
        <5> QED
          BY <5>1, <5>2 DEF Unbegun
      <4>6. ASSUME ~terminated PROVE UNCHANGED deferredWakes
        <5>1. Ended(j.slot) /\ SlotWoken(j.slot)
          BY <1>3, <1>4, <4>1, <4>6 DEF SafeInv, WakeInv
        <5>2. deferredWakes[j.slot] = 0
          BY <5>1 DEF SlotWoken, Ended, Held, Runnable
        <5>3. deferredWakes \in [Slots -> Nat]
          BY DEF Types, ContextTypes
        <5> QED
          BY <1>3, <4>3, <5>2, <5>3
      <4> QED
        BY <4>1, <4>4, <4>5, <4>6
    <3> QED
      BY <3>2, <3>3
  <2>2. CASE /\ j.by[1] = "background" /\ BackgroundContinues(j)
             /\ UNCHANGED <<inv, waiter, deferredWakes, drainer>>
    BY <1>4, <2>2 DEF BackgroundContinues, FreeIfLive
  <2>3. CASE /\ j.by[1] = "closure" /\ ClosureContinues(j)
             /\ UNCHANGED <<inv, waiter, deferredWakes, cleanup>>
    BY <2>3 DEF ClosureContinues, FreeIfLive
  <2> QED
    BY <1>2, <2>1, <2>2, <2>3
<1>6. /\ \A op, t : ~On(op, t, stack)
      /\ stack \in Seq(Items) /\ exec \in [Slots -> Execs]
  BY <1>1, FewOn, StackHere DEF Types, ContextTypes
<1>7. NoneRevived
  BY <1>1, <1>3, <1>5, <1>6 DEF NoneRevived
<1>8. OneFrame'
  BY <1>1 DEF SafeInv, DriveInv, OneFrame
<1>9. jobs' \subseteq jobs
  BY <1>2
<1>10. OwnersAgree' /\ EndsDriveNothing'
  BY <1>1, <1>5, <1>7, <1>9, OwnersStay, EndsStay DEF SafeInv, DriveInv
<1> DEFINE T == IF exec' = exec THEN {} ELSE {j.slot}
<1>11. \A t \in Slots : t \notin T => exec'[t] = exec[t]
  BY <1>5, <1>6
<1>12. \A t \in Slots : t \in T => /\ exec'[t] = "free" /\ driving[t] = 0
                                   /\ ~terminated => Ended(t)
  BY <1>3, <1>4, <1>5, <1>6
<1> HIDE DEF T
<1>13. \A t \in Slots : t \notin T => DriveStays(t)
  BY <1>1, <1>11 DEF DriveStays
<1>14. \A t \in Slots : t \in T => SlotDriven(t)'
  BY <1>1, <1>12 DEF SafeInv, DriveInv, SlotDriven, Framed
<1>15. ASSUME ~terminated
       PROVE  /\ steps' \in [Slots -> Nat] /\ WakesCurrent' /\ EndsReached'
              /\ \A t \in Slots : t \notin T => WakeStays(t)
              /\ \A t \in Slots : t \in T => SlotWoken(t)'
  <2>1. WakeInv /\ UNCHANGED deferredWakes
    BY <1>5, <1>15 DEF SafeInv
  <2>2. \A t \in Slots : t \notin T => WakeStays(t)
    BY <1>1, <1>13, <2>1 DEF WakeStays, Queued
  <2>3. ASSUME NEW t \in Slots, t \in T PROVE SlotWoken(t)'
    <3>1. /\ exec'[t] = "free" /\ driving[t] = 0 /\ Ended(t) /\ SlotWoken(t) /\ phase[t] = "none"
      BY <1>12, <1>15, <2>1, <2>3 DEF WakeInv, SafeInv, DriveInv, SlotDriven
    <3>2. ~Queued(t)' /\ ~Held(t)' /\ ~Woken(t)' /\ phase'[t] = "none"
      BY <1>1, <2>1, <3>1 DEF SlotWoken, Queued, Held, Woken, Ended, Runnable
    <3>3. ~On("loop", t, stack') /\ ~On("return", t, stack')
      BY <1>1, <1>6
    <3> QED
      BY <3>1, <3>2, <3>3 DEF SlotWoken
  <2>4. WakesCurrent'
    BY <1>1, <2>1 DEF WakeInv, WakesCurrent
  <2>5. EndsReached'
    <3>1. \A t \in Slots : Ended(t) /\ exec'[t] # "free" => Ended(t)'
      BY <1>11, <1>12 DEF Ended
    <3> QED
      BY <1>7, <1>9, <2>1, <3>1, ReachedStays DEF WakeInv
  <2> QED
    BY <1>1, <2>1, <2>2, <2>3, <2>4, <2>5 DEF WakeInv
<1>16. ~terminated' => /\ ~terminated /\ steps' \in [Slots -> Nat] /\ WakesCurrent' /\ EndsReached'
                       /\ \A t \in Slots : t \notin T => WakeStays(t)
                       /\ \A t \in Slots : t \in T => SlotWoken(t)'
  BY <1>1, <1>15
<1>17. PICK S : S = T
  OBVIOUS
<1> QED
  BY <1>8, <1>10, <1>13, <1>14, <1>16, <1>17, SafeTouched

(***************************************************************************)
(* Every step.                                                             *)
(***************************************************************************)
\* Initially the root is fresh, and nothing is driven or woken.
LEMMA SafeInit == Init => SafeInv
<1> SUFFICES ASSUME Init PROVE SafeInv
  OBVIOUS
<1>1. /\ stack = <<>> /\ spawned = <<>> /\ deferredCancels = <<>> /\ jobs = {}
      /\ \A s \in Slots : /\ driving[s] = 0 /\ phase[s] = "none" /\ deferredWakes[s] = 0
                          /\ by[s] = <<"none", None>> /\ steps[s] = 0
                          /\ generation[s] = IF s = Root THEN 1 ELSE 0
                          /\ exec[s] = IF s = Root THEN "ready" ELSE "free"
      /\ \A i \in Invocations : slotOf[i] = -1
      /\ steps \in [Slots -> Nat]
  BY DEF Init
<1>2. /\ ToSet(stack) = {} /\ (\A op, n : ~On(op, n, stack)) /\ \A ops : OncePer(ops, stack)
      /\ 1 .. Len(spawned) = {}
  BY <1>1, FewOn
<1>3. OneFrame /\ OwnersAgree /\ EndsDriveNothing
  BY <1>1, <1>2 DEF OneFrame, OwnersAgree, EndsDriveNothing
<1>4. \A s \in Slots : SlotDriven(s)
  BY <1>1, <1>2 DEF SlotDriven, Framed
<1>5. WakesCurrent /\ EndsReached
  BY <1>1, <1>2 DEF WakesCurrent, EndsReached
<1>6. \A s \in Slots : SlotWoken(s)
  BY <1>1, <1>2 DEF SlotWoken, Woken, Queued, Held, Fresh
<1> QED
  BY <1>1, <1>3, <1>4, <1>5, <1>6 DEF SafeInv, DriveInv, WakeInv

\* No call cancels, where no signal aborts.
LEMMA NoCancel ==
  ASSUME Abortable = {}, Types, SafeInv
  PROVE  ~ResumeCancels /\ \A i \in Invocations : ~Abort(i)
<1>1. ~ResumeCancels
  <2> SUFFICES ASSUME ResumeCancels PROVE FALSE
    OBVIOUS
  <2>1. stack # <<>> /\ Top.op = "cancel"
    BY DEF ResumeCancels, Calling
  <2>2. Top \in ToSet(stack)
    BY <2>1, StackHere, TailElements DEF Top
  <2> QED
    BY <2>1, <2>2 DEF SafeInv, DriveInv, OneFrame
<1>2. \A i \in Invocations : ~Abort(i)
  BY DEF Abort
<1> QED
  BY <1>1, <1>2

\* Every step keeps SafeInv.
LEMMA SafeStep ==
  ASSUME Abortable = {}, Types, OrderInv, RegistryInv, SafeInv, [Next]_vars
  PROVE  SafeInv'
<1>1. Types' /\ ~ResumeCancels /\ \A i \in Invocations : ~Abort(i)
  BY OrderStep, NoCancel
<1>2. CASE UNCHANGED vars
  BY <1>1, <1>2, SafeOfRest
<1>3. CASE Synchronous
  BY <1>1, <1>3, SafeOfRuns, SafeOfSpawn, SafeOfCompletes, SafeOfRest, SafeOfDrain, SafeOfWake,
     SafeOfBegin, SafeOfRedispatch, SafeOfResume DEF Synchronous
<1>4. CASE Continuations
  BY <1>1, <1>4, SafeOfThen, SafeOfFinally, SafeOfContinue, SafeOfCall, SafeOfRest
     DEF Continuations
<1>5. CASE Embedder
  BY <1>1, <1>5, SafeOfRest, SafeOfResume DEF Embedder
<1>6. CASE Settle
  BY <1>1, <1>6, SafeOfSettle
<1>7. CASE \E s \in Slots : HookResolves(s) \/ RunSlot(s)
  BY <1>1, <1>7, SafeOfThen, SafeOfRunSlot
<1> QED
  BY <1>2, <1>3, <1>4, <1>5, <1>6, <1>7 DEF Next

\* What SafeInv says of drives.
LEMMA DrivesOwnContexts ==
  ASSUME SafeInv
  PROVE  DriveOwnsContext
BY DEF SafeInv, DriveInv, SlotDriven, DriveOwnsContext

\* What SafeInv says of wakes.
LEMMA WakesAreKept ==
  ASSUME Types, SafeInv
  PROVE  NoLostWake
<1> SUFFICES ASSUME NEW s \in Slots, exec[s] = "ready", ~terminated
             PROVE  \/ s = Root /\ generation[s] = 1 /\ steps[s] = 0
                    \/ phase[s] \in {"loop", "hook"} /\ driving[s] = generation[s]
                    \/ Contains(spawned, Identity(s, generation[s]))
                    \/ deferredWakes[s] = generation[s]
                    \/ Pending("wake", s)
  BY DEF NoLostWake
<1>1. WakesCurrent /\ SlotWoken(s) /\ SlotDriven(s)
  BY DEF SafeInv, WakeInv, DriveInv
<1>2. CASE Woken(s)
  <2>1. PICK k \in DOMAIN stack : stack[k].op = "wake" /\ stack[k].slot = s
    BY <1>2 DEF Woken, On, ToSet
  <2>2. stack[k] \in ToSet(stack)
    BY DEF ToSet
  <2>3. stack[k].gen = generation[s]
    BY <1>1, <2>1, <2>2 DEF WakesCurrent
  <2> QED
    BY <2>1, <2>3 DEF Pending
<1>3. CASE Queued(s)
  <2>1. PICK k \in 1 .. Len(spawned) : spawned[k].slot = s
    BY <1>3 DEF Queued
  <2>2. spawned[k].gen = generation[s]
    BY <1>1, <2>1 DEF WakesCurrent
  <2>3. k \in DOMAIN spawned /\ spawned[k] \in Identities
    BY DEF Types, ContextTypes
  <2>4. spawned[k] = Identity(s, generation[s])
    BY <2>1, <2>2, <2>3 DEF Identity, Identities
  <2> QED
    BY <2>3, <2>4 DEF Contains
<1> QED
  BY <1>1, <1>2, <1>3 DEF SlotWoken, SlotDriven, InLoop, Fresh

\* A drive in its loop, or awaiting the fuel hook, runs the context it was started for
\* (_driveSlot, its .finally and the continuations that free contexts), where no signal
\* aborts an invocation.  An abort frees a context under its drive (cancelContext).
THEOREM DrivesKeepTheirContexts ==
  ASSUME Abortable = {}
  PROVE  Spec => []DriveOwnsContext
<1>1. Init => Types /\ OrderInv /\ RegistryInv /\ SafeInv
  BY OrderInit, RegistryInit, SafeInit
<1>2. Types /\ OrderInv /\ RegistryInv /\ SafeInv /\ [Next]_vars
        => Types' /\ OrderInv' /\ RegistryInv' /\ SafeInv'
  BY OrderStep, RegistryStep, SafeStep
<1>3. SafeInv => DriveOwnsContext
  BY DrivesOwnContexts
<1> QED
  BY <1>1, <1>2, <1>3, PTL DEF Spec

\* No wake is lost: a context that is ready is driven or queued to be, through parks, unwinding
\* drives, quiesce and resume (dispatchWoken, deferredWakes, _drainPendingSpawned), where no
\* signal aborts an invocation.
THEOREM WakesAreNotLost ==
  ASSUME Abortable = {}
  PROVE  Spec => []NoLostWake
<1>1. Init => Types /\ OrderInv /\ RegistryInv /\ SafeInv
  BY OrderInit, RegistryInit, SafeInit
<1>2. Types /\ OrderInv /\ RegistryInv /\ SafeInv /\ [Next]_vars
        => Types' /\ OrderInv' /\ RegistryInv' /\ SafeInv'
  BY OrderStep, RegistryStep, SafeStep
<1>3. Types /\ SafeInv => NoLostWake
  BY WakesAreKept
<1> QED
  BY <1>1, <1>2, <1>3, PTL DEF Spec

(***************************************************************************)
(* The queue of closure calls has a drainer, or a call that starts one.    *)
(***************************************************************************)
Kicks == {"kick", "reinvoke", "redispatch"}
Kicked(calls) == \E x \in ToSet(calls) : x.op \in Kicks

QueueInv ==
  ~terminated /\ ~quiesced /\ queue # <<>> => drainer # "idle" \/ Kicked(stack)

\* Calls put before others leave those where they are.
LEMMA KickPushed ==
  ASSUME NEW calls \in Seq(Items), NEW rest \in Seq(Items)
  PROVE  Kicked(calls \o rest) <=> Kicked(calls) \/ Kicked(rest)
BY ConcatElements DEF Kicked

\* A call of another kind that returns leaves the kicks where they are.
LEMMA KickBelow ==
  ASSUME Types, stack # <<>>, Top.op \notin Kicks
  PROVE  Kicked(Tail(stack)) <=> Kicked(stack)
<1>1. stack \in Seq(Items) /\ ToSet(stack) = {Top} \cup ToSet(Tail(stack))
  BY StackHere, TailElements DEF Top
<1> QED
  BY <1>1 DEF Kicked

\* A drive that starts leaves the kicks where they are.
LEMMA KickDriven ==
  ASSUME NEW s \in Slots, NEW g \in Nat, NEW who, NEW rest \in Seq(Items),
         DriveSlot(s, g, who, rest)
  PROVE  Kicked(rest) => Kicked(stack')
<1> DEFINE x == Item("loop", s, g, None)
           y == Item("track", s, g, None)
<1>1. stack' = rest \/ stack' = <<x, y>> \o rest
  BY DEF DriveSlot
<1>2. x \in Items /\ y \in Items
  BY WatchedCalls, OtherCalls
<1> HIDE DEF x, y
<1>3. <<x, y>> \in Seq(Items)
  <2>1. \A a, b \in Items : <<a, b>> \in Seq(Items)
    OBVIOUS
  <2> QED
    BY <1>2, <2>1
<1>4. PICK two \in Seq(Items) : two = <<x, y>>
  BY <1>3
<1>5. stack' = rest \/ stack' = two \o rest
  BY <1>1, <1>4
<1>6. Kicked(rest) => Kicked(two \o rest)
  BY KickPushed
<1> QED
  BY <1>5, <1>6

\* A step that leaves the queue, its drainer and the kicks.
LEMMA QueueStays ==
  ASSUME QueueInv, UNCHANGED <<quiesced, terminated, queue, drainer>>,
         Kicked(stack) => Kicked(stack')
  PROVE  QueueInv'
BY DEF QueueInv

\* The empty stack calls nothing.
LEMMA NoKick == ~Kicked(<<>>)
BY ShortElements DEF Kicked

\* A loop's run, whatever it calls.
LEMMA QueueOfRuns ==
  ASSUME Types, QueueInv, NEW s \in Slots,
         \/ RunEnds(s) \/ RunParks(s) \/ RunPauses(s) \/ RunSpawns(s)
         \/ RunCompletes(s) \/ RunReturns(s) \/ RunStrays(s) \/ LoopTerminated(s)
  PROVE  QueueInv'
<1>1. /\ stack # <<>> /\ Top.op \notin Kicks /\ s = Top.slot
      /\ UNCHANGED <<quiesced, terminated, queue, drainer>>
  BY DEF RunEnds, RunParks, RunPauses, RunSpawns, RunCompletes, RunReturns, RunStrays,
         LoopTerminated, Run, Calling, quiescence, closures, Kicks
<1>2. /\ stack \in Seq(Items) /\ Tail(stack) \in Seq(Items) /\ Top.gen \in Nat
      /\ Kicked(Tail(stack)) <=> Kicked(stack)
  BY <1>1, StackHere, KickBelow
<1>3. ASSUME NEW calls \in Seq(Items), NEW r \in Results, ReturnAfter(calls, s, r)
      PROVE  Kicked(stack) => Kicked(stack')
  <2> DEFINE x == Item("return", s, Top.gen, r)
  <2>1. x \in Items /\ stack' = (calls \o <<x>>) \o Tail(stack)
    BY <1>2, <1>3, WatchedCalls DEF ReturnAfter
  <2> HIDE DEF x
  <2>2. <<x>> \in Seq(Items)
    BY <2>1
  <2>3. calls \o <<x>> \in Seq(Items)
    BY <2>2, ConcatElements
  <2> QED
    BY <1>2, <2>1, <2>3, KickPushed
<1>4. CASE stack' = stack \/ stack' = Tail(stack)
  BY <1>1, <1>2, <1>4, QueueStays
<1>5. CASE RunEnds(s)
  <2>1. \E r \in Results : ReturnAfter(<<Drain>>, s, r)
    BY <1>5 DEF RunEnds, Results
  <2>2. <<Drain>> \in Seq(Items)
    BY OtherCalls
  <2> QED
    BY <1>1, <1>3, <2>1, <2>2, QueueStays
<1>6. CASE RunCompletes(s)
  <2>1. PICK id \in promises : ReturnAfter(<<Wake(id.slot, id.gen), Drain>>, s, "done")
    BY <1>6 DEF RunCompletes
  <2>2. <<Wake(id.slot, id.gen), Drain>> \in Seq(Items)
    <3>1. id.slot \in Slots /\ id.gen \in Nat
      BY DEF Types, ContextTypes, Identities
    <3>2. Wake(id.slot, id.gen) \in Items /\ Drain \in Items
      BY <3>1, OtherCalls, WatchedCalls
    <3>3. \A a, b \in Items : <<a, b>> \in Seq(Items)
      OBVIOUS
    <3> QED
      BY <3>2, <3>3
  <2> QED
    BY <1>1, <1>3, <2>1, <2>2, QueueStays DEF Results
<1>7. CASE RunSpawns(s)
  <2>1. stack' = <<Wake(NextSlot, NextGeneration)>> \o stack /\ CanAllocate
    BY <1>7 DEF RunSpawns
  <2>2. NextSlot \in Slots /\ NextGeneration \in Nat
    BY <2>1, NextSlotIsFree DEF CanAllocate, NextGeneration, Types, ContextTypes
  <2>3. Wake(NextSlot, NextGeneration) \in Items
    BY <2>2, WatchedCalls
  <2>4. <<Wake(NextSlot, NextGeneration)>> \in Seq(Items)
    BY <2>3
  <2> QED
    BY <1>1, <1>2, <2>1, <2>4, KickPushed, QueueStays
<1> QED
  BY <1>4, <1>5, <1>6, <1>7
     DEF RunParks, RunPauses, RunReturns, RunStrays, LoopTerminated, LoopReturn

\* A wake or an invocation that starts a drive: it never throws.
LEMMA QueueOfStarts ==
  ASSUME Types, RegistryInv, SafeInv, QueueInv, DispatchWoken \/ BeginInvoke
  PROVE  QueueInv'
<1>1. /\ stack # <<>> /\ Top.op \notin Kicks
      /\ UNCHANGED <<quiesced, terminated, queue, drainer>>
  BY DEF DispatchWoken, BeginInvoke, Calling, quiescence, Kicks
<1>2. PICK rest : rest = Tail(stack)
  OBVIOUS
<1>3. rest \in Seq(Items) /\ (Kicked(rest) <=> Kicked(stack))
  BY <1>1, <1>2, StackHere, KickBelow
<1>4. CASE stack' = rest
  BY <1>1, <1>3, <1>4, QueueStays
<1>5. ASSUME NEW n \in Slots, NEW g \in Nat, NEW who, DriveSlot(n, g, who, rest)
      PROVE  QueueInv'
  BY <1>1, <1>3, <1>5, KickDriven, QueueStays
<1>6. CASE DispatchWoken
  <2>1. Top.op = "wake"
    BY <1>6 DEF DispatchWoken, Calling
  <2>2. PICK s \in Slots, g \in Nat : s = Top.slot /\ g = Top.gen
    BY <1>1, StackHere
  <2>3. ~terminated => driving[s] \in {0, g}
    BY <1>1, <2>1, <2>2, WakeHere
  <2>4. stack' = rest \/ DriveSlot(s, g, WakeOwner(s, g), rest)
    BY <1>2, <1>6, <2>2, <2>3 DEF DispatchWoken
  <2> QED
    BY <1>4, <1>5, <2>4
<1>7. CASE BeginInvoke
  <2>1. PICK i : i = Top.id
    OBVIOUS
  <2>2. BeginInvokeFails(i) \/ BeginInvokeDrives(i)
    BY <1>7, <2>1 DEF BeginInvoke
  <2>3. CASE BeginInvokeFails(i)
    BY <1>2, <1>4, <2>3 DEF BeginInvokeFails
  <2>4. CASE BeginInvokeDrives(i)
    <3>1. CanAllocate /\ Allocate("ready")
      BY <2>4 DEF BeginInvokeDrives
    <3>2. PICK n \in Slots : n = NextSlot /\ exec[n] = "free"
      BY <3>1, NextSlotIsFree DEF CanAllocate
    <3>3. ~AlreadyDriving(n)
      BY <3>2, FreeSlot DEF AlreadyDriving
    <3>4. DriveSlot(n, NextGeneration, <<"invoke", i>>, rest)
      BY <1>2, <2>4, <3>2, <3>3 DEF BeginInvokeDrives
    <3>5. NextGeneration \in Nat
      BY <3>2 DEF NextGeneration, Types, ContextTypes
    <3> QED
      BY <1>5, <3>4, <3>5
  <2> QED
    BY <2>2, <2>3, <2>4
<1> QED
  BY <1>6, <1>7

\* resume(), and the calls it leaves, one for the next.
LEMMA QueueOfResume ==
  ASSUME Types, QueueInv, SafeInv, Resume \/ ResumeRedispatches \/ ResumeReinvokes
  PROVE  QueueInv'
<1>1. ASSUME NEW op \in Kicks, NEW calls \in Seq(Items), NEW rest \in Seq(Items),
             stack' = calls \o <<Item(op, Root, 0, None)>> \o rest
      PROVE  QueueInv'
  <2> DEFINE x == Item(op, Root, 0, None)
  <2>1. x \in Items /\ x.op = op
    BY OtherCalls DEF Kicks
  <2>2. stack' = (calls \o <<x>>) \o rest
    BY <1>1
  <2> HIDE DEF x
  <2>3. <<x>> \in Seq(Items) /\ ToSet(<<x>>) = {x}
    BY <2>1, ShortElements
  <2>4. Kicked(<<x>>)
    BY <2>1, <2>3 DEF Kicked
  <2>5. calls \o <<x>> \in Seq(Items) /\ Kicked(calls \o <<x>>)
    BY <2>3, <2>4, ConcatElements, KickPushed
  <2>6. Kicked(stack')
    BY <2>2, <2>5, KickPushed
  <2> QED
    BY <2>6 DEF QueueInv
<1>2. CASE Resume
  <2> DEFINE calls == [k \in DOMAIN deferredCancels |-> Item("cancel", Root, 0, deferredCancels[k])]
  <2>1. stack' = calls \o <<Item("redispatch", Root, 0, None)>> \o stack
    BY <1>2 DEF Resume
  <2>2. calls \in Seq(Items)
    <3>1. DOMAIN deferredCancels = {}
      BY DEF SafeInv, DriveInv, OneFrame
    <3>2. calls = <<>>
      BY <3>1
    <3> QED
      BY <3>2
  <2>3. stack \in Seq(Items)
    BY StackHere
  <2> HIDE DEF calls
  <2> QED
    BY <1>1, <2>1, <2>2, <2>3 DEF Kicks
<1>3. CASE ResumeReinvokes
  <2> DEFINE calls == [k \in DOMAIN deferredInvokes |-> Item("rebegin", Root, 0, deferredInvokes[k])]
  <2>1. stack # <<>> /\ stack' = calls \o <<Item("kick", Root, 0, None)>> \o Tail(stack)
    BY <1>3 DEF ResumeReinvokes, Calling
  <2>2. calls \in Seq(Items)
    <3>1. /\ Len(deferredInvokes) \in Nat /\ DOMAIN deferredInvokes = 1 .. Len(deferredInvokes)
          /\ \A k \in 1 .. Len(deferredInvokes) : deferredInvokes[k] \in Invocations
      BY DEF Types, InvokeTypes
    <3>2. calls \in [1 .. Len(deferredInvokes) -> Items]
      BY <3>1, OtherCalls
    <3> HIDE DEF calls
    <3> QED
      BY <3>1, <3>2, MappedOn
  <2>3. Tail(stack) \in Seq(Items)
    BY <2>1, StackHere
  <2> HIDE DEF calls
  <2> QED
    BY <1>1, <2>1, <2>2, <2>3 DEF Kicks
<1>4. CASE ResumeRedispatches
  <2> DEFINE x == Item("reinvoke", Root, 0, None)
  <2>1. PICK made : /\ stack # <<>> /\ stack' = made \o <<Drain, x>> \o Tail(stack)
                    /\ made \in Seq(Items)
    <3>1. PICK H : H = {s \in Slots : deferredWakes[s] # 0}
      OBVIOUS
    <3>2. PICK order \in SetToSeqs(H) :
            stack' = [k \in DOMAIN order |-> Wake(order[k], deferredWakes[order[k]])]
                     \o <<Drain, x>> \o Tail(stack)
      BY <1>4, <3>1 DEF ResumeRedispatches
    <3>3. IsFiniteSet(H)
      BY <3>1, SlotsFinite, FS_Subset
    <3>4. PICK n \in Nat : order \in [1 .. n -> H]
      BY <3>3, Ordered
    <3>5. PICK made : made = [k \in 1 .. n |-> Wake(order[k], deferredWakes[order[k]])]
      OBVIOUS
    <3>6. \A k \in 1 .. n : order[k] \in Slots /\ deferredWakes[order[k]] \in Nat
      BY <3>1, <3>4 DEF Types, ContextTypes
    <3>7. \A k \in 1 .. n : Wake(order[k], deferredWakes[order[k]]) \in Items
      BY <3>6, WatchedCalls
    <3>8. made \in [1 .. n -> Items]
      BY <3>5, <3>7
    <3>9. made \in Seq(Items)
      BY <3>8, MappedOn
    <3>10. stack # <<>>
      BY <1>4 DEF ResumeRedispatches, Calling
    <3>11. DOMAIN order = 1 .. n
      BY <3>4
    <3> QED
      BY <3>2, <3>5, <3>9, <3>10, <3>11
  <2>2. Drain \in Items /\ x \in Items /\ x.op = "reinvoke"
    BY OtherCalls
  <2> HIDE DEF x
  <2>3. <<Drain, x>> \in Seq(Items) /\ Kicked(<<Drain, x>>)
    <3>1. \A a, b \in Items : <<a, b>> \in Seq(Items)
      OBVIOUS
    <3>2. x \in ToSet(<<Drain, x>>)
      BY ShortElements
    <3> QED
      BY <2>2, <3>1, <3>2 DEF Kicked, Kicks
  <2>4. made \o <<Drain, x>> \in Seq(Items) /\ Kicked(made \o <<Drain, x>>)
    BY <2>1, <2>3, ConcatElements, KickPushed
  <2>5. Tail(stack) \in Seq(Items) /\ stack' = (made \o <<Drain, x>>) \o Tail(stack)
    BY <2>1, StackHere
  <2>6. Kicked(stack')
    BY <2>4, <2>5, KickPushed
  <2> QED
    BY <2>6 DEF QueueInv
<1> QED
  BY <1>2, <1>3, <1>4

\* The rest: the drainer's own steps, the embedder's calls and the ends of drives.
LEMMA QueueOfRest ==
  ASSUME Types, QueueInv,
         \/ TrackDrive \/ FinallyRest \/ DrainSpawned \/ KickClosureDrainer \/ Continuations
         \/ Quiesce \/ Terminate \/ Settle
         \/ (\E s \in Slots : HookResolves(s)) \/ (\E s \in Slots : RunSlot(s))
         \/ (\E c \in Calls : Schedule(c)) \/ (\E i \in Invocations : Invoke(i))
         \/ UNCHANGED vars
  PROVE  QueueInv'
<1>1. CASE TrackDrive \/ FinallyRest
  <2>1. /\ stack # <<>> /\ Top.op \notin Kicks /\ stack' = Tail(stack)
        /\ UNCHANGED <<quiesced, terminated, queue, drainer>>
    BY <1>1 DEF TrackDrive, FinallyRest, Calling, quiescence, closures, Kicks
  <2> QED
    BY <2>1, KickBelow, QueueStays
<1>2. CASE DrainSpawned
  <2>1. /\ stack # <<>> /\ Top.op \notin Kicks
        /\ UNCHANGED <<quiesced, terminated, queue, drainer>>
    BY <1>2 DEF DrainSpawned, Calling, quiescence, closures, Kicks
  <2>2. Tail(stack) \in Seq(Items) /\ (Kicked(Tail(stack)) <=> Kicked(stack))
    BY <2>1, StackHere, KickBelow
  <2>3. CASE stack' = Tail(stack)
    BY <2>1, <2>2, <2>3, QueueStays
  <2> DEFINE made == [k \in DOMAIN spawned |-> Wake(spawned[k].slot, spawned[k].gen)]
  <2>4. CASE stack' = made \o Tail(stack)
    <3>1. /\ Len(spawned) \in Nat /\ DOMAIN spawned = 1 .. Len(spawned)
          /\ \A k \in 1 .. Len(spawned) : spawned[k].slot \in Slots /\ spawned[k].gen \in Nat
      <4>1. spawned \in Seq(Identities)
        BY DEF Types, ContextTypes
      <4>2. \A k \in 1 .. Len(spawned) : spawned[k] \in Identities
        BY <4>1
      <4> QED
        BY <4>1, <4>2 DEF Identities
    <3>2. \A k \in 1 .. Len(spawned) : Wake(spawned[k].slot, spawned[k].gen) \in Items
      BY <3>1, WatchedCalls
    <3>3. made \in [1 .. Len(spawned) -> Items]
      BY <3>1, <3>2
    <3> HIDE DEF made
    <3>4. made \in Seq(Items)
      BY <3>1, <3>3, MappedOn
    <3> QED
      BY <2>1, <2>2, <2>4, <3>4, KickPushed, QueueStays
  <2> QED
    BY <1>2, <2>3, <2>4 DEF DrainSpawned
<1>3. CASE KickClosureDrainer
  <2>1. /\ UNCHANGED <<quiesced, terminated>>
        /\ \/ drainer' = "backpressure"
           \/ ~(drainer = "idle" /\ Drainable) /\ UNCHANGED <<queue, drainer>>
    BY <1>3 DEF KickClosureDrainer, TakeHead, quiescence
  <2> QED
    BY <2>1 DEF QueueInv, Drainable
<1>4. CASE Continuations
  <2>1. ~Kicked(stack) /\ UNCHANGED <<quiesced, terminated>>
    BY <1>4, NoKick DEF Continuations, DriveThen, DriveFinally, Continue, RunClosureCall, DrainerNext,
                        BetweenJobs, quiescence
  <2>2. \/ UNCHANGED <<queue, drainer>> \/ drainer' # "idle"
        \/ ~Drainable /\ UNCHANGED queue
    <3>1. CASE RunClosureCall
      BY <3>1 DEF RunClosureCall, CallAbandoned, CallRefused, CallDelivered
    <3>2. CASE Continue
      BY <3>2 DEF Continue, ClosureContinues
    <3>3. CASE DrainerNext
      BY <3>3 DEF DrainerNext, TakeHead
    <3> QED
      BY <1>4, <3>1, <3>2, <3>3 DEF Continuations, DriveThen, DriveFinally, closures
  <2> QED
    BY <2>1, <2>2 DEF QueueInv, Drainable
<1>5. CASE Quiesce \/ Terminate
  BY <1>5 DEF Quiesce, Terminate, QueueInv
<1>6. CASE Settle \/ \E s \in Slots : HookResolves(s)
  <2>1. ~Kicked(stack) /\ UNCHANGED <<quiesced, terminated, queue, drainer>>
    BY <1>6, NoKick DEF Settle, HookResolves, BetweenJobs, quiescence, closures
  <2> QED
    BY <2>1, QueueStays
<1>7. ASSUME NEW s \in Slots, RunSlot(s) PROVE QueueInv'
  <2>1. PICK g \in Nat : \E who : DriveSlot(s, g, who, stack)
    BY <1>7 DEF RunSlot, Types, ContextTypes
  <2>2. UNCHANGED <<quiesced, terminated, queue, drainer>>
    BY <1>7 DEF RunSlot, quiescence
  <2> QED
    BY <2>1, <2>2, StackHere, KickDriven, QueueStays
<1>8. ASSUME NEW c \in Calls, Schedule(c) PROVE QueueInv'
  <2> DEFINE x == Item("kick", Root, 0, None)
  <2>1. x \in Items /\ x.op = "kick" /\ stack' = <<x>> \o stack
    BY <1>8, OtherCalls DEF Schedule
  <2> HIDE DEF x
  <2>2. <<x>> \in Seq(Items) /\ ToSet(<<x>>) = {x}
    BY <2>1, ShortElements
  <2>3. Kicked(stack')
    BY <2>1, <2>2, StackHere, KickPushed DEF Kicked, Kicks
  <2> QED
    BY <2>3 DEF QueueInv
<1>9. ASSUME NEW i \in Invocations, Invoke(i) PROVE QueueInv'
  <2> DEFINE x == Item("begin", Root, 0, i)
  <2>1. /\ x \in Items /\ (stack' = stack \/ stack' = <<x>> \o stack)
        /\ UNCHANGED <<quiesced, terminated, queue, drainer>>
    BY <1>9, OtherCalls DEF Invoke, quiescence, closures
  <2> HIDE DEF x
  <2>2. <<x>> \in Seq(Items)
    BY <2>1
  <2> QED
    BY <2>1, <2>2, StackHere, KickPushed, QueueStays
<1>10. CASE UNCHANGED vars
  BY <1>10, QueueStays DEF vars, quiescence, closures
<1> QED
  BY <1>1, <1>2, <1>3, <1>4, <1>5, <1>6, <1>7, <1>8, <1>9, <1>10

\* Every step keeps QueueInv.
LEMMA QueueStep ==
  ASSUME Abortable = {}, Types, RegistryInv, SafeInv, QueueInv, [Next]_vars
  PROVE  QueueInv'
<1>1. ~ResumeCancels /\ \A i \in Invocations : ~Abort(i)
  BY NoCancel
<1>2. CASE UNCHANGED vars
  BY <1>2, QueueOfRest
<1>3. CASE Synchronous
  BY <1>1, <1>3, QueueOfRuns, QueueOfStarts, QueueOfResume, QueueOfRest DEF Synchronous
<1>4. CASE Embedder
  BY <1>1, <1>4, QueueOfResume, QueueOfRest DEF Embedder
<1> QED
  BY <1>2, <1>3, <1>4, QueueOfRest DEF Next

\* No queued call is stranded: between jobs, unless the runtime is quiesced or terminated, a
\* queue that is not empty has a drainer at work (_kickClosureDrainer, the drainer's loop,
\* resume()), where no signal aborts an invocation.
THEOREM QueueHasDrainer ==
  ASSUME Abortable = {}
  PROVE  Spec => []QueueIsServed
<1>1. Init => Types /\ OrderInv /\ RegistryInv /\ SafeInv /\ QueueInv
  <2>1. Init => QueueInv
    BY DEF Init, QueueInv
  <2> QED
    BY <2>1, OrderInit, RegistryInit, SafeInit
<1>2. Types /\ OrderInv /\ RegistryInv /\ SafeInv /\ QueueInv /\ [Next]_vars
        => Types' /\ OrderInv' /\ RegistryInv' /\ SafeInv' /\ QueueInv'
  BY OrderStep, RegistryStep, SafeStep, QueueStep
<1>3. QueueInv => QueueIsServed
  BY NoKick DEF QueueInv, QueueIsServed, BetweenJobs
<1> QED
  BY <1>1, <1>2, <1>3, PTL DEF Spec

(***************************************************************************)
(* Ended contexts are reclaimed, and closure handles dropped.              *)
(***************************************************************************)
Undriven == \A s \in Slots : driving[s] = 0 => by[s] = <<"none", None>>

\* A parked call's duty is published at the end of its drive, for the context that it is in.
DutySlot(s) ==
  /\ cleanup[s].gen <= generation[s]
  /\ by[s][1] = "closure" =>
       /\ waiter[s] = None
       /\ IF phase[s] = "unwound" /\ result[s] \notin Terminal
            THEN cleanup[s] = [gen |-> driving[s], call |-> by[s][2]]
            ELSE cleanup[s].gen # driving[s]
  /\ exec[s] # "free" /\ cleanup[s].gen = generation[s] => waiter[s] = None
DutyInv ==
  /\ cleanup \in [Slots -> [gen : Nat, call : Calls \cup {None}]] /\ dropped \in [Calls -> BOOLEAN]
  /\ Undriven /\ \A s \in Slots : DutySlot(s)
  /\ \A j \in jobs : j.by[1] = "closure" /\ j.result \in Terminal /\ Live(j.slot, j.gen) =>
       cleanup[j.slot].gen # j.gen
  /\ DutyIsHeld

\* A drive is somebody's who frees its context, when it ends.
Reclaimers == {"invoke", "background", "closure"}
ReclaimSlot(s) ==
  /\ s # Root /\ driving[s] # 0 => by[s][1] \in Reclaimers
  /\ exec[s] = "paused" => InLoop(s)
  /\ by[s][1] = "invoke" => waiter[s] = by[s][2]
  /\ result[s] # "terminated"
ReclaimInv ==
  /\ Undriven /\ \A s \in Slots : ReclaimSlot(s)
  /\ \A j \in jobs : /\ j.result # "terminated"
                     /\ j.by[1] = "invoke" /\ Live(j.slot, j.gen) => waiter[j.slot] = j.by[2]
  /\ FinishedIsReclaimed

Reclaims == "decline" \notin FuelHooks
CareInv == ~terminated => DutyInv /\ (Reclaims => ReclaimInv)

\* A context that is there stays, or its slot was free and holds a later one.
ContextKept(s) ==
  \/ generation'[s] = generation[s] /\ (exec'[s] = "free" <=> exec[s] = "free") /\ waiter'[s] = waiter[s]
  \/ exec[s] = "free" /\ generation[s] < generation'[s]
\* A drive that is there stays; one that starts is not a closure call's.
DriveKept(s) ==
  \/ driving'[s] = driving[s] /\ by'[s] = by[s]
  \/ /\ driving[s] = 0 /\ driving'[s] # 0 /\ by'[s][1] # "closure"
     /\ Reclaims => /\ s # Root => by'[s][1] \in Reclaimers
                    /\ by'[s][1] = "invoke" => waiter'[s] = by'[s][2]
EndKept(s) ==
  /\ phase'[s] = "unwound" <=> phase[s] = "unwound"
  /\ phase[s] = "unwound" => result'[s] = result[s]
  /\ result'[s] = result[s] \/ result'[s] # "terminated"
  /\ exec'[s] \in {"done", "failed"} => Ended(s) \/ InLoop(s)
  /\ Reclaims /\ exec'[s] = "paused" =>
       phase'[s] \in {"loop", "hook"} \/ (exec[s] = "paused" /\ phase'[s] = phase[s])

\* A free slot has no drive, and a drive a context of its own.
LEMMA DriveHere ==
  ASSUME Types, SafeInv, NEW s \in Slots
  PROVE  /\ generation[s] \in Nat /\ driving[s] \in Nat
         /\ exec[s] # "free" => generation[s] # 0
         /\ driving[s] # 0 => driving[s] = generation[s] /\ exec[s] # "free"
         /\ driving[s] = 0 <=> phase[s] = "none"
         /\ InLoop(s) => driving[s] # 0
BY DEF Types, ContextTypes, DriveTypes, SafeInv, DriveInv, SlotDriven, InLoop

\* A context that had a job's generation, after a step that keeps contexts.
LEMMA LiveKept ==
  ASSUME Types, Types', RegistryInv, \A s \in Slots : ContextKept(s),
         NEW j \in jobs, Live(j.slot, j.gen)'
  PROVE  /\ j.slot \in Slots /\ Live(j.slot, j.gen)
         /\ generation'[j.slot] = generation[j.slot] /\ waiter'[j.slot] = waiter[j.slot]
<1>1. PICK s \in Slots : s = j.slot
  BY DEF Types, DriveTypes, Jobs
<1>2. j.gen <= generation[s] /\ generation[s] \in Nat /\ generation'[s] \in Nat /\ j.gen \in Nat
  BY <1>1 DEF RegistryInv, NamesOfThePast, Types, ContextTypes, DriveTypes, Jobs
<1>3. generation'[s] = j.gen /\ exec'[s] # "free"
  BY <1>1 DEF Live
<1>4. generation'[s] = generation[s] /\ exec[s] # "free" /\ waiter'[s] = waiter[s]
  BY <1>2, <1>3 DEF ContextKept
<1> QED
  BY <1>1, <1>3, <1>4 DEF Live

\* Contexts and drives that stay as they were, drives that start, contexts that are allocated.
LEMMA CareStays ==
  ASSUME Types, Types', RegistryInv, SafeInv, CareInv,
         UNCHANGED <<jobs, cleanup>>, ~terminated' => ~terminated,
         dropped' = dropped \/ \E c \in Calls : dropped' = [dropped EXCEPT ![c] = TRUE],
         \A c \in Calls : delivery'[c] = "marshaled" => delivery[c] = "marshaled",
         \A s \in Slots : ContextKept(s) /\ DriveKept(s) /\ EndKept(s)
  PROVE  CareInv'
<1> SUFFICES ASSUME ~terminated'
             PROVE  DutyInv' /\ (Reclaims => ReclaimInv')
  BY DEF CareInv, Reclaims
<1>1. DutyInv /\ (Reclaims => ReclaimInv) /\ ~terminated
  BY DEF CareInv
<1>2. \A s \in Slots : /\ generation[s] \in Nat /\ generation'[s] \in Nat /\ cleanup[s].gen \in Nat
                       /\ driving[s] \in Nat /\ driving'[s] \in Nat
  BY <1>1 DEF Types, ContextTypes, DriveTypes, DutyInv
<1>3. Undriven'
  BY <1>1 DEF Undriven, DutyInv, DriveKept
<1>10. dropped' \in [Calls -> BOOLEAN] /\ \A c \in Calls : dropped[c] => dropped'[c]
  BY <1>1 DEF DutyInv
\* A drive that stays has its context, which stays too.
<1>4. ASSUME NEW s \in Slots, driving[s] # 0
      PROVE  /\ driving'[s] = driving[s] /\ by'[s] = by[s] /\ driving[s] = generation[s]
             /\ exec[s] # "free" /\ exec'[s] # "free"
             /\ generation'[s] = generation[s] /\ waiter'[s] = waiter[s]
  BY <1>4, DriveHere DEF DriveKept, ContextKept
<1>5. ASSUME NEW s \in Slots
      PROVE  DutySlot(s)'
  <2>1. DutySlot(s) /\ ContextKept(s) /\ DriveKept(s) /\ EndKept(s)
    BY <1>1 DEF DutyInv
  <2>2. cleanup'[s].gen <= generation'[s]
    BY <1>2, <2>1 DEF DutySlot, ContextKept
  <2>3. ASSUME by'[s][1] = "closure"
        PROVE  by[s] = by'[s] /\ driving[s] # 0
    <3>1. by'[s] = by[s]
      BY <2>1, <2>3 DEF DriveKept
    <3>2. driving[s] # 0
      BY <1>1, <2>3, <3>1 DEF DutyInv, Undriven
    <3> QED
      BY <3>1, <3>2
  <2>4. by'[s][1] = "closure" => /\ by[s] = by'[s] /\ driving'[s] = driving[s] /\ waiter'[s] = waiter[s]
                                 /\ phase'[s] = "unwound" <=> phase[s] = "unwound"
                                 /\ phase[s] = "unwound" => result'[s] = result[s]
    BY <1>4, <2>1, <2>3 DEF EndKept
  <2>5. by'[s][1] = "closure" =>
          /\ waiter'[s] = None
          /\ IF phase'[s] = "unwound" /\ result'[s] \notin Terminal
               THEN cleanup[s] = [gen |-> driving'[s], call |-> by'[s][2]]
               ELSE cleanup[s].gen # driving'[s]
    BY <2>1, <2>4 DEF DutySlot
  <2>6. exec'[s] # "free" /\ cleanup[s].gen = generation'[s] => waiter'[s] = None
    BY <1>2, <2>1 DEF DutySlot, ContextKept
  <2> QED
    BY <2>2, <2>5, <2>6 DEF DutySlot
<1>6. ASSUME NEW j \in jobs', j.by[1] = "closure", j.result \in Terminal, Live(j.slot, j.gen)'
      PROVE  cleanup'[j.slot].gen # j.gen
  BY <1>1, <1>6, LiveKept DEF DutyInv
<1>7. DutyIsHeld'
  <2> SUFFICES ASSUME NEW c \in Calls, delivery'[c] = "marshaled", ~dropped'[c]
               PROVE  \/ \E j \in jobs' : j.by = <<"closure", c>> /\ j.result \in Terminal
                      \/ \E s \in Slots : exec'[s] # "free" /\ driving'[s] = generation'[s]
                                          /\ by'[s] = <<"closure", c>>
                      \/ \E s \in Slots : exec'[s] # "free"
                                          /\ cleanup'[s] = [gen |-> generation'[s], call |-> c]
    BY DEF DutyIsHeld
  <2>1. \/ \E j \in jobs : j.by = <<"closure", c>> /\ j.result \in Terminal
        \/ \E s \in Slots : exec[s] # "free" /\ driving[s] = generation[s]
                            /\ by[s] = <<"closure", c>>
        \/ \E s \in Slots : exec[s] # "free"
                            /\ cleanup[s] = [gen |-> generation[s], call |-> c]
    BY <1>1, <1>10 DEF DutyInv, DutyIsHeld
  <2>2. ASSUME NEW s \in Slots, exec[s] # "free", driving[s] = generation[s], by[s] = <<"closure", c>>
        PROVE  exec'[s] # "free" /\ driving'[s] = generation'[s] /\ by'[s] = <<"closure", c>>
    BY <1>4, <2>2, DriveHere
  <2>3. ASSUME NEW s \in Slots, exec[s] # "free"
        PROVE  exec'[s] # "free" /\ generation'[s] = generation[s]
    BY <2>3 DEF ContextKept
  <2> QED
    BY <2>1, <2>2, <2>3
<1>8. DutyInv'
  BY <1>1, <1>3, <1>5, <1>6, <1>7, <1>10 DEF DutyInv
<1>9. ASSUME Reclaims PROVE ReclaimInv'
  <2>1. \A s \in Slots : ReclaimSlot(s)'
    <3> SUFFICES ASSUME NEW s \in Slots PROVE ReclaimSlot(s)'
      OBVIOUS
    <3>1. ReclaimSlot(s) /\ ContextKept(s) /\ DriveKept(s) /\ EndKept(s)
      BY <1>1, <1>9 DEF ReclaimInv
    <3>2. s # Root /\ driving'[s] # 0 => by'[s][1] \in Reclaimers
      BY <1>9, <3>1 DEF ReclaimSlot, DriveKept
    <3>3. by'[s][1] = "invoke" => waiter'[s] = by'[s][2]
      <4>1. CASE driving'[s] = driving[s] /\ by'[s] = by[s]
        <5>1. by[s][1] = "invoke" => driving[s] # 0
          BY <1>1 DEF DutyInv, Undriven
        <5> QED
          BY <1>4, <3>1, <4>1, <5>1 DEF ReclaimSlot
      <4> QED
        BY <1>9, <3>1, <4>1 DEF DriveKept
    <3>4. exec'[s] = "paused" => InLoop(s)'
      BY <1>9, <3>1 DEF EndKept, InLoop, ReclaimSlot
    <3>5. result'[s] # "terminated"
      BY <3>1 DEF ReclaimSlot, EndKept
    <3> QED
      BY <3>2, <3>3, <3>4, <3>5 DEF ReclaimSlot
  <2>2. ASSUME NEW j \in jobs'
        PROVE  /\ j.result # "terminated"
               /\ j.by[1] = "invoke" /\ Live(j.slot, j.gen)' => waiter'[j.slot] = j.by[2]
    BY <1>1, <1>9, LiveKept DEF ReclaimInv
  <2>3. FinishedIsReclaimed'
    <3> SUFFICES ASSUME NEW s \in Slots \ {Root}, exec'[s] \in {"done", "failed"}
                 PROVE  \/ driving'[s] = generation'[s] /\ by'[s][1] \in {"invoke", "background", "closure"}
                        \/ \E j \in jobs' : j.slot = s /\ j.gen = generation'[s] /\ j.result \in Terminal
      BY DEF FinishedIsReclaimed
    <3>1. Ended(s) \/ InLoop(s)
      BY DEF EndKept
    <3>2. exec[s] # "free"
      BY <3>1, DriveHere DEF Ended
    <3>3. generation'[s] = generation[s]
      BY <3>2 DEF ContextKept
    <3>4. \/ driving[s] = generation[s] /\ by[s][1] \in Reclaimers
          \/ \E j \in jobs : j.slot = s /\ j.gen = generation[s] /\ j.result \in Terminal
      <4>1. CASE InLoop(s)
        BY <1>1, <1>9, <4>1, DriveHere DEF ReclaimInv, ReclaimSlot
      <4>2. CASE Ended(s)
        BY <1>1, <1>9, <4>2 DEF ReclaimInv, FinishedIsReclaimed, Ended, Reclaimers
      <4> QED
        BY <3>1, <4>1, <4>2
    <3>5. driving[s] = generation[s] => driving'[s] = generation'[s] /\ by'[s] = by[s]
      BY <1>4, <3>2, DriveHere
    <3> QED
      BY <3>3, <3>4, <3>5 DEF Reclaimers
  <2> QED
    BY <1>3, <2>1, <2>2, <2>3 DEF ReclaimInv
<1> QED
  BY <1>8, <1>9

\* A drive's .then publishes the duty of a call that parked.
LEMMA CareOfThen ==
  ASSUME Types, Types', RegistryInv, SafeInv, CareInv, NEW s \in Slots, DriveThen(s)
  PROVE  CareInv'
<1> SUFFICES ASSUME ~terminated'
             PROVE  DutyInv' /\ (Reclaims => ReclaimInv')
  BY DEF CareInv, Reclaims
<1>1. /\ phase[s] = "returned" /\ phase' = [phase EXCEPT ![s] = "unwound"]
      /\ cleanup' = IF by[s][1] = "closure" /\ result[s] \in Parked
                      THEN [cleanup EXCEPT ![s] = [gen |-> driving[s], call |-> by[s][2]]]
                      ELSE cleanup
      /\ UNCHANGED <<generation, exec, waiter, driving, by, result, jobs, delivery, dropped, terminated>>
  BY DEF DriveThen, context, invokes
<1>2. DutyInv /\ (Reclaims => ReclaimInv) /\ ~terminated
  BY <1>1 DEF CareInv
<1>3. /\ driving[s] # 0 /\ driving[s] = generation[s] /\ exec[s] # "free" /\ driving[s] \in Nat
      /\ result[s] \in Terminal \cup Parked
  <2>1. SlotWoken(s)
    BY <1>2 DEF SafeInv, WakeInv
  <2> QED
    BY <1>1, <2>1, DriveHere DEF SlotWoken
<1>4. \A r : r \in Terminal => r \notin Parked
  BY DEF Terminal, Parked
<1>5. by[s][1] = "closure" => /\ by[s] = <<"closure", by[s][2]>> /\ by[s][2] \in Calls
                              /\ waiter[s] = None /\ cleanup[s].gen # driving[s]
  <2>1. by[s] \in Drivers /\ DutySlot(s)
    BY <1>2 DEF Types, DriveTypes, DutyInv
  <2> QED
    BY <1>1, <2>1, WhoDrives DEF DutySlot
<1>6. /\ phase'[s] = "unwound" /\ \A t \in Slots : t # s => phase'[t] = phase[t] /\ cleanup'[t] = cleanup[t]
      /\ cleanup' \in [Slots -> [gen : Nat, call : Calls \cup {None}]]
      /\ cleanup'[s] = IF by[s][1] = "closure" /\ result[s] \in Parked
                         THEN [gen |-> driving[s], call |-> by[s][2]] ELSE cleanup[s]
  <2>1. cleanup \in [Slots -> [gen : Nat, call : Calls \cup {None}]] /\ phase \in [Slots -> Phases]
    BY <1>2 DEF DutyInv, Types, DriveTypes
  <2> QED
    BY <1>1, <1>3, <1>5, <2>1
<1>7. ASSUME NEW t \in Slots PROVE DutySlot(t)'
  <2>1. DutySlot(t) /\ generation[t] \in Nat
    BY <1>2 DEF DutyInv, Types, ContextTypes
  <2>2. CASE t # s
    BY <1>1, <1>6, <2>1, <2>2 DEF DutySlot
  <2>3. CASE t = s
    BY <1>1, <1>3, <1>4, <1>5, <1>6, <2>1, <2>3 DEF DutySlot
  <2> QED
    BY <2>2, <2>3
<1>8. ASSUME NEW j \in jobs', j.by[1] = "closure", j.result \in Terminal, Live(j.slot, j.gen)'
      PROVE  cleanup'[j.slot].gen # j.gen
  <2>1. j \in jobs /\ Live(j.slot, j.gen) /\ j.slot \in Slots
    BY <1>1, <1>8 DEF Live, Types, DriveTypes, Jobs
  <2>2. driving[j.slot] = 0
    BY <1>8, <2>1 DEF SafeInv, DriveInv, EndsDriveNothing
  <2> QED
    BY <1>2, <1>3, <1>6, <1>8, <2>1, <2>2 DEF DutyInv
<1>9. DutyIsHeld'
  <2> SUFFICES ASSUME NEW c \in Calls, delivery'[c] = "marshaled", ~dropped'[c]
               PROVE  \/ \E j \in jobs' : j.by = <<"closure", c>> /\ j.result \in Terminal
                      \/ \E t \in Slots : exec'[t] # "free" /\ driving'[t] = generation'[t]
                                          /\ by'[t] = <<"closure", c>>
                      \/ \E t \in Slots : exec'[t] # "free"
                                          /\ cleanup'[t] = [gen |-> generation'[t], call |-> c]
    BY DEF DutyIsHeld
  <2>1. \/ \E j \in jobs : j.by = <<"closure", c>> /\ j.result \in Terminal
        \/ \E t \in Slots : exec[t] # "free" /\ driving[t] = generation[t]
                            /\ by[t] = <<"closure", c>>
        \/ \E t \in Slots : exec[t] # "free"
                            /\ cleanup[t] = [gen |-> generation[t], call |-> c]
    BY <1>1, <1>2 DEF DutyInv, DutyIsHeld
  <2>2. ASSUME NEW t \in Slots, cleanup[t] = [gen |-> generation[t], call |-> c]
        PROVE  cleanup'[t] = cleanup[t]
    BY <1>3, <1>5, <1>6, <2>2
  <2> QED
    BY <1>1, <2>1, <2>2
<1>10. DutyInv'
  <2>1. Undriven' /\ dropped' \in [Calls -> BOOLEAN]
    BY <1>1, <1>2 DEF Undriven, DutyInv
  <2> QED
    BY <1>6, <1>7, <1>8, <1>9, <2>1 DEF DutyInv
<1>11. ASSUME Reclaims PROVE ReclaimInv'
  <2>1. ReclaimInv
    BY <1>2, <1>11
  <2>2. \A t \in Slots : ReclaimSlot(t)'
    <3> SUFFICES ASSUME NEW t \in Slots PROVE ReclaimSlot(t)'
      OBVIOUS
    <3>1. ReclaimSlot(t)
      BY <2>1 DEF ReclaimInv
    <3>2. exec'[t] = "paused" => InLoop(t)'
      BY <1>1, <1>6, <3>1 DEF ReclaimSlot, InLoop
    <3> QED
      BY <1>1, <3>1, <3>2 DEF ReclaimSlot
  <2>3. FinishedIsReclaimed'
    BY <1>1, <2>1 DEF ReclaimInv, FinishedIsReclaimed
  <2> QED
    BY <1>1, <2>1, <2>2, <2>3 DEF ReclaimInv, Undriven, Live
<1> QED
  BY <1>10, <1>11

\* What a drive leaves to do.
LEMMA Continues ==
  ASSUME NEW who, NEW s, NEW g, NEW r
  PROVE  LET j == [by |-> who, slot |-> s, gen |-> g, result |-> r]
         IN /\ Continuation(who, s, g, r) \subseteq {j}
            /\ j \in Continuation(who, s, g, r) <=>
                 who[1] = "closure" \/ (who[1] \in Reclaimers /\ r \in Terminal)
            /\ j.by = who /\ j.slot = s /\ j.gen = g /\ j.result = r
BY DEF Continuation, Reclaimers

\* A drive's .finally leaves its continuation, or the duty it has published.
LEMMA CareOfFinally ==
  ASSUME Types, Types', RegistryInv, SafeInv, CareInv, NEW s \in Slots, DriveFinally(s)
  PROVE  CareInv'
<1> SUFFICES ASSUME ~terminated'
             PROVE  DutyInv' /\ (Reclaims => ReclaimInv')
  BY DEF CareInv, Reclaims
<1>1. /\ phase[s] = "unwound" /\ driving' = [driving EXCEPT ![s] = 0]
      /\ phase' = [phase EXCEPT ![s] = "none"] /\ result' = [result EXCEPT ![s] = "none"]
      /\ by' = [by EXCEPT ![s] = <<"none", None>>]
      /\ jobs' = jobs \cup Continuation(by[s], s, driving[s], result[s])
      /\ UNCHANGED <<generation, exec, waiter, cleanup, delivery, dropped, terminated>>
  BY DEF DriveFinally, context, invokes, closures
<1>2. DutyInv /\ (Reclaims => ReclaimInv) /\ ~terminated
  BY <1>1 DEF CareInv
<1>3. /\ driving[s] # 0 /\ driving[s] = generation[s] /\ exec[s] # "free"
      /\ result[s] \in Terminal <=> Ended(s)
  <2>1. SlotWoken(s)
    BY <1>2 DEF SafeInv, WakeInv
  <2> QED
    BY <1>1, <2>1, DriveHere DEF SlotWoken
<1> DEFINE end == [by |-> by[s], slot |-> s, gen |-> driving[s], result |-> result[s]]
<1>12. /\ Continuation(by[s], s, driving[s], result[s]) \subseteq {end}
       /\ end \in Continuation(by[s], s, driving[s], result[s]) <=>
            by[s][1] = "closure" \/ (by[s][1] \in Reclaimers /\ result[s] \in Terminal)
       /\ end.by = by[s] /\ end.slot = s /\ end.gen = driving[s] /\ end.result = result[s]
  BY Continues
<1> HIDE DEF end
<1>4. PICK j : /\ j = end
               /\ jobs \subseteq jobs' /\ jobs' \subseteq jobs \cup {j}
               /\ j \in jobs' \/ ~(by[s][1] = "closure" \/ (by[s][1] \in Reclaimers /\ result[s] \in Terminal))
               /\ j.by = by[s] /\ j.slot = s /\ j.gen = driving[s] /\ j.result = result[s]
  BY <1>1, <1>12
<1>5. /\ driving'[s] = 0 /\ by'[s] = <<"none", None>> /\ phase'[s] = "none" /\ result'[s] = "none"
      /\ \A t \in Slots : t # s => /\ driving'[t] = driving[t] /\ by'[t] = by[t]
                                   /\ phase'[t] = phase[t] /\ result'[t] = result[t]
  BY <1>1 DEF Types, DriveTypes
<1>6. ASSUME NEW t \in Slots PROVE DutySlot(t)'
  <2>1. DutySlot(t)
    BY <1>2 DEF DutyInv
  <2>2. CASE t # s
    BY <1>1, <1>5, <2>1, <2>2 DEF DutySlot
  <2>3. CASE t = s
    BY <1>1, <1>5, <2>1, <2>3 DEF DutySlot
  <2> QED
    BY <2>2, <2>3
<1>7. DutySlot(s)
  BY <1>2 DEF DutyInv
<1>8. ASSUME NEW k \in jobs', k.by[1] = "closure", k.result \in Terminal, Live(k.slot, k.gen)'
      PROVE  cleanup'[k.slot].gen # k.gen
  <2>1. CASE k = j
    BY <1>1, <1>4, <1>7, <1>8, <2>1 DEF DutySlot
  <2>2. CASE k \in jobs
    BY <1>1, <1>2, <1>8, <2>2 DEF DutyInv, Live
  <2> QED
    BY <1>4, <2>1, <2>2
<1>9. DutyIsHeld'
  <2> SUFFICES ASSUME NEW c \in Calls, delivery'[c] = "marshaled", ~dropped'[c]
               PROVE  \/ \E k \in jobs' : k.by = <<"closure", c>> /\ k.result \in Terminal
                      \/ \E t \in Slots : exec'[t] # "free" /\ driving'[t] = generation'[t]
                                          /\ by'[t] = <<"closure", c>>
                      \/ \E t \in Slots : exec'[t] # "free"
                                          /\ cleanup'[t] = [gen |-> generation'[t], call |-> c]
    BY DEF DutyIsHeld
  <2>1. \/ \E k \in jobs : k.by = <<"closure", c>> /\ k.result \in Terminal
        \/ \E t \in Slots : exec[t] # "free" /\ driving[t] = generation[t]
                            /\ by[t] = <<"closure", c>>
        \/ \E t \in Slots : exec[t] # "free"
                            /\ cleanup[t] = [gen |-> generation[t], call |-> c]
    BY <1>1, <1>2 DEF DutyInv, DutyIsHeld
  <2>2. CASE by[s] = <<"closure", c>>
    <3>1. by[s][1] = "closure" /\ by[s][2] = c
      BY <2>2
    <3>2. CASE result[s] \in Terminal
      BY <1>4, <2>2, <3>1, <3>2
    <3>3. CASE result[s] \notin Terminal
      BY <1>1, <1>3, <1>7, <3>1, <3>3 DEF DutySlot
    <3> QED
      BY <3>2, <3>3
  <2> QED
    BY <1>1, <1>4, <1>5, <2>1, <2>2
<1>10. DutyInv'
  <2>1. Undriven' /\ dropped' \in [Calls -> BOOLEAN]
    BY <1>1, <1>2, <1>5 DEF Undriven, DutyInv
  <2> QED
    BY <1>1, <1>2, <1>6, <1>8, <1>9, <2>1 DEF DutyInv
<1>11. ASSUME Reclaims PROVE ReclaimInv'
  <2>1. ReclaimInv /\ ReclaimSlot(s)
    BY <1>2, <1>11 DEF ReclaimInv
  <2>2. \A t \in Slots : ReclaimSlot(t)'
    <3> SUFFICES ASSUME NEW t \in Slots PROVE ReclaimSlot(t)'
      OBVIOUS
    <3>1. ReclaimSlot(t)
      BY <2>1 DEF ReclaimInv
    <3>2. exec'[t] = "paused" => InLoop(t)'
      BY <1>1, <1>5, <3>1 DEF ReclaimSlot, InLoop
    <3> QED
      BY <1>1, <1>5, <3>1, <3>2 DEF ReclaimSlot
  <2>3. ASSUME NEW k \in jobs'
        PROVE  /\ k.result # "terminated"
               /\ k.by[1] = "invoke" /\ Live(k.slot, k.gen)' => waiter'[k.slot] = k.by[2]
    BY <1>1, <1>4, <2>1 DEF ReclaimInv, ReclaimSlot, Live
  <2>4. FinishedIsReclaimed'
    <3> SUFFICES ASSUME NEW t \in Slots \ {Root}, exec'[t] \in {"done", "failed"}
                 PROVE  \/ driving'[t] = generation'[t] /\ by'[t][1] \in {"invoke", "background", "closure"}
                        \/ \E k \in jobs' : k.slot = t /\ k.gen = generation'[t] /\ k.result \in Terminal
      BY DEF FinishedIsReclaimed
    <3>1. \/ driving[t] = generation[t] /\ by[t][1] \in Reclaimers
          \/ \E k \in jobs : k.slot = t /\ k.gen = generation[t] /\ k.result \in Terminal
      BY <1>1, <1>2, <2>1 DEF ReclaimInv, FinishedIsReclaimed, Reclaimers
    <3>2. CASE t = s /\ driving[t] = generation[t] /\ by[t][1] \in Reclaimers
      <4>1. result[s] \in Terminal
        BY <1>1, <1>3, <3>2 DEF Ended
      <4> QED
        BY <1>1, <1>4, <3>2, <4>1
    <3> QED
      BY <1>1, <1>4, <1>5, <3>1, <3>2 DEF Reclaimers
  <2> QED
    BY <1>1, <1>2, <1>5, <2>1, <2>2, <2>3, <2>4 DEF ReclaimInv, Undriven
<1> QED
  BY <1>10, <1>11

\* What a continuation frees, settles and drops.
LEMMA EndOf ==
  ASSUME Types, RegistryInv, SafeInv, DutyInv, ~terminated, Continue
  PROVE  \E j \in jobs :
           /\ jobs' = jobs \ {j} /\ j.slot \in Slots
           /\ \A t \in Slots : \/ exec'[t] = exec[t]
                               \/ /\ t = j.slot /\ exec'[t] = "free" /\ Live(t, j.gen) /\ j.result \in Terminal
                                  /\ cleanup[t].gen = generation[t] /\ cleanup[t].call \in Calls =>
                                       dropped'[cleanup[t].call]
           /\ \A t \in Slots : \/ waiter'[t] = waiter[t]
                               \/ /\ t = j.slot /\ waiter'[t] = None /\ Live(t, j.gen)
                                  /\ j.result = "terminated" \/ exec'[t] = "free"
           /\ \A t \in Slots : \/ cleanup'[t] = cleanup[t]
                               \/ /\ t = j.slot /\ cleanup'[t] = NoDuty /\ cleanup[t].gen = j.gen
                                  /\ cleanup[t].call \in Calls => dropped'[cleanup[t].call]
                                  /\ j.result \in Terminal
           /\ cleanup' \in [Slots -> [gen : Nat, call : Calls \cup {None}]]
           /\ dropped' \in [Calls -> BOOLEAN] /\ \A c \in Calls : dropped[c] => dropped'[c]
           /\ j.by[1] = "closure" /\ j.result \in Terminal /\ j.by[2] \in Calls => dropped'[j.by[2]]
           /\ Live(j.slot, j.gen) /\ j.result \in Terminal /\ j.result # "terminated"
                /\ (j.by[1] = "invoke" => waiter[j.slot] = j.by[2]) =>
                exec'[j.slot] = "free"
<1>1. PICK j \in jobs :
        /\ jobs' = jobs \ {j}
        /\ \/ /\ j.by[1] = "invoke" /\ InvokeContinues(j)
              /\ UNCHANGED <<dropped, cleanup, drainer>>
           \/ /\ j.by[1] = "background" /\ BackgroundContinues(j)
              /\ UNCHANGED <<inv, waiter, deferredWakes, drainer>>
           \/ /\ j.by[1] = "closure" /\ ClosureContinues(j)
              /\ UNCHANGED <<inv, waiter, deferredWakes, cleanup>>
  BY DEF Continue
<1>2. PICK s \in Slots, g \in Nat : s = j.slot /\ g = j.gen
  BY DEF Types, DriveTypes, Jobs
<1>3. /\ j.by \in Drivers
      /\ j.by[1] = "closure" \/ j.result \in Terminal
      /\ exec \in [Slots -> Execs] /\ waiter \in [Slots -> Invocations \cup {None}]
      /\ cleanup \in [Slots -> [gen : Nat, call : Calls \cup {None}]] /\ dropped \in [Calls -> BOOLEAN]
  BY DEF Types, DriveTypes, ContextTypes, InvokeTypes, Jobs, DutyInv, SafeInv, DriveInv, EndsDriveNothing
<1>4. NoDuty \in [gen : Nat, call : Calls \cup {None}]
  BY DEF NoDuty
<1>5. j.by[1] = "invoke" => /\ slotOf[j.by[2]] = s /\ genOf[j.by[2]] = g
                            /\ j.by[2] \in Invocations /\ j.by[2] # None
  <2>1. j.by[1] = "invoke" => j.by[2] \in Invocations
    BY <1>3, WhoDrives
  <2>2. \A i \in Invocations : i # None
    BY SchedulerAssumption
  <2>3. j.by[1] = "invoke" => slotOf[j.by[2]] = s /\ genOf[j.by[2]] = g
    BY <1>2 DEF SafeInv, DriveInv, OwnersAgree
  <2> QED
    BY <2>1, <2>2, <2>3
<1>6. Live(s, g) => generation[s] = g /\ exec[s] # "free"
  BY DEF Live
<1>7. /\ cleanup[s].gen \in Nat /\ cleanup[s].call \in Calls \cup {None}
      /\ exec[s] # "free" /\ cleanup[s].gen = generation[s] => waiter[s] = None
  BY <1>3 DEF DutyInv, DutySlot
<1>8. CASE j.by[1] = "invoke" /\ InvokeContinues(j) /\ UNCHANGED <<dropped, cleanup>>
  <2>1. PICK i : i = j.by[2] /\ i # None /\ slotOf[i] = s /\ genOf[i] = g
    BY <1>5, <1>8
  <2>2. CASE ~OwnsSlot(i)
    <3>1. UNCHANGED <<waiter, exec>> /\ waiter[s] # i
      <4>1. slotOf[i] # -1
        BY <1>2, <2>1, SchedulerAssumption DEF Slots
      <4> QED
        BY <1>8, <2>1, <2>2, <4>1 DEF InvokeContinues, OwnsSlot
    <3> QED
      BY <1>1, <1>2, <1>3, <1>8, <2>1, <3>1
  <2>3. CASE OwnsSlot(i)
    <3>1. waiter[s] = i /\ Live(s, g)
      BY <1>2, <2>1, <2>3 DEF OwnsSlot, RegistryInv, OwnerRegistry, Live
    <3>2. /\ waiter' = [waiter EXCEPT ![s] = None]
          /\ IF j.result = "terminated" THEN UNCHANGED exec ELSE exec' = [exec EXCEPT ![s] = "free"]
      BY <1>8, <2>1, <2>3, <3>1 DEF InvokeContinues, FreeIfLive
    <3>3. cleanup[s].gen # generation[s]
      BY <1>6, <1>7, <2>1, <3>1
    <3>4. /\ waiter'[s] = None /\ \A t \in Slots : t # s => waiter'[t] = waiter[t] /\ exec'[t] = exec[t]
          /\ IF j.result = "terminated" THEN exec'[s] = exec[s] ELSE exec'[s] = "free"
      BY <1>3, <3>2
    <3> QED
      BY <1>1, <1>2, <1>3, <1>8, <3>1, <3>3, <3>4
  <2> QED
    BY <2>2, <2>3
<1>9. /\ FreeIfLive(j.slot, j.gen) =>
         /\ \A t \in Slots : t # s => exec'[t] = exec[t]
         /\ IF Live(s, g) THEN exec'[s] = "free" ELSE exec'[s] = exec[s]
  BY <1>2, <1>3 DEF FreeIfLive
<1>10. CASE j.by[1] = "background" /\ BackgroundContinues(j) /\ UNCHANGED waiter
  <2>1. FreeIfLive(j.slot, j.gen) /\ j.result \in Terminal
    BY <1>3, <1>10 DEF BackgroundContinues
  <2>2. CASE cleanup[s].gen = g
    <3>1. /\ dropped' = [dropped EXCEPT ![cleanup[s].call] = TRUE]
          /\ cleanup' = [cleanup EXCEPT ![s] = NoDuty]
      BY <1>2, <1>10, <2>2 DEF BackgroundContinues
    <3>2. /\ cleanup'[s] = NoDuty /\ \A t \in Slots : t # s => cleanup'[t] = cleanup[t]
          /\ cleanup' \in [Slots -> [gen : Nat, call : Calls \cup {None}]]
          /\ dropped' \in [Calls -> BOOLEAN] /\ \A c \in Calls : dropped[c] => dropped'[c]
          /\ cleanup[s].call \in Calls => dropped'[cleanup[s].call]
      BY <1>3, <1>4, <3>1
    <3> QED
      BY <1>1, <1>2, <1>3, <1>9, <1>10, <2>1, <2>2, <3>2
  <2>3. CASE cleanup[s].gen # g
    <3>1. UNCHANGED <<dropped, cleanup>>
      BY <1>2, <1>10, <2>3 DEF BackgroundContinues
    <3>2. Live(s, g) => cleanup[s].gen # generation[s]
      BY <1>6, <2>3
    <3> QED
      BY <1>1, <1>2, <1>3, <1>9, <1>10, <2>1, <3>1, <3>2
  <2> QED
    BY <2>2, <2>3
<1>11. CASE j.by[1] = "closure" /\ ClosureContinues(j) /\ UNCHANGED <<waiter, cleanup>>
  <2>1. CASE j.result \in Terminal
    <3>1. FreeIfLive(j.slot, j.gen) /\ dropped' = [dropped EXCEPT ![j.by[2]] = TRUE]
      BY <1>11, <2>1 DEF ClosureContinues
    <3>2. /\ dropped' \in [Calls -> BOOLEAN] /\ \A c \in Calls : dropped[c] => dropped'[c]
          /\ j.by[2] \in Calls => dropped'[j.by[2]]
      BY <1>3, <3>1
    <3>3. Live(s, g) => cleanup[s].gen # generation[s]
      BY <1>2, <1>6, <1>11, <2>1 DEF DutyInv
    <3> QED
      BY <1>1, <1>2, <1>3, <1>9, <1>11, <2>1, <3>1, <3>2, <3>3
  <2>2. CASE j.result \notin Terminal
    <3>1. UNCHANGED <<exec, dropped>>
      BY <1>11, <2>2 DEF ClosureContinues
    <3> QED
      BY <1>1, <1>2, <1>3, <1>11, <2>2, <3>1
  <2> QED
    BY <2>1, <2>2
<1> QED
  BY <1>1, <1>8, <1>10, <1>11

\* A continuation frees no context that has a duty, and drops no duty without its handle.
LEMMA CareOfContinue ==
  ASSUME Types, Types', RegistryInv, SafeInv, CareInv, Continue
  PROVE  CareInv'
<1> SUFFICES ASSUME ~terminated'
             PROVE  DutyInv' /\ (Reclaims => ReclaimInv')
  BY DEF CareInv, Reclaims
<1>1. UNCHANGED <<generation, driving, by, phase, result, delivery, terminated>>
  BY DEF Continue
<1>2. DutyInv /\ (Reclaims => ReclaimInv) /\ ~terminated
  BY <1>1 DEF CareInv
<1>3. PICK j \in jobs :
        /\ jobs' = jobs \ {j} /\ j.slot \in Slots
        /\ \A t \in Slots : \/ exec'[t] = exec[t]
                            \/ /\ t = j.slot /\ exec'[t] = "free" /\ Live(t, j.gen) /\ j.result \in Terminal
                               /\ cleanup[t].gen = generation[t] /\ cleanup[t].call \in Calls =>
                                    dropped'[cleanup[t].call]
        /\ \A t \in Slots : \/ waiter'[t] = waiter[t]
                            \/ /\ t = j.slot /\ waiter'[t] = None /\ Live(t, j.gen)
                               /\ j.result = "terminated" \/ exec'[t] = "free"
        /\ \A t \in Slots : \/ cleanup'[t] = cleanup[t]
                            \/ /\ t = j.slot /\ cleanup'[t] = NoDuty /\ cleanup[t].gen = j.gen
                               /\ cleanup[t].call \in Calls => dropped'[cleanup[t].call]
                               /\ j.result \in Terminal
        /\ cleanup' \in [Slots -> [gen : Nat, call : Calls \cup {None}]]
        /\ dropped' \in [Calls -> BOOLEAN] /\ \A c \in Calls : dropped[c] => dropped'[c]
        /\ j.by[1] = "closure" /\ j.result \in Terminal /\ j.by[2] \in Calls => dropped'[j.by[2]]
        /\ Live(j.slot, j.gen) /\ j.result \in Terminal /\ j.result # "terminated"
             /\ (j.by[1] = "invoke" => waiter[j.slot] = j.by[2]) =>
             exec'[j.slot] = "free"
  BY <1>2, EndOf
\* The drive whose end this is has gone from the slot, if its context is still there.
<1>4. j.result \in Terminal /\ Live(j.slot, j.gen) => driving[j.slot] = 0
  BY DEF SafeInv, DriveInv, EndsDriveNothing
<1>5. \A t \in Slots : Live(t, j.gen) <=> exec[t] # "free" /\ generation[t] = j.gen
  BY DEF Live
<1>6. NoDuty.gen = 0
  BY DEF NoDuty
<1>7. ASSUME NEW t \in Slots PROVE DutySlot(t)'
  <2>1. DutySlot(t) /\ generation[t] \in Nat /\ cleanup[t].gen \in Nat
    BY <1>2 DEF DutyInv, Types, ContextTypes
  <2>2. cleanup'[t].gen <= generation'[t]
    BY <1>1, <1>3, <1>6, <2>1 DEF DutySlot
  <2>3. ASSUME by'[t][1] = "closure"
        PROVE  /\ waiter'[t] = None
               /\ IF phase'[t] = "unwound" /\ result'[t] \notin Terminal
                    THEN cleanup'[t] = [gen |-> driving'[t], call |-> by'[t][2]]
                    ELSE cleanup'[t].gen # driving'[t]
    <3>1. driving[t] # 0 /\ by[t][1] = "closure" /\ driving[t] = generation[t] /\ exec[t] # "free"
      BY <1>1, <1>2, <2>3, DriveHere DEF DutyInv, Undriven
    <3>2. waiter'[t] = None
      BY <1>3, <2>1, <3>1 DEF DutySlot
    <3>3. CASE cleanup'[t] = cleanup[t]
      BY <1>1, <2>1, <3>1, <3>2, <3>3 DEF DutySlot
    <3>4. CASE /\ t = j.slot /\ cleanup'[t] = NoDuty /\ cleanup[t].gen = j.gen /\ j.result \in Terminal
      <4>1. j.gen # generation[t]
        BY <1>4, <1>5, <3>1, <3>4
      <4>2. ~(phase[t] = "unwound" /\ result[t] \notin Terminal)
        BY <2>1, <3>1, <3>4, <4>1 DEF DutySlot
      <4> QED
        BY <1>1, <1>6, <3>1, <3>2, <3>4, <4>2
    <3> QED
      BY <1>3, <3>3, <3>4
  <2>4. exec'[t] # "free" /\ cleanup'[t].gen = generation'[t] => waiter'[t] = None
    BY <1>1, <1>3, <1>6, <2>1, DriveHere DEF DutySlot
  <2> QED
    BY <2>2, <2>3, <2>4 DEF DutySlot
<1>8. ASSUME NEW k \in jobs', k.by[1] = "closure", k.result \in Terminal, Live(k.slot, k.gen)'
      PROVE  cleanup'[k.slot].gen # k.gen
  <2>1. k \in jobs /\ k.slot \in Slots
    BY <1>3 DEF Types, DriveTypes, Jobs
  <2>2. exec'[k.slot] # "free" /\ exec'[k.slot] = exec[k.slot] /\ generation[k.slot] = k.gen
    BY <1>1, <1>3, <1>8, <2>1 DEF Live
  <2>3. cleanup[k.slot].gen # k.gen /\ k.gen # 0
    BY <1>2, <1>8, <2>1, <2>2, DriveHere DEF DutyInv, Live
  <2> QED
    BY <1>3, <1>6, <2>1, <2>3
<1>9. DutyIsHeld'
  <2> SUFFICES ASSUME NEW c \in Calls, delivery'[c] = "marshaled", ~dropped'[c]
               PROVE  \/ \E k \in jobs' : k.by = <<"closure", c>> /\ k.result \in Terminal
                      \/ \E t \in Slots : exec'[t] # "free" /\ driving'[t] = generation'[t]
                                          /\ by'[t] = <<"closure", c>>
                      \/ \E t \in Slots : exec'[t] # "free"
                                          /\ cleanup'[t] = [gen |-> generation'[t], call |-> c]
    BY DEF DutyIsHeld
  <2>1. ~dropped[c]
    BY <1>3
  <2>2. \/ \E k \in jobs : k.by = <<"closure", c>> /\ k.result \in Terminal
        \/ \E t \in Slots : exec[t] # "free" /\ driving[t] = generation[t]
                            /\ by[t] = <<"closure", c>>
        \/ \E t \in Slots : exec[t] # "free"
                            /\ cleanup[t] = [gen |-> generation[t], call |-> c]
    BY <1>1, <1>2, <2>1 DEF DutyInv, DutyIsHeld
  <2>3. ASSUME NEW k \in jobs, k.by = <<"closure", c>>, k.result \in Terminal
        PROVE  k \in jobs'
    <3>1. k.by[1] = "closure" /\ k.by[2] = c
      BY <2>3
    <3> QED
      BY <1>3, <2>3, <3>1
  <2>4. ASSUME NEW t \in Slots, exec[t] # "free", driving[t] = generation[t]
        PROVE  exec'[t] # "free"
    <3>1. driving[t] # 0
      BY <2>4, DriveHere
    <3> QED
      BY <1>3, <1>4, <2>4, <3>1
  <2>5. ASSUME NEW t \in Slots, exec[t] # "free", cleanup[t] = [gen |-> generation[t], call |-> c]
        PROVE  exec'[t] # "free" /\ cleanup'[t] = cleanup[t]
    <3>1. cleanup[t].gen = generation[t] /\ cleanup[t].call = c
      BY <2>5
    <3> QED
      BY <1>3, <2>5, <3>1
  <2> QED
    BY <1>1, <2>2, <2>3, <2>4, <2>5
<1>10. DutyInv'
  <2>1. Undriven'
    BY <1>1, <1>2 DEF Undriven, DutyInv
  <2> QED
    BY <1>3, <1>7, <1>8, <1>9, <2>1 DEF DutyInv
<1>11. ASSUME Reclaims PROVE ReclaimInv'
  <2>1. ReclaimInv /\ j.result # "terminated"
    BY <1>2, <1>11 DEF ReclaimInv
  <2>2. \A t \in Slots : ReclaimSlot(t)'
    <3> SUFFICES ASSUME NEW t \in Slots PROVE ReclaimSlot(t)'
      OBVIOUS
    <3>1. ReclaimSlot(t)
      BY <2>1 DEF ReclaimInv
    <3>2. ASSUME by'[t][1] = "invoke" PROVE waiter'[t] = by'[t][2]
      <4>1. driving[t] # 0
        BY <1>1, <1>2, <3>2 DEF DutyInv, Undriven
      <4>2. waiter'[t] = waiter[t]
        <5>1. CASE t = j.slot /\ Live(t, j.gen) /\ exec'[t] = "free"
          <6>1. exec[t] # "free"
            BY <1>5, <5>1
          <6> QED
            BY <1>3, <1>4, <4>1, <5>1, <6>1
        <5> QED
          BY <1>3, <2>1, <5>1
      <4> QED
        BY <1>1, <3>1, <3>2, <4>2 DEF ReclaimSlot
    <3>3. exec'[t] = "paused" => InLoop(t)'
      BY <1>1, <1>3, <3>1 DEF ReclaimSlot, InLoop
    <3> QED
      BY <1>1, <3>1, <3>2, <3>3 DEF ReclaimSlot
  <2>3. ASSUME NEW k \in jobs'
        PROVE  /\ k.result # "terminated"
               /\ k.by[1] = "invoke" /\ Live(k.slot, k.gen)' => waiter'[k.slot] = k.by[2]
    <3>1. k \in jobs /\ k.slot \in Slots
      BY <1>3 DEF Types, DriveTypes, Jobs
    <3>2. ASSUME k.by[1] = "invoke", Live(k.slot, k.gen)'
          PROVE  waiter'[k.slot] = k.by[2]
      <4>1. exec'[k.slot] # "free" /\ Live(k.slot, k.gen)
        BY <1>1, <1>3, <3>1, <3>2 DEF Live
      <4>2. waiter'[k.slot] = waiter[k.slot]
        BY <1>3, <2>1, <3>1, <4>1
      <4> QED
        BY <2>1, <3>1, <3>2, <4>1, <4>2 DEF ReclaimInv
    <3> QED
      BY <2>1, <3>1, <3>2 DEF ReclaimInv
  <2>4. FinishedIsReclaimed'
    <3> SUFFICES ASSUME NEW t \in Slots \ {Root}, exec'[t] \in {"done", "failed"}
                 PROVE  \/ driving'[t] = generation'[t] /\ by'[t][1] \in {"invoke", "background", "closure"}
                        \/ \E k \in jobs' : k.slot = t /\ k.gen = generation'[t] /\ k.result \in Terminal
      BY DEF FinishedIsReclaimed
    <3>1. exec'[t] = exec[t] /\ exec'[t] # "free"
      BY <1>3
    <3>2. \/ driving[t] = generation[t] /\ by[t][1] \in {"invoke", "background", "closure"}
          \/ \E k \in jobs : k.slot = t /\ k.gen = generation[t] /\ k.result \in Terminal
      BY <1>1, <1>2, <2>1, <3>1 DEF ReclaimInv, FinishedIsReclaimed
    <3>3. ~(j.slot = t /\ j.gen = generation[t] /\ j.result \in Terminal)
      <4> SUFFICES ASSUME j.slot = t, j.gen = generation[t], j.result \in Terminal PROVE FALSE
        OBVIOUS
      <4>1. Live(j.slot, j.gen)
        BY <3>1 DEF Live
      <4>2. j.by[1] = "invoke" => waiter[j.slot] = j.by[2]
        BY <2>1, <4>1 DEF ReclaimInv
      <4> QED
        BY <1>3, <2>1, <3>1, <4>1, <4>2
    <3> QED
      BY <1>1, <1>3, <3>2, <3>3
  <2> QED
    BY <1>1, <1>2, <2>1, <2>2, <2>3, <2>4 DEF ReclaimInv, Undriven
<1> QED
  BY <1>10, <1>11

\* A call that is delivered starts a drive of its own, or is owed one by resume().
LEMMA CareOfCall ==
  ASSUME Types, Types', RegistryInv, OrderInv, SafeInv, CareInv, RunClosureCall, CallDelivered
  PROVE  CareInv'
<1> SUFFICES ASSUME ~terminated'
             PROVE  DutyInv' /\ (Reclaims => ReclaimInv')
  BY DEF CareInv, Reclaims
<1>1. /\ drainer = "backpressure" /\ CanAllocate /\ ~terminated
      /\ delivery' = [delivery EXCEPT ![current] = "marshaled"]
      /\ generation' = [generation EXCEPT ![NextSlot] = @ + 1]
      /\ waiter' = waiter
  BY DEF RunClosureCall, CallDelivered, Allocate, invokes
<1>2. PICK n \in Slots, g \in Nat :
        /\ n = NextSlot /\ g = NextGeneration /\ exec[n] = "free" /\ waiter[n] = None
        /\ generation[n] < g /\ generation'[n] = g /\ g # 0
        /\ \A t \in Slots : t # n => generation'[t] = generation[t]
  BY <1>1, Allocated
<1>3. PICK c0 \in Calls : c0 = current
  BY <1>1 DEF OrderInv, QueueInOrder
<1>4. DutyInv /\ (Reclaims => ReclaimInv)
  BY <1>1 DEF CareInv
<1>5. driving[n] = 0 /\ phase[n] = "none" /\ ~AlreadyDriving(n) /\ by[n] = <<"none", None>>
  BY <1>2, <1>4, FreeSlot DEF AlreadyDriving, DutyInv, Undriven
<1>6. /\ exec' = [exec EXCEPT ![n] = "ready"] /\ dropped' = dropped
      /\ DriveSlot(n, g, <<"closure", c0>>, <<>>)
  BY <1>2, <1>3, <1>5 DEF CallDelivered, Allocate
<1>7. /\ exec'[n] = "ready" /\ \A t \in Slots : t # n => exec'[t] = exec[t]
      /\ \A c \in Calls : c # c0 => delivery'[c] = delivery[c]
  BY <1>1, <1>3, <1>6 DEF Types, ContextTypes, OrderInv, QueueInOrder
<1>8. \A s \in Slots : ContextKept(s)
  BY <1>1, <1>2, <1>7 DEF ContextKept
<1> PICK who : who = <<"closure", c0>>
  OBVIOUS
<1>9. who = <<"closure", c0>> /\ who[1] = "closure" /\ who[2] = c0
  OBVIOUS
<1>10. \/ /\ driving' = [driving EXCEPT ![n] = g] /\ phase' = [phase EXCEPT ![n] = "loop"]
          /\ by' = [by EXCEPT ![n] = who] /\ UNCHANGED <<result, jobs, cleanup>>
       \/ /\ jobs' = jobs \cup Continuation(who, n, g, "quiesced")
          /\ cleanup' = [cleanup EXCEPT ![n] = [gen |-> g, call |-> c0]]
          /\ UNCHANGED <<driving, phase, result, by>>
  BY <1>6, <1>9 DEF DriveSlot
<1> DEFINE end == [by |-> who, slot |-> n, gen |-> g, result |-> "quiesced"]
<1>11. /\ Continuation(who, n, g, "quiesced") \subseteq {end}
       /\ end.by = who /\ end.result = "quiesced"
  BY Continues
<1> HIDE DEF end
<1>12. /\ jobs \subseteq jobs'
       /\ \A j \in jobs' : j \in jobs \/ (j.by[1] = "closure" /\ j.result = "quiesced")
  BY <1>9, <1>10, <1>11
<1>13. /\ \A t \in Slots : t # n => /\ driving'[t] = driving[t] /\ by'[t] = by[t] /\ phase'[t] = phase[t]
                                    /\ cleanup'[t] = cleanup[t]
       /\ UNCHANGED result /\ cleanup' \in [Slots -> [gen : Nat, call : Calls \cup {None}]]
       /\ \/ /\ driving'[n] = g /\ by'[n] = who /\ phase'[n] = "loop" /\ cleanup'[n] = cleanup[n]
          \/ /\ driving'[n] = 0 /\ by'[n] = <<"none", None>>
             /\ cleanup'[n] = [gen |-> g, call |-> c0]
  <2>1. /\ driving \in [Slots -> Nat] /\ phase \in [Slots -> Phases] /\ by \in [Slots -> Drivers]
        /\ cleanup \in [Slots -> [gen : Nat, call : Calls \cup {None}]]
    BY <1>4 DEF DutyInv, Types, DriveTypes
  <2> QED
    BY <1>5, <1>10, <2>1
<1>14. "quiesced" \notin Terminal
  BY DEF Terminal
<1>15. ASSUME NEW t \in Slots PROVE DutySlot(t)'
  <2>1. DutySlot(t) /\ generation[t] \in Nat /\ cleanup[t].gen \in Nat
    BY <1>4 DEF DutyInv, Types, ContextTypes
  <2>2. CASE t # n
    BY <1>1, <1>2, <1>7, <1>13, <2>1, <2>2 DEF DutySlot
  <2>3. CASE t = n
    <3>1. cleanup[n].gen < g
      BY <1>2, <2>1, <2>3 DEF DutySlot
    <3>2. cleanup'[n].gen <= g /\ waiter'[n] = None
      BY <1>1, <1>2, <1>13, <2>1, <2>3, <3>1
    <3> QED
      BY <1>2, <1>13, <2>1, <2>3, <3>1, <3>2 DEF DutySlot
  <2> QED
    BY <2>2, <2>3
<1>16. ASSUME NEW j \in jobs', j.by[1] = "closure", j.result \in Terminal, Live(j.slot, j.gen)'
       PROVE  cleanup'[j.slot].gen # j.gen
  <2>1. j \in jobs
    BY <1>12, <1>14, <1>16
  <2>2. j.slot \in Slots /\ Live(j.slot, j.gen)
    BY <1>8, <1>16, <2>1, LiveKept
  <2>3. j.slot # n
    BY <1>2, <2>2 DEF Live
  <2> QED
    BY <1>4, <1>13, <1>16, <2>1, <2>2, <2>3 DEF DutyInv
<1>17. DutyIsHeld'
  <2> SUFFICES ASSUME NEW c \in Calls, delivery'[c] = "marshaled", ~dropped'[c]
               PROVE  \/ \E j \in jobs' : j.by = <<"closure", c>> /\ j.result \in Terminal
                      \/ \E t \in Slots : exec'[t] # "free" /\ driving'[t] = generation'[t]
                                          /\ by'[t] = <<"closure", c>>
                      \/ \E t \in Slots : exec'[t] # "free"
                                          /\ cleanup'[t] = [gen |-> generation'[t], call |-> c]
    BY DEF DutyIsHeld
  <2>1. CASE c = c0
    BY <1>2, <1>7, <1>9, <1>13, <2>1
  <2>2. CASE c # c0
    <3>1. \/ \E j \in jobs : j.by = <<"closure", c>> /\ j.result \in Terminal
          \/ \E t \in Slots : exec[t] # "free" /\ driving[t] = generation[t]
                              /\ by[t] = <<"closure", c>>
          \/ \E t \in Slots : exec[t] # "free"
                              /\ cleanup[t] = [gen |-> generation[t], call |-> c]
      <4>1. delivery[c] = "marshaled" /\ ~dropped[c]
        BY <1>6, <1>7, <2>2
      <4> QED
        BY <1>1, <1>4, <4>1 DEF DutyInv, DutyIsHeld
    <3>2. ASSUME NEW t \in Slots, exec[t] # "free"
          PROVE  /\ exec'[t] # "free" /\ generation'[t] = generation[t] /\ cleanup'[t] = cleanup[t]
                 /\ driving'[t] = driving[t] /\ by'[t] = by[t]
      BY <1>2, <1>7, <1>13, <3>2
    <3> QED
      BY <1>12, <3>1, <3>2
  <2> QED
    BY <2>1, <2>2
<1>18. Undriven'
  BY <1>2, <1>4, <1>13 DEF Undriven, DutyInv
<1>19. DutyInv'
  BY <1>4, <1>6, <1>13, <1>15, <1>16, <1>17, <1>18 DEF DutyInv
<1>20. ASSUME Reclaims PROVE ReclaimInv'
  <2>1. ReclaimInv
    BY <1>4, <1>20
  <2>2. \A t \in Slots : ReclaimSlot(t)'
    <3> SUFFICES ASSUME NEW t \in Slots PROVE ReclaimSlot(t)'
      OBVIOUS
    <3>1. ReclaimSlot(t)
      BY <2>1 DEF ReclaimInv
    <3>2. CASE t # n
      BY <1>1, <1>7, <1>13, <3>1, <3>2 DEF ReclaimSlot, InLoop
    <3>3. CASE t = n
      BY <1>7, <1>9, <1>13, <3>1, <3>3 DEF ReclaimSlot, Reclaimers
    <3> QED
      BY <3>2, <3>3
  <2>3. ASSUME NEW j \in jobs'
        PROVE  /\ j.result # "terminated"
               /\ j.by[1] = "invoke" /\ Live(j.slot, j.gen)' => waiter'[j.slot] = j.by[2]
    <3>1. CASE j \in jobs
      BY <1>1, <1>8, <2>1, <3>1, LiveKept DEF ReclaimInv
    <3> QED
      BY <1>12, <3>1
  <2>4. FinishedIsReclaimed'
    <3> SUFFICES ASSUME NEW t \in Slots \ {Root}, exec'[t] \in {"done", "failed"}
                 PROVE  \/ driving'[t] = generation'[t] /\ by'[t][1] \in {"invoke", "background", "closure"}
                        \/ \E j \in jobs' : j.slot = t /\ j.gen = generation'[t] /\ j.result \in Terminal
      BY DEF FinishedIsReclaimed
    <3>1. t # n /\ exec'[t] = exec[t]
      BY <1>7
    <3>2. \/ driving[t] = generation[t] /\ by[t][1] \in {"invoke", "background", "closure"}
          \/ \E j \in jobs : j.slot = t /\ j.gen = generation[t] /\ j.result \in Terminal
      BY <1>1, <2>1, <3>1 DEF ReclaimInv, FinishedIsReclaimed
    <3> QED
      BY <1>2, <1>12, <1>13, <3>1, <3>2
  <2> QED
    BY <1>18, <2>1, <2>2, <2>3, <2>4 DEF ReclaimInv
<1> QED
  BY <1>19, <1>20

\* A slot that a step leaves as it is, but for a promise that makes its context ready.
LEMMA KeptHere ==
  ASSUME NEW s \in Slots, exec'[s] = exec[s] \/ (exec[s] = "parked" /\ exec'[s] = "ready"),
         generation'[s] = generation[s], waiter'[s] = waiter[s], driving'[s] = driving[s],
         by'[s] = by[s], phase'[s] = phase[s], result'[s] = result[s]
  PROVE  ContextKept(s) /\ DriveKept(s) /\ EndKept(s)
BY DEF ContextKept, DriveKept, EndKept, Ended

\* The loop of a drive runs, waits for its hook or returns; a promise may make another ready.
LEMMA CareOfLoop ==
  ASSUME Types, Types', RegistryInv, SafeInv, CareInv, NEW s \in Slots, InLoop(s),
         UNCHANGED <<generation, waiter, driving, by, jobs, cleanup, dropped, delivery, terminated>>,
         \A t \in Slots \ {s} : /\ exec'[t] = exec[t] \/ (exec[t] = "parked" /\ exec'[t] = "ready")
                                /\ phase'[t] = phase[t] /\ result'[t] = result[t],
         exec'[s] # "free", phase'[s] # "unwound",
         result'[s] = result[s] \/ result'[s] # "terminated",
         Reclaims /\ exec'[s] = "paused" => phase'[s] \in {"loop", "hook"}
  PROVE  CareInv'
<1>1. \A t \in Slots \ {s} : ContextKept(t) /\ DriveKept(t) /\ EndKept(t)
  BY KeptHere
<1>2. exec[s] # "free" /\ phase[s] # "unwound"
  BY DriveHere DEF InLoop
<1>3. ContextKept(s) /\ DriveKept(s) /\ EndKept(s)
  BY <1>2 DEF ContextKept, DriveKept, EndKept
<1> QED
  BY <1>1, <1>3, CareStays

\* Where the slot and the rest of the slots are after the loop has returned.
LEMMA LoopReturned ==
  ASSUME Types, NEW s \in Slots, NEW r, LoopReturn(s, r)
  PROVE  /\ phase'[s] = "returned" /\ result'[s] = r
         /\ \A t \in Slots \ {s} : phase'[t] = phase[t] /\ result'[t] = result[t]
BY DEF LoopReturn, Types, DriveTypes

\* The loop's runs, but for the one that allocates a context.
LEMMA CareOfRuns ==
  ASSUME Types, Types', RegistryInv, SafeInv, CareInv, NEW s \in Slots,
         RunEnds(s) \/ RunParks(s) \/ RunPauses(s) \/ RunCompletes(s) \/ RunReturns(s)
           \/ RunStrays(s) \/ LoopTerminated(s)
  PROVE  CareInv'
<1> SUFFICES ASSUME ~terminated'
             PROVE  CareInv'
  BY DEF CareInv
<1>1. UNCHANGED <<generation, waiter, driving, by, jobs, cleanup, dropped, delivery, terminated>>
  BY DEF RunEnds, RunParks, RunPauses, RunCompletes, RunReturns, RunStrays, LoopTerminated,
         context, invokes, closures
<1>2. stack # <<>> /\ Top.op \in Frame /\ Top.slot = s /\ ~terminated
  BY <1>1 DEF RunEnds, RunParks, RunPauses, RunCompletes, RunReturns, RunStrays, LoopTerminated,
         Run, Calling, Frame
<1>3. /\ phase[s] = "loop" /\ InLoop(s) /\ exec[s] # "free"
      /\ Top.op = "loop" => exec[s] \in Runnable
      /\ Top.op = "return" => Ended(s) /\ Top.id \in {"done", "error"}
  BY <1>2, LoopHere DEF InLoop
<1>4. exec \in [Slots -> Execs]
  BY DEF Types, ContextTypes
<1>5. CASE RunEnds(s)
  <2>1. UNCHANGED <<phase, result>>
    BY <1>5 DEF RunEnds, ReturnAfter
  <2>2. /\ exec'[s] \in {"done", "failed"}
        /\ \A t \in Slots \ {s} : exec'[t] = exec[t]
    BY <1>4, <1>5 DEF RunEnds
  <2> QED
    BY <1>1, <1>3, <2>1, <2>2, CareOfLoop
<1>6. CASE RunParks(s)
  <2>1. exec'[s] = "parked" /\ \A t \in Slots \ {s} : exec'[t] = exec[t]
    BY <1>4, <1>6 DEF RunParks
  <2>2. LoopReturn(s, "parked")
    BY <1>6 DEF RunParks
  <2> QED
    BY <1>1, <1>3, <2>1, <2>2, LoopReturned, CareOfLoop
<1>7. CASE RunPauses(s)
  <2>1. exec'[s] = "paused" /\ \A t \in Slots \ {s} : exec'[t] = exec[t]
    BY <1>4, <1>7 DEF RunPauses
  <2>2. CASE UNCHANGED <<phase, result>>
    BY <1>1, <1>3, <2>1, <2>2, CareOfLoop
  <2>3. CASE "decline" \in FuelHooks /\ LoopReturn(s, "paused")
    <3>1. ~Reclaims
      BY <2>3 DEF Reclaims
    <3> QED
      BY <1>1, <1>3, <2>1, <2>3, <3>1, LoopReturned, CareOfLoop
  <2>4. CASE phase' = [phase EXCEPT ![s] = "hook"] /\ UNCHANGED result
    <3>1. phase'[s] = "hook" /\ \A t \in Slots \ {s} : phase'[t] = phase[t]
      BY <2>4 DEF Types, DriveTypes
    <3> QED
      BY <1>1, <1>3, <2>1, <2>4, <3>1, CareOfLoop
  <2> QED
    BY <1>7, <2>2, <2>3, <2>4 DEF RunPauses
<1>8. CASE RunCompletes(s)
  <2>1. UNCHANGED <<phase, result>>
    BY <1>8 DEF RunCompletes, ReturnAfter
  <2>2. PICK id \in promises :
          /\ id.slot # s /\ exec[id.slot] = "parked"
          /\ exec' = [exec EXCEPT ![s] = "done", ![id.slot] = "ready"]
    BY <1>8 DEF RunCompletes
  <2>3. exec'[s] = "done" /\ \A t \in Slots \ {s} : exec'[t] = exec[t] \/ (exec[t] = "parked" /\ exec'[t] = "ready")
    BY <1>4, <2>2
  <2> QED
    BY <1>1, <1>3, <2>1, <2>3, CareOfLoop
<1>9. CASE RunReturns(s)
  <2>1. exec' = exec /\ LoopReturn(s, Top.id) /\ Top.op = "return"
    BY <1>9 DEF RunReturns, Calling, context
  <2>2. exec[s] # "paused" /\ Top.id # "terminated"
    BY <1>3, <2>1 DEF Ended
  <2> QED
    BY <1>1, <1>3, <2>1, <2>2, LoopReturned, CareOfLoop
<1>10. ~RunStrays(s) /\ ~LoopTerminated(s)
  BY <1>2, <1>3 DEF RunStrays, LoopTerminated, Calling
<1> QED
  BY <1>5, <1>6, <1>7, <1>8, <1>9, <1>10

\* What a drive that starts, or is put off by a quiesce, does: not a closure call's.
LEMMA DriveStarts ==
  ASSUME Types, CareInv, ~terminated, NEW s \in Slots, NEW g \in Nat, g # 0, NEW who, NEW rest,
         who[1] # "closure", DriveSlot(s, g, who, rest)
  PROVE  /\ UNCHANGED <<result, jobs, cleanup>>
         /\ \A t \in Slots \ {s} : driving'[t] = driving[t] /\ by'[t] = by[t] /\ phase'[t] = phase[t]
         /\ \/ driving'[s] = driving[s] /\ by'[s] = by[s] /\ phase'[s] = phase[s]
            \/ /\ driving[s] = 0 /\ driving'[s] = g /\ driving'[s] # 0 /\ by'[s] = who
               /\ phase'[s] = "loop"
<1>1. "quiesced" \notin Terminal
  BY DEF Terminal
<1>2. Continuation(who, s, g, "quiesced") = {}
  BY <1>1 DEF Continuation
<1>3. driving \in [Slots -> Nat] /\ phase \in [Slots -> Phases] /\ by \in [Slots -> Drivers]
  BY DEF Types, DriveTypes
<1>4. \/ UNCHANGED <<result, jobs, cleanup, driving, by, phase>>
      \/ /\ driving[s] = 0 /\ driving' = [driving EXCEPT ![s] = g]
         /\ phase' = [phase EXCEPT ![s] = "loop"] /\ by' = [by EXCEPT ![s] = who]
         /\ UNCHANGED <<result, jobs, cleanup>>
  BY <1>2 DEF DriveSlot
<1> QED
  BY <1>3, <1>4

\* A drive of a context that is there starts, or is put off.
LEMMA CareOfDrive ==
  ASSUME Types, Types', RegistryInv, SafeInv, CareInv, ~terminated,
         NEW s \in Slots, NEW g \in Nat, g # 0, NEW who, NEW rest,
         who[1] # "closure", DriveSlot(s, g, who, rest),
         UNCHANGED <<generation, exec, waiter, delivery, dropped, terminated>>,
         Reclaims /\ s # Root => who[1] \in Reclaimers,
         who[1] = "invoke" => waiter[s] = who[2]
  PROVE  CareInv'
<1>1. /\ UNCHANGED <<result, jobs, cleanup>>
      /\ \A t \in Slots \ {s} : driving'[t] = driving[t] /\ by'[t] = by[t] /\ phase'[t] = phase[t]
      /\ \/ driving'[s] = driving[s] /\ by'[s] = by[s] /\ phase'[s] = phase[s]
         \/ /\ driving[s] = 0 /\ driving'[s] = g /\ driving'[s] # 0 /\ by'[s] = who
            /\ phase'[s] = "loop"
  BY DriveStarts
<1>2. \A t \in Slots \ {s} : ContextKept(t) /\ DriveKept(t) /\ EndKept(t)
  BY <1>1, KeptHere
<1>3. ContextKept(s) /\ DriveKept(s) /\ EndKept(s)
  <2>1. CASE driving'[s] = driving[s] /\ by'[s] = by[s] /\ phase'[s] = phase[s]
    BY <1>1, <2>1, KeptHere
  <2>2. CASE /\ driving[s] = 0 /\ driving'[s] = g /\ driving'[s] # 0 /\ by'[s] = who
             /\ phase'[s] = "loop"
    <3>1. ContextKept(s)
      BY DEF ContextKept
    <3>2. DriveKept(s)
      BY <2>2 DEF DriveKept
    <3>3. phase[s] = "none"
      BY <2>2, DriveHere
    <3>4. EndKept(s)
      BY <1>1, <2>2, <3>3 DEF EndKept, Ended
    <3> QED
      BY <3>1, <3>2, <3>4
  <2> QED
    BY <1>1, <2>1, <2>2
<1> QED
  BY <1>1, <1>2, <1>3, CareStays

\* A woken context is driven for its owner.
LEMMA CareOfWake ==
  ASSUME Types, Types', RegistryInv, SafeInv, CareInv, DispatchWoken
  PROVE  CareInv'
<1> SUFFICES ASSUME ~terminated'
             PROVE  CareInv'
  BY DEF CareInv
<1>1. /\ UNCHANGED <<generation, exec, waiter, delivery, dropped, terminated>>
      /\ ~terminated /\ stack # <<>> /\ Top.op = "wake"
  BY DEF DispatchWoken, Calling, context, invokes
<1>2. PICK s \in Slots, g \in Nat :
        /\ s = Top.slot /\ g = Top.gen /\ g # 0 /\ driving[s] \in {0, g}
  BY <1>1, WakeHere, StackHere
<1>3. CASE UNCHANGED <<drives, cleanup>>
  <2>1. UNCHANGED <<driving, by, phase, result, jobs, cleanup>>
    BY <1>3 DEF drives
  <2>2. \A t \in Slots : ContextKept(t) /\ DriveKept(t) /\ EndKept(t)
    BY <1>1, <2>1, KeptHere
  <2> QED
    BY <1>1, <2>1, <2>2, CareStays
<1>4. CASE DriveSlot(s, g, WakeOwner(s, g), Tail(stack))
  <2>1. /\ WakeOwner(s, g)[1] # "closure"
        /\ s # Root => WakeOwner(s, g)[1] \in Reclaimers
        /\ WakeOwner(s, g)[1] = "invoke" => waiter[s] = WakeOwner(s, g)[2]
    BY DEF WakeOwner, Reclaimers
  <2> QED
    BY <1>1, <1>2, <1>4, <2>1, CareOfDrive
<1>5. UNCHANGED <<drives, cleanup>> \/ DriveSlot(s, g, WakeOwner(s, g), Tail(stack))
  BY <1>1, <1>2 DEF DispatchWoken
<1> QED
  BY <1>3, <1>4, <1>5

\* The embedder runs a slot: the program's, or, where the hook may decline, one out of fuel.
LEMMA CareOfRunSlot ==
  ASSUME Types, Types', RegistryInv, SafeInv, CareInv, NEW s \in Slots, RunSlot(s)
  PROVE  CareInv'
<1> DEFINE who == IF waiter[s] # None THEN <<"invoke", waiter[s]>> ELSE <<"run", None>>
<1>1. /\ UNCHANGED <<generation, exec, waiter, delivery, dropped, terminated>> /\ ~terminated
      /\ exec[s] = "paused" \/ (s = Root /\ exec[s] = "ready")
      /\ driving[s] = 0 /\ DriveSlot(s, generation[s], who, stack)
  BY DEF RunSlot, context, invokes
<1>2. generation[s] \in Nat /\ generation[s] # 0
  BY <1>1, DriveHere
<1>3. Reclaims => s = Root
  <2>1. Reclaims /\ exec[s] = "paused" => InLoop(s)
    BY <1>1 DEF CareInv, ReclaimInv, ReclaimSlot
  <2> QED
    BY <1>1, <2>1, DriveHere
<1>4. who[1] # "closure" /\ (who[1] = "invoke" => waiter[s] = who[2])
  OBVIOUS
<1> HIDE DEF who
<1> QED
  BY <1>1, <1>2, <1>3, <1>4, CareOfDrive

\* A context that a step allocates for a spawned or an invoked task; the rest stays.
LEMMA CareOfNew ==
  ASSUME Types, Types', RegistryInv, SafeInv, CareInv, ~terminated,
         NEW n \in Slots, exec[n] = "free", generation[n] < generation'[n],
         \A t \in Slots \ {n} : /\ generation'[t] = generation[t] /\ exec'[t] = exec[t]
                                /\ waiter'[t] = waiter[t] /\ driving'[t] = driving[t]
                                /\ by'[t] = by[t] /\ phase'[t] = phase[t],
         exec'[n] \in {"free", "ready"},
         \/ driving'[n] = driving[n] /\ by'[n] = by[n] /\ phase'[n] = phase[n]
         \/ /\ driving'[n] # 0 /\ phase'[n] = "loop"
            /\ by'[n][1] = "invoke" /\ waiter'[n] = by'[n][2],
         UNCHANGED <<result, jobs, cleanup, terminated>>,
         \A c \in Calls : delivery'[c] = "marshaled" => delivery[c] = "marshaled",
         dropped' = dropped \/ \E c \in Calls : dropped' = [dropped EXCEPT ![c] = TRUE]
  PROVE  CareInv'
<1>1. \A t \in Slots \ {n} : ContextKept(t) /\ DriveKept(t) /\ EndKept(t)
  BY KeptHere
<1>2. driving[n] = 0 /\ phase[n] = "none"
  BY FreeSlot
<1>3. ContextKept(n)
  BY DEF ContextKept
<1>4. DriveKept(n)
  BY <1>2 DEF DriveKept, Reclaimers
<1>5. EndKept(n)
  BY <1>2 DEF EndKept
<1> QED
  BY <1>1, <1>3, <1>4, <1>5, CareStays

\* A task is spawned.
LEMMA CareOfSpawn ==
  ASSUME Types, Types', RegistryInv, SafeInv, CareInv, NEW s \in Slots, RunSpawns(s)
  PROVE  CareInv'
<1>1. /\ CanAllocate /\ generation' = [generation EXCEPT ![NextSlot] = @ + 1]
      /\ exec' = [exec EXCEPT ![NextSlot] = "ready"] /\ ~terminated
      /\ UNCHANGED <<driving, by, phase, result, jobs, cleanup, delivery, dropped, waiter, terminated>>
  BY DEF RunSpawns, Run, drives, invokes, closures
<1>2. PICK n \in Slots, g \in Nat :
        /\ n = NextSlot /\ g = NextGeneration /\ exec[n] = "free" /\ waiter[n] = None
        /\ generation[n] < g /\ generation'[n] = g /\ g # 0
        /\ \A t \in Slots : t # n => generation'[t] = generation[t]
  BY <1>1, Allocated
<1>3. exec'[n] = "ready" /\ \A t \in Slots \ {n} : exec'[t] = exec[t]
  BY <1>1, <1>2 DEF Types, ContextTypes
<1> QED
  BY <1>1, <1>2, <1>3, CareOfNew

\* An invocation starts, in a context of its own, or fails, having allocated one or not.
LEMMA CareOfBegin ==
  ASSUME Types, Types', RegistryInv, SafeInv, CareInv, BeginInvoke
  PROVE  CareInv'
<1> SUFFICES ASSUME ~terminated'
             PROVE  CareInv'
  BY DEF CareInv
<1>1. UNCHANGED <<delivery, dropped, terminated>> /\ ~terminated
  BY DEF BeginInvoke
<1>2. PICK i : i = Top.id
  OBVIOUS
<1>3. BeginInvokeFails(i) \/ BeginInvokeDrives(i)
  BY <1>2 DEF BeginInvoke
<1>4. CASE BeginInvokeFails(i)
  <2>1. UNCHANGED <<exec, driving, by, phase, result, jobs, cleanup, waiter>>
    BY <1>4 DEF BeginInvokeFails, drives
  <2>2. CASE UNCHANGED generation
    <3>1. \A t \in Slots : ContextKept(t) /\ DriveKept(t) /\ EndKept(t)
      BY <2>1, <2>2, KeptHere
    <3> QED
      BY <1>1, <2>1, <3>1, CareStays
  <2>3. CASE CanAllocate /\ generation' = [generation EXCEPT ![NextSlot] = @ + 1]
    <3>1. PICK n \in Slots, g \in Nat :
            /\ n = NextSlot /\ g = NextGeneration /\ exec[n] = "free" /\ waiter[n] = None
            /\ generation[n] < g /\ generation'[n] = g /\ g # 0
            /\ \A t \in Slots : t # n => generation'[t] = generation[t]
      BY <2>3, Allocated
    <3> QED
      BY <1>1, <2>1, <3>1, CareOfNew
  <2> QED
    BY <1>4, <2>2, <2>3 DEF BeginInvokeFails
<1>5. CASE BeginInvokeDrives(i)
  <2>1. /\ CanAllocate /\ generation' = [generation EXCEPT ![NextSlot] = @ + 1]
        /\ exec' = [exec EXCEPT ![NextSlot] = "ready"]
        /\ waiter' = [waiter EXCEPT ![NextSlot] = i]
    BY <1>5 DEF BeginInvokeDrives, Allocate
  <2>2. PICK n \in Slots, g \in Nat :
          /\ n = NextSlot /\ g = NextGeneration /\ exec[n] = "free" /\ waiter[n] = None
          /\ generation[n] < g /\ generation'[n] = g /\ g # 0
          /\ \A t \in Slots : t # n => generation'[t] = generation[t]
    BY <2>1, Allocated
  <2>3. /\ exec'[n] = "ready" /\ waiter'[n] = i
        /\ \A t \in Slots \ {n} : exec'[t] = exec[t] /\ waiter'[t] = waiter[t]
    BY <2>1, <2>2 DEF Types, ContextTypes, InvokeTypes
  <2>4. ~AlreadyDriving(n)
    BY <2>2, FreeSlot DEF AlreadyDriving
  <2> PICK who : who = <<"invoke", i>>
    OBVIOUS
  <2>5. who[1] = "invoke" /\ who[1] # "closure" /\ who[2] = i
    OBVIOUS
  <2>6. DriveSlot(n, g, who, Tail(stack))
    BY <1>5, <2>2, <2>4 DEF BeginInvokeDrives
  <2>7. /\ UNCHANGED <<result, jobs, cleanup>>
        /\ \A t \in Slots \ {n} : driving'[t] = driving[t] /\ by'[t] = by[t] /\ phase'[t] = phase[t]
        /\ \/ driving'[n] = driving[n] /\ by'[n] = by[n] /\ phase'[n] = phase[n]
           \/ /\ driving[n] = 0 /\ driving'[n] = g /\ driving'[n] # 0 /\ by'[n] = who
              /\ phase'[n] = "loop"
    BY <1>1, <2>2, <2>5, <2>6, DriveStarts
  <2>8. \A t \in Slots \ {n} : generation'[t] = generation[t]
    BY <2>2
  <2>9. generation[n] < generation'[n]
    BY <2>2
  <2> QED
    BY <1>1, <2>2, <2>3, <2>5, <2>7, <2>8, <2>9, CareOfNew
<1> QED
  BY <1>3, <1>4, <1>5

\* Nothing of a context or of a drive changes.
LEMMA CareOfSame ==
  ASSUME Types, Types', RegistryInv, SafeInv, CareInv,
         UNCHANGED <<generation, exec, waiter, driving, by, phase, result, jobs, cleanup, dropped>>,
         ~terminated' => ~terminated,
         \A c \in Calls : delivery'[c] = "marshaled" => delivery[c] = "marshaled"
  PROVE  CareInv'
<1>1. \A t \in Slots : ContextKept(t) /\ DriveKept(t) /\ EndKept(t)
  BY KeptHere
<1> QED
  BY <1>1, CareStays

\* The hook's promise resolves, or a host promise settles.
LEMMA CareOfPromises ==
  ASSUME Types, Types', RegistryInv, SafeInv, CareInv,
         Settle \/ \E s \in Slots : HookResolves(s)
  PROVE  CareInv'
<1>1. CASE Settle
  <2>1. UNCHANGED <<generation, waiter, driving, by, phase, result, jobs, cleanup, dropped,
                    delivery, terminated>>
    BY <1>1 DEF Settle, drives, invokes, closures
  <2>2. PICK id \in promises :
          \/ exec' = exec
          \/ exec[id.slot] = "parked" /\ exec' = [exec EXCEPT ![id.slot] = "ready"]
    BY <1>1 DEF Settle
  <2>3. \A t \in Slots : exec'[t] = exec[t] \/ (exec[t] = "parked" /\ exec'[t] = "ready")
    BY <2>2 DEF Types, ContextTypes
  <2>4. \A t \in Slots : ContextKept(t) /\ DriveKept(t) /\ EndKept(t)
    BY <2>1, <2>3, KeptHere
  <2> QED
    BY <2>1, <2>4, CareStays
<1>2. ASSUME NEW s \in Slots, HookResolves(s)
      PROVE  CareInv'
  <2>1. /\ UNCHANGED <<generation, exec, waiter, driving, by, jobs, cleanup, dropped, delivery,
                       terminated>>
        /\ phase[s] = "hook"
    BY <1>2 DEF HookResolves, context, invokes, closures
  <2>2. InLoop(s)
    BY <2>1 DEF InLoop
  <2>3. exec[s] # "free"
    BY <2>2, DriveHere
  <2>4. CASE phase' = [phase EXCEPT ![s] = "loop"] /\ UNCHANGED result
    <3>1. phase'[s] = "loop" /\ \A t \in Slots \ {s} : phase'[t] = phase[t]
      BY <2>4 DEF Types, DriveTypes
    <3> QED
      BY <2>1, <2>2, <2>3, <2>4, <3>1, CareOfLoop
  <2>5. CASE /\ "decline" \in FuelHooks
             /\ phase' = [phase EXCEPT ![s] = "returned"] /\ result' = [result EXCEPT ![s] = "paused"]
    <3>1. /\ phase'[s] = "returned" /\ \A t \in Slots \ {s} : phase'[t] = phase[t]
          /\ result'[s] = "paused" /\ \A t \in Slots \ {s} : result'[t] = result[t]
      BY <2>5 DEF Types, DriveTypes
    <3>2. ~Reclaims
      BY <2>5 DEF Reclaims
    <3> QED
      BY <2>1, <2>2, <2>3, <3>1, <3>2, CareOfLoop
  <2> QED
    BY <1>2, <2>4, <2>5 DEF HookResolves
<1> QED
  BY <1>1, <1>2

\* A closure call that is abandoned, or refused, its handle dropped or not.
LEMMA CareOfRefusal ==
  ASSUME Types, Types', RegistryInv, OrderInv, SafeInv, CareInv, RunClosureCall,
         CallAbandoned \/ CallRefused
  PROVE  CareInv'
<1> SUFFICES ASSUME ~terminated'
             PROVE  CareInv'
  BY DEF CareInv
<1>1. terminated' = terminated /\ waiter' = waiter /\ drainer = "backpressure"
  BY DEF RunClosureCall, invokes
<1>2. CallRefused
  BY <1>1 DEF CallAbandoned
<1>3. UNCHANGED <<exec, driving, by, phase, result, jobs, cleanup>>
  BY <1>2 DEF CallRefused, drives
<1>4. \A c \in Calls : delivery'[c] = "marshaled" => delivery[c] = "marshaled"
  BY <1>2 DEF CallRefused, OrderInv, QueueInOrder
<1>5. PICK c0 \in Calls : c0 = current
  BY <1>1 DEF OrderInv, QueueInOrder
<1>6. dropped' = dropped \/ \E c \in Calls : dropped' = [dropped EXCEPT ![c] = TRUE]
  BY <1>2, <1>5 DEF CallRefused
<1>7. CASE UNCHANGED generation
  <2>1. \A t \in Slots : ContextKept(t) /\ DriveKept(t) /\ EndKept(t)
    BY <1>1, <1>3, <1>7, KeptHere
  <2> QED
    BY <1>1, <1>3, <1>4, <1>6, <2>1, CareStays
<1>8. CASE CanAllocate /\ generation' = [generation EXCEPT ![NextSlot] = @ + 1]
  <2>1. PICK n \in Slots, g \in Nat :
          /\ n = NextSlot /\ g = NextGeneration /\ exec[n] = "free" /\ waiter[n] = None
          /\ generation[n] < g /\ generation'[n] = g /\ g # 0
          /\ \A t \in Slots : t # n => generation'[t] = generation[t]
    BY <1>8, Allocated
  <2> QED
    BY <1>1, <1>3, <1>4, <1>6, <2>1, CareOfNew
<1> QED
  BY <1>2, <1>7, <1>8 DEF CallRefused

\* The counts of drives, the airlock's queue, the embedder's other calls and the drainer's.
LEMMA CareOfRest ==
  ASSUME Types, Types', RegistryInv, OrderInv, SafeInv, CareInv,
         \/ UNCHANGED vars
         \/ TrackDrive \/ FinallyRest \/ DrainSpawned \/ ResumeRedispatches \/ ResumeReinvokes
         \/ KickClosureDrainer \/ DrainerNext \/ Quiesce \/ Resume \/ Terminate
         \/ \E i \in Invocations : Invoke(i)
         \/ \E c \in Calls : Schedule(c)
  PROVE  CareInv'
<1>1. CASE UNCHANGED vars
  BY <1>1, CareOfSame DEF vars, context, drives, invokes, closures
<1>2. CASE TrackDrive \/ FinallyRest \/ DrainSpawned
  BY <1>2, CareOfSame DEF TrackDrive, FinallyRest, DrainSpawned, context, drives, invokes, closures
<1>3. CASE ResumeRedispatches \/ ResumeReinvokes \/ Quiesce \/ Resume
  <2>1. ASSUME ResumeRedispatches \/ Quiesce PROVE CareInv'
    <3>1. UNCHANGED <<context, drives, terminated, invokes, closures>>
      BY <2>1 DEF ResumeRedispatches, Quiesce
    <3> QED
      BY <3>1, CareOfSame DEF context, drives, invokes, closures
  <2>2. ResumeReinvokes => CareInv'
    BY CareOfSame DEF ResumeReinvokes, context, drives, closures
  <2>3. ASSUME Resume PROVE CareInv'
    <3>1. UNCHANGED <<context, drives, terminated, waiter, closures>>
      BY <2>3 DEF Resume
    <3> QED
      BY <3>1, CareOfSame DEF context, drives, closures
  <2> QED
    BY <1>3, <2>1, <2>2, <2>3
<1>4. CASE KickClosureDrainer \/ DrainerNext
  BY <1>4, CareOfSame DEF KickClosureDrainer, DrainerNext, context, drives, invokes
<1>5. CASE Terminate
  BY <1>5 DEF Terminate, CareInv
<1>6. ASSUME NEW i \in Invocations, Invoke(i) PROVE CareInv'
  BY <1>6, CareOfSame DEF Invoke, context, drives, closures
<1>7. ASSUME NEW c \in Calls, Schedule(c) PROVE CareInv'
  <2>1. \A d \in Calls : delivery'[d] = "marshaled" => delivery[d] = "marshaled"
    BY <1>7 DEF Schedule, OrderInv, QueueInOrder
  <2> QED
    BY <1>7, <2>1, CareOfSame DEF Schedule, context, drives, invokes
<1> QED
  BY <1>1, <1>2, <1>3, <1>4, <1>5, <1>6, <1>7

\* At first there is one context, not run, and no call.
LEMMA CareInit ==
  ASSUME Init
  PROVE  CareInv
<1>1. NoDuty \in [gen : Nat, call : Calls \cup {None}] /\ NoDuty.gen = 0
  BY DEF NoDuty
<1>2. \A s \in Slots : generation[s] \in Nat /\ cleanup[s] = NoDuty /\ waiter[s] = None
  BY DEF Init
<1>3. /\ cleanup \in [Slots -> [gen : Nat, call : Calls \cup {None}]] /\ dropped \in [Calls -> BOOLEAN]
      /\ jobs = {}
  BY <1>1 DEF Init
<1>4. \A s \in Slots : /\ driving[s] = 0 /\ by[s] = <<"none", None>> /\ by[s][1] = "none"
                       /\ result[s] = "none" /\ exec[s] \in {"ready", "free"}
  BY DEF Init
<1>5. \A s \in Slots : DutySlot(s)
  BY <1>1, <1>2, <1>4 DEF DutySlot
<1>6. DutyIsHeld
  BY DEF Init, DutyIsHeld
<1>7. \A s \in Slots : ReclaimSlot(s)
  BY <1>4 DEF ReclaimSlot
<1>8. FinishedIsReclaimed
  BY <1>4 DEF FinishedIsReclaimed
<1>9. Undriven
  BY <1>4 DEF Undriven
<1> QED
  BY <1>3, <1>5, <1>6, <1>7, <1>8, <1>9 DEF CareInv, DutyInv, ReclaimInv

\* Every step keeps CareInv, where no signal aborts an invocation.
LEMMA CareStep ==
  ASSUME Abortable = {}, Types, OrderInv, RegistryInv, SafeInv, CareInv, [Next]_vars
  PROVE  CareInv'
<1>1. Types' /\ ~ResumeCancels /\ \A i \in Invocations : ~Abort(i)
  BY OrderStep, NoCancel
<1>2. CASE UNCHANGED vars
  BY <1>1, <1>2, CareOfRest
<1>3. CASE Synchronous
  BY <1>1, <1>3, CareOfRuns, CareOfSpawn, CareOfWake, CareOfBegin, CareOfRest DEF Synchronous
<1>4. CASE Continuations
  <2>1. RunClosureCall => CallAbandoned \/ CallRefused \/ CallDelivered
    BY DEF RunClosureCall
  <2> QED
    BY <1>1, <1>4, <2>1, CareOfThen, CareOfFinally, CareOfContinue, CareOfCall, CareOfRefusal,
       CareOfRest DEF Continuations
<1>5. CASE Embedder
  BY <1>1, <1>5, CareOfRest DEF Embedder
<1>6. CASE Settle \/ \E s \in Slots : HookResolves(s) \/ RunSlot(s)
  BY <1>1, <1>6, CareOfPromises, CareOfRunSlot
<1> QED
  BY <1>2, <1>3, <1>4, <1>5, <1>6 DEF Next

\* The duty to drop a delivered call's closure handle is always somebody's whose context is
\* alive, through parks, quiesces and resumes (runClosureCall, lifecycle.onParked,
\* runBackgroundDrive), where no signal aborts an invocation.
THEOREM DutiesAreHeld ==
  ASSUME Abortable = {}
  PROVE  Spec => []DutyIsHeld
<1>1. Init => Types /\ OrderInv /\ RegistryInv /\ SafeInv /\ CareInv
  BY OrderInit, RegistryInit, SafeInit, CareInit
<1>2. Types /\ OrderInv /\ RegistryInv /\ SafeInv /\ CareInv /\ [Next]_vars
        => Types' /\ OrderInv' /\ RegistryInv' /\ SafeInv' /\ CareInv'
  BY OrderStep, RegistryStep, SafeStep, CareStep
<1>3. CareInv => DutyIsHeld
  BY DEF CareInv, DutyInv, DutyIsHeld
<1> QED
  BY <1>1, <1>2, <1>3, PTL DEF Spec

\* A context that has ended is reclaimed by the end of its drive, or by a continuation that is
\* still to run (the tails of invokeClosure, runBackgroundDrive and runClosureCall), where no
\* signal aborts an invocation and the fuel hook never leaves a context parked.
THEOREM FinishedAreReclaimed ==
  ASSUME Abortable = {}, "decline" \notin FuelHooks
  PROVE  Spec => []FinishedIsReclaimed
<1>1. Init => Types /\ OrderInv /\ RegistryInv /\ SafeInv /\ CareInv
  BY OrderInit, RegistryInit, SafeInit, CareInit
<1>2. Types /\ OrderInv /\ RegistryInv /\ SafeInv /\ CareInv /\ [Next]_vars
        => Types' /\ OrderInv' /\ RegistryInv' /\ SafeInv' /\ CareInv'
  BY OrderStep, RegistryStep, SafeStep, CareStep
<1>3. CareInv => FinishedIsReclaimed
  BY DEF CareInv, ReclaimInv, Reclaims, FinishedIsReclaimed
<1> QED
  BY <1>1, <1>2, <1>3, PTL DEF Spec
===============================================================================
