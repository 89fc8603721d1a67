---------------------- MODULE CallbackProcessor_proofs ----------------------
(***************************************************************************)
(* For all hooks, requests, events and depths of nesting: the types of the *)
(* processor, and that it listens while it is needed.                      *)
(*                                                                         *)
(* That every hook is called once needs more: Orderly says how the         *)
(* programs of the repository use the processor.  What fails without it is *)
(* shown by the runs hook_reentrancy and hook_every_event.                 *)
(***************************************************************************)
EXTENDS CallbackProcessor, SequenceTheorems, FiniteSetTheorems, TLAPS

Entries == [fun : Hooks, types : SUBSET Types]
Frames == [types : SUBSET Types, filter : BOOLEAN, it : Nat \ {0}, valid : BOOLEAN,
           running : Hooks \cup {None}, stop : BOOLEAN]

-----------------------------------------------------------------------------
(* Sequences. *)
LEMMA RemoveAtProperties ==
  ASSUME NEW S, NEW s \in Seq(S), NEW k \in 1 .. Len(s)
  PROVE  /\ RemoveAt(s, k) \in Seq(S)
         /\ Len(RemoveAt(s, k)) = Len(s) - 1
         /\ \A i \in 1 .. Len(s) - 1 : RemoveAt(s, k)[i] = IF i < k THEN s[i] ELSE s[i + 1]
<1>. DEFINE a == SubSeq(s, 1, k - 1)
            b == SubSeq(s, k + 1, Len(s))
<1>1. a \in Seq(S) /\ Len(a) = k - 1 /\ \A i \in 1 .. k - 1 : a[i] = s[i]
  BY SubSeqProperties
<1>2. /\ b \in Seq(S) /\ Len(b) = Len(s) - k
      /\ \A i \in 1 .. Len(s) - k : b[i] = s[k + i]
  <2>1. \A i \in k + 1 .. Len(s) : s[i] \in S
    OBVIOUS
  <2>. QED BY <2>1, SubSeqProperties
<1>. HIDE DEF a, b
<1>3. /\ a \o b \in Seq(S) /\ Len(a \o b) = Len(s) - 1
      /\ \A i \in 1 .. Len(s) - 1 : (a \o b)[i] = IF i <= k - 1 THEN a[i] ELSE b[i - (k - 1)]
  BY <1>1, <1>2, ConcatProperties
<1>4. \A i \in 1 .. Len(s) - 1 : (a \o b)[i] = IF i < k THEN s[i] ELSE s[i + 1]
  BY <1>1, <1>2, <1>3
<1>. QED BY <1>3, <1>4 DEF RemoveAt, a, b

LEMMA FrontProperties ==
  ASSUME NEW S, NEW s \in Seq(S), s # <<>>
  PROVE  /\ Front(s) \in Seq(S)
         /\ Len(Front(s)) = Len(s) - 1
         /\ \A i \in 1 .. Len(s) - 1 : Front(s)[i] = s[i]
<1>1. PICK n \in Nat : n = Len(s) - 1
  BY EmptySeq
<1>2. \A i \in 1 .. n : s[i] \in S
  BY <1>1
<1>3. /\ SubSeq(s, 1, n) \in Seq(S) /\ Len(SubSeq(s, 1, n)) = n
      /\ \A i \in 1 .. n : SubSeq(s, 1, n)[i] = s[i]
  BY <1>2, SubSeqProperties
<1>. QED BY <1>1, <1>3 DEF Front

-----------------------------------------------------------------------------
(* What a step does to the stack: it pushes a frame, writes to the top one *)
(* or takes it away.                                                       *)
LEMMA SetTopType ==
  ASSUME TypeOK, stack # <<>>, NEW f \in Frames, SetTop(f)
  PROVE  /\ stack' \in Seq(Frames) /\ Len(stack') = Len(stack)
         /\ stack'[Len(stack)] = f
         /\ \A i \in 1 .. Len(stack) - 1 : stack'[i] = stack[i]
<1>1. stack \in Seq(Frames) /\ Len(stack) \in 1 .. Len(stack)
  BY DEF TypeOK, Frames
<1>. QED BY <1>1 DEF SetTop

LEMMA TopType ==
  ASSUME TypeOK, stack # <<>>
  PROVE  Top \in Frames /\ Len(stack) \in Nat \ {0}
<1>1. stack \in Seq(Frames) /\ Len(stack) \in 1 .. Len(stack)
  BY DEF TypeOK, Frames
<1>. QED BY <1>1 DEF Top

LEMMA RegisterTyped ==
  ASSUME TypeOK, NEW h \in Hooks, NEW ts \in Requests, registerHook(h, ts)
  PROVE  TypeOK'
<1>1. ts \subseteq Types
  BY HooksAssumption
<1>2. registered' \in 0 .. MaxRegistrations
  BY HooksAssumption DEF TypeOK, registerHook
<1>3. CASE PushBack(h, ts)
  <2>1. hooks' \in Seq(Entries)
    BY <1>1, <1>3 DEF PushBack, TypeOK, Entries
  <2>2. PICK moved \in BOOLEAN :
           stack' = [i \in 1..Len(stack) |-> [stack[i] EXCEPT !.valid = @ /\ ~moved]]
    BY <1>3 DEF PushBack
  <2>3. \A f \in Frames : [f EXCEPT !.valid = @ /\ ~moved] \in Frames
    BY DEF Frames
  <2>4. stack \in Seq(Frames)
    BY DEF TypeOK, Frames
  <2>5. stack' \in Seq(Frames) /\ Len(stack') = Len(stack)
    BY <2>2, <2>3, <2>4
  <2>. QED BY <1>2, <2>1, <2>5 DEF TypeOK, registerHook, Entries, Frames
<1>4. ASSUME NEW i \in 1 .. Len(hooks), hooks' = [hooks EXCEPT ![i].types = @ \cup ts],
             UNCHANGED stack
      PROVE  TypeOK'
  <2>1. hooks' \in Seq(Entries)
    <3>. hooks \in Seq(Entries)
      BY DEF TypeOK, Entries
    <3>. hooks[i] \in Entries
      OBVIOUS
    <3>1. [hooks[i] EXCEPT !.types = @ \cup ts] \in Entries
      BY <1>1 DEF Entries
    <3>2. hooks' = [hooks EXCEPT ![i] = [hooks[i] EXCEPT !.types = @ \cup ts]]
      BY <1>4
    <3>. QED BY <3>1, <3>2, ExceptSeq
  <2>. QED BY <1>2, <1>4, <2>1 DEF TypeOK, registerHook, Entries
<1>. QED BY <1>3, <1>4 DEF registerHook

LEMMA DeliverTyped ==
  ASSUME TypeOK, NEW kind \in Kinds, Deliver(kind)
  PROVE  TypeOK'
<1>1. Now(kind) \subseteq Types
  BY DEF Now, Types, SingleShot
<1>2. Frame(Now(kind)) \in Frames
  BY <1>1 DEF Frame, Frames
<1>3. stack' = Append(stack, Frame(Now(kind))) /\ stack \in Seq(Frames) /\ Len(stack) < MaxDepth
  BY DEF Deliver, TypeOK, Frames
<1>4. stack' \in Seq(Frames) /\ Len(stack') <= MaxDepth
  BY <1>2, <1>3, HooksAssumption
<1>5. fired' \subseteq Types /\ loopEvent' \in BOOLEAN
  BY <1>1 DEF Deliver, TypeOK
<1>. QED BY <1>4, <1>5 DEF Deliver, TypeOK, Frames

(* Taking an entry out of the vector, or writing to it. *)
LEMMA CallTyped ==
  ASSUME TypeOK, Call
  PROVE  TypeOK'
<1>. DEFINE k == Top.it
            entry == hooks[k]
            left == Left(entry.types, Top.types)
<1>1. stack # <<>> /\ Top \in Frames /\ hooks \in Seq(Entries)
  BY TopType DEF Call, AtEntry, Walking, TypeOK, Entries
<1>2. k \in 1 .. Len(hooks)
  BY <1>1 DEF Call, AtEntry, Frames
<1>3. entry \in Entries
  BY <1>1, <1>2
<1>. left \subseteq Types
  BY <1>3 DEF Entries, Left
<1>4. hooks' \in Seq(Entries)
  <2>1. CASE left = {}
    BY <1>1, <1>2, <2>1, RemoveAtProperties DEF Call
  <2>2. CASE left # {}
    <3>1. [entry EXCEPT !.types = left] \in Entries
      BY <1>3 DEF Entries
    <3>2. hooks' = [hooks EXCEPT ![k] = [entry EXCEPT !.types = left]]
      BY <2>2 DEF Call
    <3>. QED BY <1>1, <1>2, <3>1, <3>2, ExceptSeq
  <2>. QED BY <2>1, <2>2
<1>5. [Top EXCEPT !.running = entry.fun] \in Frames
  BY <1>1, <1>3 DEF Frames, Entries
<1>6. stack' \in Seq(Frames) /\ Len(stack') = Len(stack)
  BY <1>1, <1>5, SetTopType DEF Call
<1>. QED BY <1>4, <1>6 DEF Call, TypeOK, Entries, Frames

LEMMA WalkTyped ==
  ASSUME TypeOK, Walk
  PROVE  TypeOK'
<1>1. CASE PassOver
  <2>1. [Top EXCEPT !.it = @ + 1] \in Frames
    BY <1>1, TopType DEF PassOver, AtEntry, Walking, Frames
  <2>. QED BY <1>1, <2>1, SetTopType DEF PassOver, AtEntry, Walking, TypeOK, Frames
<1>2. CASE HookReturns
  <2>1. [Top EXCEPT !.running = None, !.stop = @ \/ Top.running \in Stopping] \in Frames
    BY <1>2, TopType DEF HookReturns, Frames
  <2>. QED BY <1>2, <2>1, SetTopType DEF HookReturns, TypeOK, Frames
<1>3. CASE Finish
  <2>1. stack' \in Seq(Frames) /\ Len(stack') = Len(stack) - 1
    BY <1>3, FrontProperties DEF Finish, Walking, TypeOK, Frames
  <2>2. Len(stack') <= MaxDepth
    BY <2>1, HooksAssumption DEF TypeOK
  <2>. QED BY <1>3, <2>1, <2>2 DEF Finish, TypeOK, Frames
<1>. QED BY <1>1, <1>2, <1>3, CallTyped DEF Walk

LEMMA InitTyped == Init => TypeOK
<1>. SUFFICES ASSUME Init PROVE TypeOK
  OBVIOUS
<1>1. Len(stack) <= MaxDepth /\ registered \in 0 .. MaxRegistrations
  BY HooksAssumption DEF Init
<1>2. hooks \in Seq(Entries) /\ stack \in Seq(Frames)
  BY EmptySeq DEF Init
<1>. QED BY <1>1, <1>2 DEF Init, TypeOK, Entries, Frames

LEMMA NextTyped == TypeOK /\ [Next]_vars => TypeOK'
<1>1. ASSUME TypeOK, UNCHANGED vars PROVE TypeOK'
  BY <1>1 DEF vars, TypeOK
<1>. QED BY <1>1, RegisterTyped, DeliverTyped, WalkTyped DEF Next, Register, Event

LEMMA AlwaysTyped == Spec => []TypeOK
BY InitTyped, NextTyped, PTL DEF Spec

-----------------------------------------------------------------------------
(* How the programs use the processor: they register for single-shot       *)
(* occasions, not from within a hook, and no hook spins the event loop     *)
(* for the first time.                                                     *)
Orderly == /\ \A ts \in Requests : ts \subseteq SingleShot
           /\ Registering = {}
           /\ Nesting = {} \/ "loop" \notin NestedKinds

(* The entries of s in which h waits for t. *)
Waiting(s, h, t) == {i \in 1 .. Len(s) : s[i].fun = h /\ t \in s[i].types}
Pending(h, t) == Cardinality(Waiting(hooks, h, t))

(* Only function pointers are recognised, and those have one entry.        *)
EntriesOK == /\ \A i \in 1 .. Len(hooks) : hooks[i].types \subseteq SingleShot
             /\ \A i, j \in 1 .. Len(hooks) :
                    hooks[i].fun = hooks[j].fun /\ hooks[i].fun \in Plain => i = j

(* A call that has passed an entry has nothing more to do with it, and one *)
(* within another has nothing to do at all.                                *)
FramesOK == \A k \in 1 .. Len(stack) :
              LET f == stack[k] IN
              /\ f.valid /\ f.it <= Len(hooks) + 1 /\ f.types \subseteq fired
              /\ \A i \in 1 .. f.it - 1 : hooks[i].types \cap f.types = {}
              /\ f.running # None => "HasQApplicationHook" \in fired
              /\ k > 1 => f.types \cap SingleShot = {} /\ f.running = None

AppFirst == "EventLoopSpinupHook" \in fired => "HasQApplicationHook" \in fired

(* The call under way is on account of t. *)
Now1(t) == stack # <<>> /\ t \in stack[1].types

CountsType == /\ asked \in [Hooks -> [Types -> Nat]] /\ calls \in [Hooks -> [Types -> Nat]]
              /\ \A h \in Hooks, t \in Types : asked[h][t] <= registered

(* Before an occasion all who asked are waiting; while it is announced     *)
(* they were called or are waiting; and then all were called.              *)
Accounts == \A h \in Hooks, t \in SingleShot :
              /\ t \notin fired => calls[h][t] = 0 /\ asked[h][t] = Pending(h, t)
              /\ t \in fired => asked[h][t] = calls[h][t] + (IF Now1(t) THEN Pending(h, t) ELSE 0)

OnceInv == TypeOK /\ EntriesOK /\ FramesOK /\ AppFirst /\ CountsType /\ Accounts

-----------------------------------------------------------------------------
(* Counting the entries in which a hook waits: one is appended, one is     *)
(* taken out, and one is written to.                                       *)
LEMMA WaitingFinite ==
  ASSUME NEW s \in Seq(Entries), NEW h, NEW t
  PROVE  IsFiniteSet(Waiting(s, h, t)) /\ Cardinality(Waiting(s, h, t)) \in Nat
<1>1. IsFiniteSet(1 .. Len(s))
  BY FS_Interval
<1>2. IsFiniteSet(Waiting(s, h, t))
  BY <1>1, FS_Subset DEF Waiting
<1>. QED BY <1>2, FS_CardinalityType

LEMMA WaitingAppend ==
  ASSUME NEW s \in Seq(Entries), NEW e \in Entries, NEW h, NEW t
  PROVE  Cardinality(Waiting(Append(s, e), h, t)) =
           Cardinality(Waiting(s, h, t)) + (IF e.fun = h /\ t \in e.types THEN 1 ELSE 0)
<1>. DEFINE n == Len(s) + 1
<1>1. n \notin Waiting(s, h, t)
  BY DEF Waiting
<1>2. CASE e.fun = h /\ t \in e.types
  <2>1. Waiting(Append(s, e), h, t) = Waiting(s, h, t) \cup {n}
    BY <1>2 DEF Waiting
  <2>. QED BY <1>1, <1>2, <2>1, WaitingFinite, FS_AddElement
<1>3. CASE ~(e.fun = h /\ t \in e.types)
  <2>1. Waiting(Append(s, e), h, t) = Waiting(s, h, t)
    BY <1>3 DEF Waiting
  <2>. QED BY <1>3, <2>1, WaitingFinite
<1>. QED BY <1>2, <1>3

LEMMA RemoveCount ==
  ASSUME NEW S, IsFiniteSet(S), Cardinality(S) \in Nat, NEW k
  PROVE  Cardinality(S \ {k}) = Cardinality(S) - (IF k \in S THEN 1 ELSE 0)
<1>1. CASE k \in S
  BY <1>1, FS_RemoveElement
<1>2. CASE k \notin S
  <2>1. S \ {k} = S
    BY <1>2
  <2>. QED BY <1>2, <2>1
<1>. QED BY <1>1, <1>2

LEMMA OneOrMore == \A n \in Nat \ {0} : n > 1 \/ n = 1
OBVIOUS

LEMMA WaitingWrite ==
  ASSUME NEW s \in Seq(Entries), NEW u \in Seq(Entries), NEW k \in 1 .. Len(s), Len(u) = Len(s),
         \A i \in 1 .. Len(s) : i # k => u[i] = s[i], NEW h, NEW t
  PROVE  Cardinality(Waiting(u, h, t)) = Cardinality(Waiting(s, h, t))
           - (IF k \in Waiting(s, h, t) THEN 1 ELSE 0) + (IF k \in Waiting(u, h, t) THEN 1 ELSE 0)
<1>1. Waiting(u, h, t) \ {k} = Waiting(s, h, t) \ {k}
  BY DEF Waiting
<1>2. /\ IsFiniteSet(Waiting(u, h, t)) /\ Cardinality(Waiting(u, h, t)) \in Nat
      /\ IsFiniteSet(Waiting(s, h, t)) /\ Cardinality(Waiting(s, h, t)) \in Nat
  BY WaitingFinite
<1>3. /\ Cardinality(Waiting(u, h, t) \ {k}) = Cardinality(Waiting(u, h, t))
                                                 - (IF k \in Waiting(u, h, t) THEN 1 ELSE 0)
      /\ Cardinality(Waiting(s, h, t) \ {k}) = Cardinality(Waiting(s, h, t))
                                                 - (IF k \in Waiting(s, h, t) THEN 1 ELSE 0)
  BY <1>2, RemoveCount
<1>. DEFINE a == Cardinality(Waiting(u, h, t))
            b == Cardinality(Waiting(s, h, t))
            x == IF k \in Waiting(u, h, t) THEN 1 ELSE 0
            y == IF k \in Waiting(s, h, t) THEN 1 ELSE 0
<1>4. /\ a - x = b - y
      /\ a \in Nat /\ b \in Nat /\ x \in {0, 1} /\ y \in {0, 1}
  BY <1>1, <1>2, <1>3
<1>5. a = b - y + x
  <2>. HIDE DEF a, b, x, y
  <2>. QED BY <1>4
<1>. QED BY <1>5

LEMMA WaitingRemove ==
  ASSUME NEW s \in Seq(Entries), NEW k \in 1 .. Len(s), NEW h, NEW t
  PROVE  Cardinality(Waiting(RemoveAt(s, k), h, t)) =
           Cardinality(Waiting(s, h, t)) - (IF k \in Waiting(s, h, t) THEN 1 ELSE 0)
<1>. DEFINE u == RemoveAt(s, k)
            A == Waiting(s, h, t) \ {k}
            B == Waiting(u, h, t)
            f == [i \in A |-> IF i < k THEN i ELSE i - 1]
<1>1. /\ u \in Seq(Entries) /\ Len(u) = Len(s) - 1
      /\ \A i \in 1 .. Len(s) - 1 : u[i] = IF i < k THEN s[i] ELSE s[i + 1]
  BY RemoveAtProperties
<1>2. IsFiniteSet(A) /\ Cardinality(A) = Cardinality(Waiting(s, h, t))
                                           - (IF k \in Waiting(s, h, t) THEN 1 ELSE 0)
  BY WaitingFinite, FS_RemoveElement
<1>3. f \in [A -> B]
  <2>. SUFFICES ASSUME NEW i \in A PROVE f[i] \in B
    OBVIOUS
  <2>1. i \in 1 .. Len(s) /\ i # k /\ s[i].fun = h /\ t \in s[i].types
    BY DEF Waiting
  <2>2. f[i] \in 1 .. Len(s) - 1 /\ u[f[i]] = s[i]
    BY <1>1, <2>1
  <2>. QED BY <1>1, <2>1, <2>2 DEF Waiting
<1>4. \A i, j \in A : f[i] = f[j] => i = j
  BY DEF Waiting
<1>5. \A b \in B : \E i \in A : f[i] = b
  <2>. SUFFICES ASSUME NEW b \in B PROVE \E i \in A : f[i] = b
    OBVIOUS
  <2>1. b \in 1 .. Len(s) - 1 /\ u[b].fun = h /\ t \in u[b].types
    BY <1>1 DEF Waiting
  <2>2. CASE b < k
    <3>1. b \in A
      BY <1>1, <2>1, <2>2 DEF Waiting
    <3>. QED BY <2>2, <3>1
  <2>3. CASE b >= k
    <3>1. b + 1 \in A
      BY <1>1, <2>1, <2>3 DEF Waiting
    <3>2. f[b + 1] = b
      BY <2>1, <2>3, <3>1
    <3>. QED BY <3>1, <3>2
  <2>. QED BY <2>1, <2>2, <2>3
<1>6. ExistsBijection(A, B)
  <2>. HIDE DEF A, B, f
  <2>. QED BY <1>3, <1>4, <1>5 DEF ExistsBijection, Bijection, Injection, Surjection, IsInjective
<1>7. Cardinality(B) = Cardinality(A)
  BY <1>2, <1>6, FS_Bijection
<1>. QED BY <1>2, <1>7

-----------------------------------------------------------------------------
(* When no occasion comes, nothing is called and the accounts stay.        *)
LEMMA AccountsStay ==
  ASSUME Accounts, UNCHANGED <<hooks, asked, calls>>,
         \A t \in SingleShot : (t \in fired' <=> t \in fired) /\ (Now1(t)' <=> Now1(t))
  PROVE  Accounts'
BY DEF Accounts, Pending

LEMMA OnceRegister ==
  ASSUME Orderly, OnceInv, NEW h \in Hooks, NEW ts \in Requests, registerHook(h, ts)
  PROVE  OnceInv'
<1>1. stack = <<>> /\ ts \subseteq SingleShot /\ hooks \in Seq(Entries)
  BY DEF registerHook, Running, Orderly, OnceInv, TypeOK, Entries
<1>2. TypeOK'
  BY RegisterTyped DEF OnceInv
<1>3. /\ asked' \in [Hooks -> [Types -> Nat]] /\ UNCHANGED <<calls, fired>>
      /\ registered' = registered + 1
      /\ \A g \in Hooks, t \in Types :
           asked'[g][t] = IF g = h /\ t \in ts \ fired
                          THEN IF h \in Plain THEN 1 ELSE asked[g][t] + 1
                          ELSE asked[g][t]
  BY DEF registerHook, OnceInv, CountsType
<1>4. CountsType'
  <2>1. registered \in Nat /\ \A g \in Hooks, t \in Types : /\ asked[g][t] \in Nat
                                                        /\ asked[g][t] <= registered
    BY HooksAssumption DEF OnceInv, CountsType, TypeOK
  <2>2. \A g \in Hooks, t \in Types : asked'[g][t] <= registered + 1
    BY <1>3, <2>1
  <2>. QED BY <1>3, <2>2 DEF OnceInv, CountsType
<1>5. CASE (\A i \in 1..Len(hooks) : ~Has(hooks[i], h)) /\ PushBack(h, ts)
  <2>. DEFINE e == [fun |-> h, types |-> ts]
  <2>1. e \in Entries /\ hooks' = Append(hooks, e)
    BY <1>1, <1>5 DEF Entries, Types, PushBack
  <2>2. stack' = <<>>
    BY <1>1, <1>5 DEF PushBack
  <2>3. /\ hooks' \in Seq(Entries) /\ Len(hooks') = Len(hooks) + 1 /\ hooks'[Len(hooks) + 1] = e
        /\ \A i \in 1 .. Len(hooks) : hooks'[i] = hooks[i]
    BY <1>1, <2>1, AppendProperties
  <2>4. h \in Plain => \A i \in 1 .. Len(hooks) : hooks[i].fun # h
    BY <1>5 DEF Has
  <2>5. EntriesOK'
    BY <1>1, <2>3, <2>4 DEF OnceInv, EntriesOK
  <2>6. FramesOK' /\ AppFirst'
    BY <1>3, <2>2 DEF OnceInv, FramesOK, AppFirst
  <2>7. ASSUME NEW g \in Hooks, NEW t \in SingleShot
        PROVE  Pending(g, t)' = Pending(g, t) + (IF g = h /\ t \in ts THEN 1 ELSE 0)
    BY <1>1, <2>1, WaitingAppend DEF Pending
  <2>8. ASSUME h \in Plain, NEW t \in SingleShot
        PROVE  Pending(h, t) = 0
    <3>1. Waiting(hooks, h, t) = {}
      BY <2>4, <2>8 DEF Waiting
    <3>. QED BY <3>1, FS_EmptySet DEF Pending
  <2>9. Accounts'
    <3>1. \A t \in SingleShot : t \in Types /\ ~Now1(t) /\ ~Now1(t)'
      BY <1>1, <2>2 DEF Now1, Types
    <3>. QED BY <1>3, <2>7, <2>8, <3>1 DEF OnceInv, Accounts, CountsType
  <2>. QED BY <1>2, <1>4, <2>5, <2>6, <2>9 DEF OnceInv
<1>6. ASSUME NEW k \in 1 .. Len(hooks), Has(hooks[k], h),
             hooks' = [hooks EXCEPT ![k].types = @ \cup ts], UNCHANGED stack
      PROVE  OnceInv'
  <2>1. hooks[k] \in Entries /\ hooks[k].fun = h /\ h \in Plain
    BY <1>1, <1>6 DEF Has
  <2>2. /\ hooks' \in Seq(Entries) /\ Len(hooks') = Len(hooks)
        /\ hooks'[k] = [hooks[k] EXCEPT !.types = @ \cup ts]
        /\ \A i \in 1 .. Len(hooks) : i # k => hooks'[i] = hooks[i]
    <3>1. [hooks[k] EXCEPT !.types = @ \cup ts] \in Entries
      BY <1>1, <2>1 DEF Entries, Types
    <3>2. hooks' = [hooks EXCEPT ![k] = [hooks[k] EXCEPT !.types = @ \cup ts]]
      BY <1>6
    <3>3. \A v : v \in Entries => LET u == [hooks EXCEPT ![k] = v] IN
            /\ u \in Seq(Entries) /\ Len(u) = Len(hooks) /\ u[k] = v
            /\ \A i \in 1 .. Len(hooks) : i # k => u[i] = hooks[i]
      BY <1>1
    <3>. QED BY <3>1, <3>2, <3>3
  <2>3. hooks'[k].fun = h /\ hooks'[k].types = hooks[k].types \cup ts
    BY <2>1, <2>2 DEF Entries
  <2>4. EntriesOK'
    BY <1>1, <2>1, <2>2, <2>3 DEF OnceInv, EntriesOK
  <2>5. FramesOK' /\ AppFirst'
    BY <1>1, <1>3, <1>6 DEF OnceInv, FramesOK, AppFirst
  <2>6. ASSUME NEW g \in Hooks, NEW t \in SingleShot
        PROVE  Pending(g, t)' = IF g = h /\ t \in ts THEN 1 ELSE Pending(g, t)
    <3>1. Pending(g, t)' = Pending(g, t) - (IF k \in Waiting(hooks, g, t) THEN 1 ELSE 0)
                                         + (IF k \in Waiting(hooks', g, t) THEN 1 ELSE 0)
      BY <1>1, <2>2, WaitingWrite DEF Pending
    <3>2. CASE ~(g = h /\ t \in ts)
      <4>1. k \in Waiting(hooks, g, t) <=> k \in Waiting(hooks', g, t)
        BY <2>1, <2>2, <2>3, <3>2 DEF Waiting
      <4>. QED BY <1>1, <3>1, <3>2, <4>1, WaitingFinite DEF Pending
    <3>3. CASE g = h /\ t \in ts
      <4>1. Waiting(hooks', g, t) = {k}
        BY <2>1, <2>2, <2>3, <2>4, <3>3 DEF Waiting, EntriesOK
      <4>. QED BY <3>3, <4>1, FS_Singleton DEF Pending
    <3>. QED BY <3>2, <3>3
  <2>7. Accounts'
    <3>1. \A t \in SingleShot : t \in Types /\ ~Now1(t) /\ ~Now1(t)'
      BY <1>1, <1>6 DEF Now1, Types
    <3>. QED BY <1>3, <2>1, <2>6, <3>1 DEF OnceInv, Accounts, CountsType
  <2>. QED BY <1>2, <1>4, <2>4, <2>5, <2>7 DEF OnceInv
<1>. QED BY <1>5, <1>6 DEF registerHook

LEMMA OnceDeliver ==
  ASSUME Orderly, OnceInv, NEW kind \in Kinds, Deliver(kind)
  PROVE  OnceInv'
<1>. DEFINE now == Now(kind)
<1>1. TypeOK'
  BY DeliverTyped DEF OnceInv
<1>2. /\ fired' = fired \cup now /\ stack' = Append(stack, Frame(now))
      /\ UNCHANGED <<hooks, asked, calls, registered>>
  BY DEF Deliver
<1>3. /\ stack \in Seq(Frames) /\ Frame(now) \in Frames
      /\ \A k \in 1 .. Len(stack) : stack[k] \in Frames
  <2>1. now \subseteq Types
    BY DEF Now, Types, SingleShot
  <2>2. Frame(now) \in Frames
    BY <2>1 DEF Frame, Frames
  <2>3. stack \in Seq(Frames)
    BY DEF OnceInv, TypeOK, Frames
  <2>. QED BY <2>2, <2>3
<1>4. /\ Len(stack') = Len(stack) + 1 /\ stack'[Len(stack) + 1] = Frame(now)
      /\ \A k \in 1 .. Len(stack) : stack'[k] = stack[k]
  BY <1>2, <1>3, AppendProperties
<1>5. EntriesOK' /\ CountsType'
  BY <1>2 DEF OnceInv, EntriesOK, CountsType
<1>6. AppFirst'
  BY <1>2 DEF Now, OnceInv, AppFirst, Kinds
<1>7. stack # <<>> => now \cap SingleShot = {}
  <2>. SUFFICES ASSUME stack # <<>> PROVE now \cap SingleShot = {}
    OBVIOUS
  <2>1. Top.running \in Nesting /\ kind \in NestedKinds
    BY DEF Deliver, Running
  <2>2. kind # "loop"
    BY <2>1 DEF Orderly
  <2>3. Top.running # None
    BY <2>1, HooksAssumption
  <2>4. "HasQApplicationHook" \in fired
    <3>1. Len(stack) \in 1 .. Len(stack)
      BY <1>3, EmptySeq
    <3>. QED BY <2>3, <3>1 DEF OnceInv, FramesOK, Top
  <2>. QED BY <2>2, <2>4 DEF Now, SingleShot
<1>8. FramesOK'
  <2>. SUFFICES ASSUME NEW k \in 1 .. Len(stack) + 1, NEW f, f = stack'[k]
                PROVE  /\ f.valid /\ f.it <= Len(hooks) + 1 /\ f.types \subseteq fired'
                       /\ \A i \in 1 .. f.it - 1 : hooks[i].types \cap f.types = {}
                       /\ f.running # None => "HasQApplicationHook" \in fired'
                       /\ k > 1 => f.types \cap SingleShot = {} /\ f.running = None
    BY <1>2, <1>4 DEF FramesOK
  <2>1. CASE k \in 1 .. Len(stack)
    BY <1>2, <1>4, <2>1 DEF OnceInv, FramesOK
  <2>2. CASE k = Len(stack) + 1
    <3>1. f = Frame(now) /\ f.valid /\ f.it = 1 /\ f.types = now /\ f.running = None
      BY <1>4, <2>2 DEF Frame
    <3>2. k > 1 => stack # <<>>
      BY <2>2
    <3>3. 1 <= Len(hooks) + 1
      BY DEF OnceInv, TypeOK
    <3>. QED BY <1>2, <1>7, <3>1, <3>2, <3>3
  <2>. QED BY <1>3, <2>1, <2>2
<1>9. Accounts'
  <2>1. CASE stack # <<>>
    <3>1. Len(stack) >= 1 /\ stack' # <<>> /\ stack'[1] = stack[1]
      BY <1>2, <1>3, <1>4, <2>1, EmptySeq
    <3>. QED BY <1>2, <1>7, <2>1, <3>1, AccountsStay DEF OnceInv, Now1
  <2>2. CASE stack = <<>>
    <3>1. stack' # <<>> /\ stack'[1] = Frame(now)
      BY <1>2, <1>3, <1>4, <2>2
    <3>2. \A t \in SingleShot : /\ Now1(t)' <=> t \in now
                                /\ t \in now => t \notin fired
                                /\ ~Now1(t)
      BY <2>2, <3>1 DEF Now1, Frame, Now, SingleShot
    <3>3. \A h \in Hooks, t \in SingleShot : Pending(h, t)' = Pending(h, t) /\ Pending(h, t) \in Nat
      BY <1>2, WaitingFinite DEF Pending, OnceInv, TypeOK, Entries
    <3>. QED BY <1>2, <3>2, <3>3 DEF OnceInv, Accounts
  <2>. QED BY <2>1, <2>2
<1>. QED BY <1>1, <1>5, <1>6, <1>8, <1>9 DEF OnceInv

(* A step within the top frame, which leaves the vector and the accounts.  *)
LEMMA OnceTop ==
  ASSUME OnceInv, TypeOK', stack # <<>>, NEW f \in Frames, SetTop(f), f.types = Top.types,
         UNCHANGED <<hooks, fired, asked, calls, registered>>,
         f.valid, f.it <= Len(hooks) + 1,
         \A i \in 1 .. f.it - 1 : hooks[i].types \cap f.types = {},
         f.running = None
  PROVE  OnceInv'
<1>1. TypeOK /\ Len(stack) \in Nat \ {0} /\ Top = stack[Len(stack)]
  BY TopType DEF OnceInv, Top
<1>2. /\ Len(stack') = Len(stack) /\ stack'[Len(stack)] = f
      /\ \A k \in 1 .. Len(stack) - 1 : stack'[k] = stack[k]
  BY <1>1, SetTopType
<1>3. FramesOK'
  <2>. SUFFICES ASSUME NEW k \in 1 .. Len(stack)
                PROVE  LET g == stack'[k] IN
                       /\ g.valid /\ g.it <= Len(hooks) + 1 /\ g.types \subseteq fired
                       /\ \A i \in 1 .. g.it - 1 : hooks[i].types \cap g.types = {}
                       /\ g.running # None => "HasQApplicationHook" \in fired
                       /\ k > 1 => g.types \cap SingleShot = {} /\ g.running = None
    BY <1>2 DEF FramesOK
  <2>1. CASE k = Len(stack)
    BY <1>1, <1>2, <2>1 DEF OnceInv, FramesOK
  <2>2. CASE k # Len(stack)
    BY <1>1, <1>2, <2>2 DEF OnceInv, FramesOK
  <2>. QED BY <2>1, <2>2
<1>4. \A t : Now1(t)' <=> Now1(t)
  <2>1. stack'[1].types = stack[1].types /\ stack' # <<>>
    BY <1>1, <1>2
  <2>. QED BY <2>1 DEF Now1
<1>5. Accounts'
  BY <1>4, AccountsStay DEF OnceInv
<1>. QED BY <1>3, <1>5 DEF OnceInv, EntriesOK, AppFirst, CountsType

(* A call is made by the outer frame only, and takes from what it waits    *)
(* for what has come.                                                      *)
LEMMA OnceCall ==
  ASSUME OnceInv, Call
  PROVE  OnceInv'
<1>. DEFINE k == Top.it
            e == hooks[k]
            left == Left(e.types, Top.types)
<1>1. TypeOK /\ stack # <<>> /\ Top \in Frames /\ Len(stack) \in Nat \ {0}
      /\ hooks \in Seq(Entries)
  BY TopType DEF Call, AtEntry, Walking, OnceInv, TypeOK, Entries
<1>. Len(stack) \in Nat \ {0}
  BY <1>1
<1>2. k \in 1 .. Len(hooks) /\ e \in Entries /\ e.types \subseteq SingleShot
      /\ e.types \cap Top.types # {}
  <2>1. k \in 1 .. Len(hooks)
    BY <1>1 DEF Call, AtEntry, Frames
  <2>. QED BY <1>1, <2>1 DEF Call, OnceInv, EntriesOK
<1>3. Len(stack) = 1 /\ Top = stack[1]
  <2>1. Len(stack) \in 1 .. Len(stack) /\ Top = stack[Len(stack)]
    BY <1>1 DEF Top
  <2>2. Len(stack) > 1 => Top.types \cap SingleShot = {}
    BY <2>1 DEF OnceInv, FramesOK
  <2>3. ~(Len(stack) > 1)
    BY <1>2, <2>2
  <2>4. Len(stack) = 1
    BY <1>1, <2>3, OneOrMore
  <2>. QED BY <2>1, <2>4
<1>4. left = e.types \ Top.types
  BY <1>2 DEF Left, SingleShot
<1>5. TypeOK'
  BY <1>1, CallTyped
<1>6. [Top EXCEPT !.running = e.fun] \in Frames
  BY <1>1, <1>2 DEF Frames, Entries
<1>7. /\ Len(stack') = 1 /\ stack'[1] = [Top EXCEPT !.running = e.fun]
      /\ UNCHANGED <<fired, asked, registered>>
  BY <1>1, <1>3, <1>6, SetTopType DEF Call
<1>8. /\ stack'[1].types = Top.types /\ stack'[1].valid = Top.valid /\ stack'[1].it = k
      /\ Top.valid /\ Top.types \subseteq fired
      /\ \A i \in 1 .. k - 1 : hooks[i].types \cap Top.types = {}
  BY <1>1, <1>3, <1>7 DEF Frames, OnceInv, FramesOK
<1>9. "HasQApplicationHook" \in fired
  BY <1>2, <1>8 DEF OnceInv, AppFirst, SingleShot
<1>10. /\ hooks' \in Seq(Entries) /\ Len(hooks') \in Nat /\ k <= Len(hooks') + 1
       /\ \A i \in 1 .. k - 1 : hooks'[i] = hooks[i]
       /\ EntriesOK'
       /\ \A h \in Hooks, t \in SingleShot :
            Pending(h, t)' = Pending(h, t) - (IF h = e.fun /\ t \in e.types \cap Top.types THEN 1 ELSE 0)
  <2>1. CASE left = {}
    <3>1. hooks' = RemoveAt(hooks, k) /\ e.types \subseteq Top.types
      BY <1>4, <2>1 DEF Call
    <3>2. /\ hooks' \in Seq(Entries) /\ Len(hooks') = Len(hooks) - 1
          /\ \A i \in 1 .. Len(hooks) - 1 : hooks'[i] = IF i < k THEN hooks[i] ELSE hooks[i + 1]
      BY <1>1, <1>2, <3>1, RemoveAtProperties
    <3>3. \A i \in 1 .. k - 1 : hooks'[i] = hooks[i]
      BY <1>2, <3>2
    <3>4. EntriesOK'
      <4>1. \A i \in 1 .. Len(hooks') : hooks'[i].types \subseteq SingleShot
        BY <1>1, <1>2, <3>2 DEF OnceInv, EntriesOK
      <4>2. ASSUME NEW i \in 1 .. Len(hooks'), NEW j \in 1 .. Len(hooks'),
                   hooks'[i].fun = hooks'[j].fun /\ hooks'[i].fun \in Plain
            PROVE  i = j
        <5>. DEFINE a == IF i < k THEN i ELSE i + 1
                    b == IF j < k THEN j ELSE j + 1
        <5>1. /\ a \in 1 .. Len(hooks) /\ b \in 1 .. Len(hooks)
              /\ hooks'[i] = hooks[a] /\ hooks'[j] = hooks[b]
          BY <1>1, <1>2, <3>2
        <5>2. a = b
          BY <4>2, <5>1 DEF OnceInv, EntriesOK
        <5>. QED BY <1>2, <5>2
      <4>. QED BY <4>1, <4>2 DEF EntriesOK
    <3>5. ASSUME NEW h \in Hooks, NEW t \in SingleShot
          PROVE  Pending(h, t)' = Pending(h, t)
                   - (IF h = e.fun /\ t \in e.types \cap Top.types THEN 1 ELSE 0)
      <4>1. k \in Waiting(hooks, h, t) <=> h = e.fun /\ t \in e.types \cap Top.types
        BY <1>2, <3>1 DEF Waiting
      <4>. QED BY <1>1, <1>2, <3>1, <4>1, WaitingRemove DEF Pending
    <3>. QED BY <1>1, <1>2, <3>2, <3>3, <3>4, <3>5
  <2>2. CASE left # {}
    <3>1. [e EXCEPT !.types = left] \in Entries
      BY <1>2, <1>4 DEF Entries
    <3>2. hooks' = [hooks EXCEPT ![k] = [e EXCEPT !.types = left]]
      BY <2>2 DEF Call
    <3>3. /\ hooks' \in Seq(Entries) /\ Len(hooks') = Len(hooks)
          /\ hooks'[k] = [e EXCEPT !.types = left]
          /\ \A i \in 1 .. Len(hooks) : i # k => hooks'[i] = hooks[i]
      BY <1>1, <1>2, <3>1, <3>2, ExceptSeq
    <3>4. hooks'[k].fun = e.fun /\ hooks'[k].types = left
      BY <1>2, <3>3 DEF Entries
    <3>5. EntriesOK'
      <4>1. \A i \in 1 .. Len(hooks) : /\ hooks'[i].fun = hooks[i].fun
                                      /\ hooks'[i].types \subseteq hooks[i].types
        BY <1>4, <3>3, <3>4
      <4>. QED BY <3>3, <4>1 DEF OnceInv, EntriesOK
    <3>6. ASSUME NEW h \in Hooks, NEW t \in SingleShot
          PROVE  Pending(h, t)' = Pending(h, t)
                   - (IF h = e.fun /\ t \in e.types \cap Top.types THEN 1 ELSE 0)
      <4>1. Pending(h, t)' = Pending(h, t) - (IF k \in Waiting(hooks, h, t) THEN 1 ELSE 0)
                                           + (IF k \in Waiting(hooks', h, t) THEN 1 ELSE 0)
        BY <1>1, <1>2, <3>3, WaitingWrite DEF Pending
      <4>2. /\ k \in Waiting(hooks, h, t) <=> h = e.fun /\ t \in e.types
            /\ k \in Waiting(hooks', h, t) <=> h = e.fun /\ t \in e.types \ Top.types
        BY <1>2, <1>4, <3>3, <3>4 DEF Waiting
      <4>3. Pending(h, t) \in Nat
        BY <1>1, WaitingFinite DEF Pending
      <4>. QED BY <4>1, <4>2, <4>3
    <3>. QED BY <1>1, <1>2, <3>3, <3>5, <3>6
  <2>. QED BY <2>1, <2>2
<1>11. FramesOK'
  <2>1. \A i \in 1 .. k - 1 : hooks'[i].types \cap Top.types = {}
    BY <1>8, <1>10
  <2>2. \A j \in 1 .. Len(stack') : j = 1
    BY <1>7
  <2>3. /\ stack'[1].valid /\ stack'[1].it <= Len(hooks') + 1 /\ stack'[1].types \subseteq fired'
        /\ \A i \in 1 .. stack'[1].it - 1 : hooks'[i].types \cap stack'[1].types = {}
        /\ "HasQApplicationHook" \in fired'
    BY <1>7, <1>8, <1>9, <1>10, <2>1
  <2>. QED BY <2>2, <2>3 DEF FramesOK
<1>12. ASSUME NEW h \in Hooks, NEW t \in SingleShot
       PROVE  calls'[h][t] = calls[h][t] + (IF h = e.fun /\ t \in e.types \cap Top.types THEN 1 ELSE 0)
  <2>1. t \in Types /\ e.fun \in Hooks
    BY <1>2 DEF Types, Entries
  <2>2. calls'[h][t] = IF h = e.fun /\ t \in e.types \cap Top.types
                       THEN Counted(calls[h][t]) ELSE calls[h][t]
    BY <2>1 DEF Call, OnceInv, CountsType
  <2>3. calls[h][t] \in Nat /\ asked[h][t] \in Nat /\ asked[h][t] <= registered
    BY <2>1 DEF OnceInv, CountsType
  <2>4. CASE h = e.fun /\ t \in e.types \cap Top.types
    <3>1. t \in fired /\ Now1(t)
      BY <1>1, <1>3, <1>8, <2>4 DEF Now1
    <3>2. asked[h][t] = calls[h][t] + Pending(h, t)
      BY <3>1 DEF OnceInv, Accounts
    <3>3. Pending(h, t) \in Nat /\ Pending(h, t) # 0
      <4>1. k \in Waiting(hooks, h, t)
        BY <1>2, <2>4 DEF Waiting
      <4>. QED BY <1>1, <4>1, WaitingFinite, FS_EmptySet DEF Pending
    <3>4. calls[h][t] < MaxRegistrations
      BY <2>3, <3>2, <3>3, HooksAssumption DEF OnceInv, TypeOK
    <3>. QED BY <2>2, <2>3, <2>4, <3>4, HooksAssumption DEF Counted
  <2>5. CASE ~(h = e.fun /\ t \in e.types \cap Top.types)
    BY <2>2, <2>3, <2>5
  <2>. QED BY <2>4, <2>5
<1>13. CountsType'
  <2>1. calls' \in [Hooks -> [Types -> Nat]]
    BY <1>2, HooksAssumption DEF Call, OnceInv, CountsType, Counted, Entries
  <2>. QED BY <1>7, <2>1 DEF OnceInv, CountsType
<1>14. Accounts'
  <2>1. \A t \in SingleShot : /\ Now1(t) <=> t \in Top.types
                              /\ Now1(t)' <=> t \in Top.types
                              /\ t \in Top.types => t \in fired
    BY <1>1, <1>3, <1>7, <1>8 DEF Now1
  <2>2. \A h \in Hooks, t \in SingleShot : Pending(h, t) \in Nat /\ calls[h][t] \in Nat
    BY <1>1, WaitingFinite DEF Pending, OnceInv, CountsType, Types
  <2>. QED BY <1>7, <1>10, <1>12, <2>1, <2>2 DEF OnceInv, Accounts
<1>. QED BY <1>5, <1>7, <1>10, <1>11, <1>13, <1>14 DEF OnceInv, AppFirst

(* When the outer frame is through, nobody waits any more for what it was  *)
(* on account of.                                                          *)
LEMMA OnceFinish ==
  ASSUME OnceInv, Finish
  PROVE  OnceInv'
<1>1. TypeOK /\ stack # <<>> /\ Top \in Frames /\ Len(stack) \in Nat \ {0}
      /\ stack \in Seq(Frames) /\ hooks \in Seq(Entries) /\ Top.it = Len(hooks) + 1
  BY TopType DEF Finish, Walking, OnceInv, TypeOK, Frames, Entries
<1>. Len(stack) \in Nat \ {0}
  BY <1>1
<1>2. TypeOK'
  BY WalkTyped DEF Walk, OnceInv
<1>3. /\ stack' \in Seq(Frames) /\ Len(stack') = Len(stack) - 1
      /\ \A i \in 1 .. Len(stack) - 1 : stack'[i] = stack[i]
      /\ UNCHANGED <<hooks, fired, asked, calls, registered>>
  BY <1>1, FrontProperties DEF Finish
<1>4. FramesOK'
  BY <1>1, <1>3 DEF OnceInv, FramesOK
<1>5. Accounts'
  <2>1. CASE Len(stack) > 1
    <3>1. stack' # <<>> /\ stack'[1] = stack[1]
      BY <1>1, <1>3, <2>1, EmptySeq
    <3>. QED BY <1>1, <1>3, <3>1, AccountsStay DEF OnceInv, Now1
  <2>2. CASE Len(stack) = 1
    <3>1. stack' = <<>>
      BY <1>3, <2>2, EmptySeq
    <3>2. ASSUME NEW h \in Hooks, NEW t \in SingleShot, Now1(t)
          PROVE  Pending(h, t) = 0
      <4>1. \A i \in 1 .. Len(hooks) : hooks[i].types \cap Top.types = {}
        BY <1>1, <2>2 DEF OnceInv, FramesOK, Top
      <4>2. Waiting(hooks, h, t) = {}
        BY <2>2, <3>2, <4>1 DEF Waiting, Now1, Top
      <4>. QED BY <4>2, FS_EmptySet DEF Pending
    <3>3. \A h \in Hooks, t \in SingleShot : Pending(h, t)' = Pending(h, t) /\ calls[h][t] \in Nat
      BY <1>3 DEF Pending, OnceInv, CountsType, Types
    <3>4. \A t : ~Now1(t)'
      BY <3>1 DEF Now1
    <3>. QED BY <1>3, <3>2, <3>3, <3>4 DEF OnceInv, Accounts
  <2>3. Len(stack) > 1 \/ Len(stack) = 1
    BY <1>1, OneOrMore
  <2>. QED BY <2>1, <2>2, <2>3
<1>. QED BY <1>2, <1>3, <1>4, <1>5 DEF OnceInv, EntriesOK, AppFirst, CountsType

LEMMA OnceWalk ==
  ASSUME OnceInv, Walk
  PROVE  OnceInv'
<1>1. TypeOK' /\ TypeOK
  BY WalkTyped DEF OnceInv
<1>2. CASE PassOver
  <2>. DEFINE f == [Top EXCEPT !.it = @ + 1]
  <2>1. stack # <<>> /\ Top \in Frames /\ Len(stack) \in Nat \ {0}
    BY <1>1, <1>2, TopType DEF PassOver, AtEntry, Walking
  <2>2. /\ f \in Frames /\ SetTop(f) /\ f.types = Top.types /\ f.valid = Top.valid
        /\ f.running = None /\ f.it = Top.it + 1
    <3>1. SetTop(f) /\ Top.running = None
      BY <1>2 DEF PassOver, AtEntry, Walking
    <3>2. /\ f \in Frames /\ f.types = Top.types /\ f.valid = Top.valid
          /\ f.running = Top.running /\ f.it = Top.it + 1
      BY <2>1 DEF Frames
    <3>. QED BY <3>1, <3>2
  <2>3. /\ Top.valid /\ Top.it \in Nat \ {0} /\ Top.it <= Len(hooks)
        /\ \A i \in 1 .. Top.it - 1 : hooks[i].types \cap Top.types = {}
        /\ hooks[Top.it].types \cap Top.types = {}
    BY <1>2, <2>1 DEF PassOver, AtEntry, OnceInv, FramesOK, Top, Frames
  <2>4. f.it <= Len(hooks) + 1 /\ \A i \in 1 .. f.it - 1 : hooks[i].types \cap f.types = {}
    BY <1>1, <2>2, <2>3 DEF TypeOK
  <2>. HIDE DEF f
  <2>. QED BY <1>1, <1>2, <2>1, <2>2, <2>3, <2>4, OnceTop DEF PassOver
<1>3. CASE HookReturns
  <2>. DEFINE f == [Top EXCEPT !.running = None, !.stop = @ \/ Top.running \in Stopping]
  <2>1. stack # <<>> /\ Top \in Frames /\ Len(stack) \in Nat \ {0}
    BY <1>1, <1>3, TopType DEF HookReturns
  <2>2. /\ f \in Frames /\ SetTop(f) /\ f.types = Top.types /\ f.valid = Top.valid
        /\ f.running = None /\ f.it = Top.it
    BY <1>3, <2>1 DEF HookReturns, Frames
  <2>3. /\ Top.valid /\ Top.it <= Len(hooks) + 1
        /\ \A i \in 1 .. Top.it - 1 : hooks[i].types \cap Top.types = {}
    BY <2>1 DEF OnceInv, FramesOK, Top
  <2>. HIDE DEF f
  <2>. QED BY <1>1, <1>3, <2>1, <2>2, <2>3, OnceTop DEF HookReturns
<1>. QED BY <1>2, <1>3, OnceCall, OnceFinish DEF Walk

LEMMA OnceInit == Init => OnceInv
<1>. SUFFICES ASSUME Init PROVE OnceInv
  OBVIOUS
<1>1. \A h, t : Pending(h, t) = 0
  <2>1. \A h, t : Waiting(<<>>, h, t) = {}
    BY DEF Waiting
  <2>. QED BY <2>1, FS_EmptySet DEF Pending, Init
<1>2. CountsType /\ Accounts
  BY <1>1 DEF Init, CountsType, Accounts, SingleShot, Types
<1>. QED BY <1>2, InitTyped DEF Init, OnceInv, EntriesOK, FramesOK, AppFirst

LEMMA OnceNext ==
  ASSUME Orderly, OnceInv, [Next]_vars
  PROVE  OnceInv'
<1>1. CASE UNCHANGED vars
  <2>1. TypeOK'
    BY <1>1, NextTyped DEF OnceInv
  <2>2. Accounts'
    BY <1>1, AccountsStay DEF vars, OnceInv, Now1
  <2>. QED BY <1>1, <2>1, <2>2 DEF vars, OnceInv, EntriesOK, FramesOK, AppFirst, CountsType
<1>. QED BY <1>1, OnceRegister, OnceDeliver, OnceWalk DEF Next, Register, Event

LEMMA AlwaysOnce ==
  ASSUME Orderly
  PROVE  Spec => []OnceInv
<1>1. OnceInv /\ [Next]_vars => OnceInv'
  BY OnceNext
<1>. QED BY <1>1, OnceInit, PTL DEF Spec

-----------------------------------------------------------------------------
(* Type correctness, whatever the hooks do. *)
THEOREM TypeCorrect == Spec => []TypeOK
BY AlwaysTyped

(* Every hook that is registered in time for a single-shot occasion is     *)
(* called for it exactly once, whatever else is registered, however the    *)
(* vector shrinks under the iterator and whatever events the hooks deliver *)
(* meanwhile, as long as none of them spins the event loop first.          *)
THEOREM EachIsCalledOnce ==
  ASSUME Orderly
  PROVE  Spec => []CalledOnce
<1>1. OnceInv => CalledOnce
  BY DEF OnceInv, Accounts, CalledOnce, Now1, CountsType, Types
<1>. QED BY <1>1, AlwaysOnce, PTL

(* As long as they use it that way, no iterator leaves the vector or is    *)
(* invalidated: reentrancy is allowed, as tooling.cpp:163 has it.          *)
THEOREM IteratorsStayUsable ==
  ASSUME Orderly
  PROVE  Spec => []IteratorsUsable
<1>1. OnceInv => IteratorsUsable
  BY DEF OnceInv, FramesOK, IteratorsUsable
<1>. QED BY <1>1, AlwaysOnce, PTL
=============================================================================
