--------------------------- MODULE SignalsProofs ----------------------------
(***************************************************************************)
(* Signals keeps its type, its flags and depths agree with the frames on   *)
(* the stack, clean memos are fresh, and no write forgets a dependent: for *)
(* any graph of signals, memos and effects, and for whatever their bodies  *)
(* read and write.                                                         *)
(***************************************************************************)
EXTENDS Signals, FiniteSetTheorems, SequenceTheorems, WellFoundedInduction, TLAPS

USE DEF left

(* What the frames of a stack satisfy.                                     *)

\* Only a delivery has effects to run, all of them created; an island is
\* entered in the browser, outside every batch, and its snapshot is of the depth
\* that traps have left; natively a delivery is counted.
FrameSound(f, tg, wg, lf) ==
    /\ f.kind = "effect" => f.node \in Effect
    /\ f.kind = "memo" => f.node \in Memo
    /\ f.kind \notin Flushes => f.todo = {}
    /\ f.kind = "island" => f.batches = wg /\ tg = "web"
    /\ f.kind = "flush" => tg = "native"
    /\ \A e \in f.todo : lf[e] # "unborn"

StackSound(st, tg, wg, lf) ==
    /\ st \in Seq(Frames)
    /\ \A i \in 1 .. Len(st) : FrameSound(st[i], tg, wg, lf)

\* The frames of `kind' are those of the nodes of S whose flag is set, one each;
\* nodes that a trap has cut off keep their flag and have no frame.
Held(st, kind, S, flag, cut) ==
    /\ \A i \in 1 .. Len(st) : st[i].kind = kind => st[i].node \in S
    /\ \A i, j \in 1 .. Len(st) :
         st[i].kind = kind /\ st[j].kind = kind /\ st[i].node = st[j].node => i = j
    /\ \A n \in S : flag[n] /\ n \notin cut
                      <=> \E i \in 1 .. Len(st) : st[i].kind = kind /\ st[i].node = n
    /\ \A n \in S \cap cut : flag[n]

\* How many frames of `kind' there are.
Count(st, kind) == Cardinality({i \in 1 .. Len(st) : st[i].kind = kind})

\* What the frames of a stack are still to run.
Todos(st) == UNION {st[i].todo : i \in 1 .. Len(st)}

\* A stack, the flags and the depths that belong to it.
Fits(st, tg, wg, lf, run, comp, cut, batch, flush) ==
    /\ StackSound(st, tg, wg, lf)
    /\ Held(st, "effect", Effect, run, cut)
    /\ Held(st, "memo", Memo, comp, cut)
    /\ wg \in Nat /\ batch = wg + Count(st, "batch")
    /\ flush = Count(st, "flush")

\* Two stacks with the same frames, but for what is left to do in them.
SameFrames(st, tt) ==
    /\ tt \in Seq(Frames)
    /\ Len(tt) = Len(st)
    /\ \A i \in 1 .. Len(st) :
         /\ tt[i].kind = st[i].kind /\ tt[i].node = st[i].node
         /\ tt[i].todo \subseteq st[i].todo
         /\ st[i].kind = "island" => tt[i].batches = st[i].batches

-----------------------------------------------------------------------------
(* Counting frames.                                                        *)

\* A count of frames is a number.
LEMMA CountType ==
    ASSUME NEW st \in Seq(Frames), NEW kind
    PROVE  /\ IsFiniteSet({i \in 1 .. Len(st) : st[i].kind = kind})
           /\ Count(st, kind) \in Nat
<1>1. IsFiniteSet(1 .. Len(st))
  BY FS_Interval
<1>2. IsFiniteSet({i \in 1 .. Len(st) : st[i].kind = kind})
  BY <1>1, FS_Subset
<1> QED
  BY <1>2, FS_CardinalityType DEF Count

\* A pushed frame is counted if it is of the kind.
LEMMA CountPush ==
    ASSUME NEW st \in Seq(Frames), NEW f \in Frames, NEW kind
    PROVE  Count(Append(st, f), kind) = IF f.kind = kind THEN Count(st, kind) + 1 ELSE Count(st, kind)
<1> DEFINE tt == Append(st, f)
           Places1 == {i \in 1 .. Len(st) : st[i].kind = kind}
           Places2 == {i \in 1 .. Len(tt) : tt[i].kind = kind}
           n == Len(st) + 1
<1>1. /\ Len(st) \in Nat /\ Len(tt) = n /\ tt[n] = f
      /\ \A i \in 1 .. Len(st) : tt[i] = st[i]
  OBVIOUS
<1>2. Places2 = IF f.kind = kind THEN Places1 \cup {n} ELSE Places1
  BY <1>1
<1>3. n \notin Places1
  BY <1>1
<1> HIDE DEF n, tt
<1>f. IsFiniteSet(Places1)
  BY CountType
<1>4. Cardinality(Places1 \cup {n}) = Cardinality(Places1) + 1
  BY <1>3, <1>f, FS_AddElement
<1> QED
  BY <1>2, <1>4 DEF Count, tt

\* A popped frame is no longer counted.
LEMMA CountPop ==
    ASSUME NEW st \in Seq(Frames), st # <<>>, NEW kind
    PROVE  Count(SubSeq(st, 1, Len(st) - 1), kind)
             = IF st[Len(st)].kind = kind THEN Count(st, kind) - 1 ELSE Count(st, kind)
<1> DEFINE tt == SubSeq(st, 1, Len(st) - 1)
           f == st[Len(st)]
<1>1. tt \in Seq(Frames) /\ f \in Frames /\ st = Append(tt, f)
  OBVIOUS
<1> HIDE DEF tt, f
<1>2. Count(Append(tt, f), kind) = IF f.kind = kind THEN Count(tt, kind) + 1 ELSE Count(tt, kind)
  BY <1>1, CountPush
<1>3. Count(tt, kind) \in Nat
  BY <1>1, CountType
<1>4. Count(tt, kind) = IF f.kind = kind THEN Count(st, kind) - 1 ELSE Count(st, kind)
  BY <1>1, <1>2, <1>3
<1> QED
  BY <1>4 DEF tt, f

\* Stacks with the same frames have the same counts.
LEMMA CountSame ==
    ASSUME NEW st, NEW tt, SameFrames(st, tt), NEW kind
    PROVE  Count(tt, kind) = Count(st, kind)
<1>1. {i \in 1 .. Len(tt) : tt[i].kind = kind} = {i \in 1 .. Len(st) : st[i].kind = kind}
  BY DEF SameFrames
<1> QED
  BY <1>1 DEF Count

\* Unwinding to frame k takes the frames above it out of the count.
LEMMA CountCut ==
    ASSUME NEW st \in Seq(Frames), NEW k \in 0 .. Len(st), NEW kind
    PROVE  /\ Count(SubSeq(st, 1, k), kind)
                = Count(st, kind) - Cardinality({i \in (k + 1) .. Len(st) : st[i].kind = kind})
           /\ Count(SubSeq(st, 1, k), kind) \in Nat
<1> DEFINE tt == SubSeq(st, 1, k)
           Low == {i \in 1 .. Len(tt) : tt[i].kind = kind}
           High == {i \in (k + 1) .. Len(st) : st[i].kind = kind}
           All == {i \in 1 .. Len(st) : st[i].kind = kind}
<1>1. tt \in Seq(Frames) /\ Len(tt) = k /\ \A i \in 1 .. k : tt[i] = st[i]
  OBVIOUS
<1>2. All = Low \cup High /\ Low \cap High = {}
  BY <1>1
<1>3. IsFiniteSet(Low) /\ IsFiniteSet(All) /\ Count(tt, kind) \in Nat
  BY <1>1, CountType
<1> HIDE DEF tt, Low, High, All
<1>4. IsFiniteSet(High) /\ Cardinality(High) \in Nat
  BY <1>2, <1>3, FS_Subset, FS_CardinalityType
<1>c. Cardinality(Low) \in Nat
  BY <1>3, FS_CardinalityType
<1>5. Cardinality(All) = Cardinality(Low) + Cardinality(High) - Cardinality(Low \cap High)
  BY <1>2, <1>3, <1>4, FS_Union
<1>6. Cardinality(Low \cap High) = 0
  BY <1>2, FS_EmptySet
<1>7. Count(tt, kind) = Cardinality(Low) /\ Count(st, kind) = Cardinality(All)
  BY DEF Count, Low, All
<1>8. Cardinality(Low) = Cardinality(All) - Cardinality(High)
  BY <1>c, <1>4, <1>5, <1>6
<1> QED
  BY <1>3, <1>7, <1>8 DEF High, tt

-----------------------------------------------------------------------------
(* What a step does to the stack, and what that does to the flags.         *)

\* Editing what is left to do in the frames changes no flag.
LEMMA FitsSame ==
    ASSUME NEW tg, NEW wg, NEW lf, NEW run, NEW comp, NEW cut, NEW batch, NEW flush,
           NEW st, Fits(st, tg, wg, lf, run, comp, cut, batch, flush),
           NEW tt, SameFrames(st, tt)
    PROVE  Fits(tt, tg, wg, lf, run, comp, cut, batch, flush)
<1>1. StackSound(tt, tg, wg, lf)
  BY DEF Fits, StackSound, FrameSound, SameFrames
<1>2. ASSUME NEW kind, NEW S, NEW flag, Held(st, kind, S, flag, cut)
      PROVE  Held(tt, kind, S, flag, cut)
  BY <1>2 DEF Held, SameFrames
<1>3. Count(tt, "batch") = Count(st, "batch") /\ Count(tt, "flush") = Count(st, "flush")
  BY CountSame
<1> QED
  BY <1>1, <1>2, <1>3 DEF Fits

\* A frame pushed or popped: the soundness of the frames.
LEMMA SoundPush ==
    ASSUME NEW tg, NEW wg, NEW lf, NEW st, StackSound(st, tg, wg, lf), NEW f \in Frames, FrameSound(f, tg, wg, lf)
    PROVE  StackSound(Append(st, f), tg, wg, lf)
BY DEF StackSound

\* A stack cut off above its k-th frame is still sound.
LEMMA SoundCut ==
    ASSUME NEW tg, NEW wg, NEW lf, NEW st, StackSound(st, tg, wg, lf), NEW k \in 0 .. Len(st)
    PROVE  StackSound(SubSeq(st, 1, k), tg, wg, lf)
BY DEF StackSound

\* A frame of another kind leaves the flags of a kind alone.
LEMMA HeldPush ==
    ASSUME NEW st \in Seq(Frames), NEW f \in Frames, NEW kind, f.kind # kind,
           NEW S, NEW flag, NEW cut, Held(st, kind, S, flag, cut)
    PROVE  Held(Append(st, f), kind, S, flag, cut)
<1> DEFINE tt == Append(st, f)
<1>1. /\ Len(st) \in Nat /\ Len(tt) = Len(st) + 1 /\ tt[Len(st) + 1] = f
      /\ \A i \in 1 .. Len(st) : tt[i] = st[i]
  OBVIOUS
<1> HIDE DEF tt
<1>2. \A i \in 1 .. Len(tt) : tt[i].kind = kind => i \in 1 .. Len(st)
  BY <1>1
<1>3. 1 .. Len(st) \subseteq 1 .. Len(tt)
  BY <1>1
<1>4. Held(tt, kind, S, flag, cut)
  BY <1>1, <1>2, <1>3 DEF Held
<1> QED
  BY <1>4 DEF tt

\* A node starts: its flag is set and its frame is there.
LEMMA HeldStart ==
    ASSUME NEW st \in Seq(Frames), NEW f \in Frames,
           NEW S, NEW flag \in [S -> BOOLEAN], NEW cut,
           f.node \in S, ~flag[f.node], Held(st, f.kind, S, flag, cut)
    PROVE  Held(Append(st, f), f.kind, S, [flag EXCEPT ![f.node] = TRUE], cut)
<1> DEFINE tt == Append(st, f)
           set == [flag EXCEPT ![f.node] = TRUE]
           top == Len(st) + 1
<1>1. /\ Len(st) \in Nat /\ top \in Nat /\ top \notin 1 .. Len(st) /\ Len(tt) = top /\ tt[top] = f
      /\ \A i \in 1 .. Len(st) : tt[i] = st[i]
      /\ 1 .. top = 1 .. Len(st) \cup {top}
  OBVIOUS
<1>2. set[f.node] /\ \A n \in S : n # f.node => set[n] = flag[n]
  OBVIOUS
<1>3. f.node \notin cut
  BY DEF Held
<1>4. \A i \in 1 .. Len(st) : ~(st[i].kind = f.kind /\ st[i].node = f.node)
  BY DEF Held
<1> HIDE DEF tt, set, top
<1>5. \A i \in 1 .. Len(tt) : tt[i].kind = f.kind => tt[i].node \in S
  BY <1>1 DEF Held
<1>6. \A i, j \in 1 .. Len(tt) :
        tt[i].kind = f.kind /\ tt[j].kind = f.kind /\ tt[i].node = tt[j].node => i = j
  <2>1. \A i, j \in 1 .. Len(st) :
          st[i].kind = f.kind /\ st[j].kind = f.kind /\ st[i].node = st[j].node => i = j
    BY DEF Held
  <2>2. \A i \in 1 .. Len(st) : ~(tt[i].kind = tt[top].kind /\ tt[i].node = tt[top].node)
    BY <1>1, <1>4
  <2> TAKE i, j \in 1 .. Len(tt)
  <2>3. CASE i = top \/ j = top
    BY <1>1, <2>2, <2>3
  <2>4. CASE i # top /\ j # top
    BY <1>1, <2>1, <2>4
  <2> QED
    BY <2>3, <2>4
<1>7. \A n \in S : set[n] /\ n \notin cut
                     <=> \E i \in 1 .. Len(tt) : tt[i].kind = f.kind /\ tt[i].node = n
  <2> TAKE n \in S
  <2>1. CASE n = f.node
    BY <1>1, <1>2, <1>3, <2>1
  <2>2. CASE n # f.node
    <3>1. (\E i \in 1 .. Len(tt) : tt[i].kind = f.kind /\ tt[i].node = n)
             <=> \E i \in 1 .. Len(st) : st[i].kind = f.kind /\ st[i].node = n
      BY <1>1, <2>2
    <3> QED
      BY <1>2, <2>2, <3>1 DEF Held
  <2> QED
    BY <2>1, <2>2
<1>8. \A n \in S \cap cut : set[n]
  BY <1>2 DEF Held
<1>9. Held(tt, f.kind, S, set, cut)
  BY <1>5, <1>6, <1>7, <1>8 DEF Held
<1> QED
  BY <1>9 DEF tt, set

\* Frames above k go, and the flags of their nodes are cleared.
LEMMA HeldCut ==
    ASSUME NEW st \in Seq(Frames), NEW k \in 0 .. Len(st), NEW kind,
           NEW S, NEW flag, NEW cut, Held(st, kind, S, flag, cut), NEW flag2,
           \A n \in S : flag2[n] <=>
             flag[n] /\ ~ \E i \in (k + 1) .. Len(st) : st[i].kind = kind /\ st[i].node = n
    PROVE  Held(SubSeq(st, 1, k), kind, S, flag2, cut)
<1> DEFINE tt == SubSeq(st, 1, k)
<1>1. /\ Len(tt) = k /\ \A i \in 1 .. k : tt[i] = st[i]
      /\ 1 .. Len(st) = 1 .. k \cup (k + 1) .. Len(st)
      /\ \A i \in 1 .. k : i \notin (k + 1) .. Len(st)
  OBVIOUS
<1> HIDE DEF tt
<1>2. \A i \in 1 .. Len(tt) : tt[i].kind = kind => tt[i].node \in S
  BY <1>1 DEF Held
<1>3. \A i, j \in 1 .. Len(tt) :
        tt[i].kind = kind /\ tt[j].kind = kind /\ tt[i].node = tt[j].node => i = j
  BY <1>1 DEF Held
<1>4. \A n \in S : flag2[n] /\ n \notin cut
                     <=> \E i \in 1 .. Len(tt) : tt[i].kind = kind /\ tt[i].node = n
  BY <1>1 DEF Held
<1>5. \A n \in S \cap cut : flag2[n]
  BY <1>1 DEF Held
<1>6. Held(tt, kind, S, flag2, cut)
  BY <1>2, <1>3, <1>4, <1>5 DEF Held
<1> QED
  BY <1>6 DEF tt

\* A trap takes every frame and clears no flag: the nodes it cut off are those
\* that had a frame.
LEMMA HeldTrap ==
    ASSUME NEW st, NEW kind, NEW S, NEW flag, NEW cut, Held(st, kind, S, flag, cut), NEW cut2,
           \A n \in S : n \in cut2 <=>
             n \in cut \/ \E i \in 1 .. Len(st) : st[i].kind = kind /\ st[i].node = n
    PROVE  Held(<<>>, kind, S, flag, cut2)
BY DEF Held

-----------------------------------------------------------------------------
(* The same for a stack with all its flags and depths.                     *)

\* A frame that runs no node's code: a batch, a delivery, an island.
LEMMA FitsPush ==
    ASSUME NEW tg, NEW wg, NEW lf, NEW run, NEW comp, NEW cut, NEW batch, NEW flush,
           NEW st, Fits(st, tg, wg, lf, run, comp, cut, batch, flush),
           NEW f \in Frames, FrameSound(f, tg, wg, lf), f.kind \notin {"effect", "memo"}
    PROVE  Fits(Append(st, f), tg, wg, lf, run, comp, cut,
                IF f.kind = "batch" THEN batch + 1 ELSE batch,
                IF f.kind = "flush" THEN flush + 1 ELSE flush)
<1>1. st \in Seq(Frames)
  BY DEF Fits, StackSound
<1>2. StackSound(Append(st, f), tg, wg, lf)
  BY SoundPush DEF Fits
<1>3. Held(Append(st, f), "effect", Effect, run, cut) /\ Held(Append(st, f), "memo", Memo, comp, cut)
  BY <1>1, HeldPush DEF Fits
<1>4. \A kind : Count(Append(st, f), kind)
                  = IF f.kind = kind THEN Count(st, kind) + 1 ELSE Count(st, kind)
  BY <1>1, CountPush
<1>5. Count(st, "batch") \in Nat
  BY <1>1, CountType
<1> QED
  BY <1>2, <1>3, <1>4, <1>5 DEF Fits

\* A run of an effect, or a computation of a memo, that is not on the stack.
LEMMA FitsStart ==
    ASSUME NEW tg, NEW wg, NEW lf, NEW run \in [Effect -> BOOLEAN], NEW comp \in [Memo -> BOOLEAN],
           NEW cut, NEW batch, NEW flush,
           NEW st, Fits(st, tg, wg, lf, run, comp, cut, batch, flush),
           NEW f \in Frames, FrameSound(f, tg, wg, lf)
    PROVE  /\ f.kind = "effect" /\ ~run[f.node] =>
                Fits(Append(st, f), tg, wg, lf, [run EXCEPT ![f.node] = TRUE], comp, cut, batch, flush)
           /\ f.kind = "memo" /\ ~comp[f.node] =>
                Fits(Append(st, f), tg, wg, lf, run, [comp EXCEPT ![f.node] = TRUE], cut, batch, flush)
<1>1. st \in Seq(Frames)
  BY DEF Fits, StackSound
<1>2. StackSound(Append(st, f), tg, wg, lf)
  BY SoundPush DEF Fits
<1>3. \A kind : Count(Append(st, f), kind)
                  = IF f.kind = kind THEN Count(st, kind) + 1 ELSE Count(st, kind)
  BY <1>1, CountPush
<1>4. CASE f.kind = "effect" /\ ~run[f.node]
  <2>1. f.node \in Effect
    BY <1>4 DEF FrameSound
  <2>h. Held(st, f.kind, Effect, run, cut)
    BY <1>4 DEF Fits
  <2>2. Held(Append(st, f), f.kind, Effect, [run EXCEPT ![f.node] = TRUE], cut)
    BY <1>1, <1>4, <2>1, <2>h, HeldStart
  <2>3. Held(Append(st, f), "memo", Memo, comp, cut)
    BY <1>1, <1>4, HeldPush DEF Fits
  <2> QED
    BY <1>2, <1>3, <1>4, <2>2, <2>3 DEF Fits
<1>5. CASE f.kind = "memo" /\ ~comp[f.node]
  <2>1. f.node \in Memo
    BY <1>5 DEF FrameSound
  <2>h. Held(st, f.kind, Memo, comp, cut)
    BY <1>5 DEF Fits
  <2>2. Held(Append(st, f), f.kind, Memo, [comp EXCEPT ![f.node] = TRUE], cut)
    BY <1>1, <1>5, <2>1, <2>h, HeldStart
  <2>3. Held(Append(st, f), "effect", Effect, run, cut)
    BY <1>1, <1>5, HeldPush DEF Fits
  <2> QED
    BY <1>2, <1>3, <1>5, <2>2, <2>3 DEF Fits
<1> QED
  BY <1>4, <1>5

\* The topmost frame ends: the flag of its node, or the depth it raised, follows.
LEMMA FitsPop ==
    ASSUME NEW tg, NEW wg, NEW lf, NEW run \in [Effect -> BOOLEAN], NEW comp \in [Memo -> BOOLEAN],
           NEW cut, NEW batch, NEW flush,
           NEW st, Fits(st, tg, wg, lf, run, comp, cut, batch, flush), st # <<>>,
           NEW f, f = st[Len(st)]
    PROVE  Fits(SubSeq(st, 1, Len(st) - 1), tg, wg, lf,
                IF f.kind = "effect" THEN [run EXCEPT ![f.node] = FALSE] ELSE run,
                IF f.kind = "memo" THEN [comp EXCEPT ![f.node] = FALSE] ELSE comp, cut,
                IF f.kind = "batch" THEN batch - 1 ELSE batch,
                IF f.kind = "flush" THEN flush - 1 ELSE flush)
<1> DEFINE k == Len(st) - 1
           tt == SubSeq(st, 1, k)
           run2 == IF f.kind = "effect" THEN [run EXCEPT ![f.node] = FALSE] ELSE run
           comp2 == IF f.kind = "memo" THEN [comp EXCEPT ![f.node] = FALSE] ELSE comp
<1>1. st \in Seq(Frames) /\ Len(st) \in Nat \ {0}
  BY DEF Fits, StackSound
<1>2. k \in 0 .. Len(st) /\ (k + 1) .. Len(st) = {Len(st)}
  BY <1>1
<1>3. StackSound(tt, tg, wg, lf)
  BY <1>2, SoundCut DEF Fits
<1>4. \A kind : Count(tt, kind) = IF f.kind = kind THEN Count(st, kind) - 1 ELSE Count(st, kind)
  BY <1>1, CountPop
<1>5. \A n \in Effect : run2[n] <=>
        run[n] /\ ~ \E i \in (k + 1) .. Len(st) : st[i].kind = "effect" /\ st[i].node = n
  BY <1>2
<1>6. \A n \in Memo : comp2[n] <=>
        comp[n] /\ ~ \E i \in (k + 1) .. Len(st) : st[i].kind = "memo" /\ st[i].node = n
  BY <1>2
<1> HIDE DEF k, run2, comp2
<1>7. Held(tt, "effect", Effect, run2, cut) /\ Held(tt, "memo", Memo, comp2, cut)
  BY <1>1, <1>2, <1>5, <1>6, HeldCut DEF Fits
<1>c. Count(st, "batch") \in Nat
  BY <1>1, CountType
<1> HIDE DEF tt
<1>8. Fits(tt, tg, wg, lf, run2, comp2, cut, IF f.kind = "batch" THEN batch - 1 ELSE batch,
           IF f.kind = "flush" THEN flush - 1 ELSE flush)
  BY <1>3, <1>4, <1>7, <1>c DEF Fits
<1> QED
  BY <1>8 DEF tt, k, run2, comp2

-----------------------------------------------------------------------------
(* The current subscriber.                                                 *)

\* Among the places of a sequence that satisfy something there is a last one.
LEMMA LastPlace ==
    ASSUME NEW n \in Nat, NEW P \in SUBSET (1 .. n), P # {}
    PROVE  \E i \in P : \A j \in P : j <= i
<1> DEFINE From(i) == {j \in P : i <= j}
           Tails == {From(i) : i \in P}
<1>1. IsFiniteSet(1 .. n)
  BY FS_Interval
<1>2. Tails \subseteq FiniteSubsetsOf(1 .. n) /\ Tails # {}
  <2>1. \A i \in P : From(i) \in SUBSET (1 .. n) /\ IsFiniteSet(From(i))
    BY <1>1, FS_Subset
  <2> QED
    BY <2>1 DEF FiniteSubsetsOf
<1>3. PICK T \in Tails : \A U \in Tails : <<U, T>> \notin StrictSubsetOrdering(1 .. n)
  BY <1>2, FS_StrictSubsetOrderingWellFounded, WFMin
<1>4. PICK i \in P : T = From(i)
  OBVIOUS
<1>5. ASSUME NEW j \in P, ~(j <= i) PROVE FALSE
  <2>1. P \subseteq Nat /\ i \in Nat /\ j \in Nat /\ i < j
    BY <1>5
  <2>2. From(j) \subseteq From(i) /\ i \in From(i) /\ i \notin From(j)
    <3>1. i <= i /\ ~(j <= i) /\ \A x \in P : j <= x => i <= x
      BY <2>1
    <3> QED
      BY <2>1, <3>1, Zenon
  <2>3. From(j) \in Tails /\ From(i) \in SUBSET (1 .. n) /\ From(j) \in SUBSET (1 .. n)
    OBVIOUS
  <2> HIDE DEF From
  <2>4. <<From(j), From(i)>> \in StrictSubsetOrdering(1 .. n)
    BY <2>2, <2>3 DEF StrictSubsetOrdering
  <2> QED
    BY <1>3, <1>4, <2>3, <2>4
<1> QED
  BY <1>5

\* Current is 0 or the place of a frame of an effect or a memo.
LEMMA CurrentPlace ==
    ASSUME stack \in Seq(Frames)
    PROVE  /\ Current \in 0 .. Len(stack)
           /\ Current > 0 => stack[Current].kind \in {"effect", "memo"}
<1> DEFINE P == {i \in 1 .. Len(stack) : stack[i].kind \in {"effect", "memo"}}
           Fit(i) == /\ i > 0 => stack[i].kind \in {"effect", "memo"}
                     /\ \A j \in (i + 1) .. Len(stack) : stack[j].kind \notin {"effect", "memo"}
<1>1. Len(stack) \in Nat
  OBVIOUS
<1>2. \E i \in 0 .. Len(stack) : Fit(i)
  <2>1. CASE P = {}
    BY <1>1, <2>1
  <2>2. CASE P # {}
    <3>1. PICK i \in P : \A j \in P : j <= i
      BY <1>1, <2>2, LastPlace
    <3>2. Fit(i) /\ i \in 0 .. Len(stack)
      BY <1>1, <3>1
    <3> QED
      BY <3>2
  <2> QED
    BY <2>1, <2>2
<1>3. Current = CHOOSE i \in 0 .. Len(stack) : Fit(i)
  BY DEF Current, Innermost
<1> HIDE DEF Fit
<1>4. Current \in 0 .. Len(stack) /\ Fit(Current)
  BY <1>2, <1>3
<1> QED
  BY <1>4 DEF Fit

-----------------------------------------------------------------------------
(* The first half of the inductive invariant: the stack, the flags of the  *)
(* nodes and the depths agree.                                             *)

\* An effect that is not created yet does not run and is queued nowhere.
Born == \A e \in Effect : life[e] = "unborn" => ~running[e] /\ e \notin batched \cup pending

Structure ==
    /\ TypeOK
    /\ Fits(stack, target, wedged, life, running, computing, dead, batchDepth, flushDepth)
    /\ Born

\* The stack as a step leaves it when it touches no flag and no depth.
LEMMA SameWrites ==
    ASSUME Structure, NEW c \in 1 .. Len(stack), NEW f \in Frames,
           f.kind = stack[c].kind, f.node = stack[c].node, f.todo \subseteq stack[c].todo,
           f.kind = "island" => f.batches = stack[c].batches
    PROVE  SameFrames(stack, [stack EXCEPT ![c] = f])
<1>1. stack \in Seq(Frames)
  BY DEF Structure, TypeOK
<1> QED
  BY <1>1, ExceptSeq DEF SameFrames

\* A delivery: queued, given up, or on top of whoever wrote.
LEMMA ScheduleKeeps ==
    ASSUME SignalsAssumption, Structure, NEW effects \in SUBSET Effect,
           \A e \in effects : life[e] # "unborn",
           NEW st, SameFrames(stack, st), Schedule(effects, st),
           UNCHANGED <<target, left, life, running, computing, dead, batchDepth>>
    PROVE  /\ Fits(stack, target, wedged, life, running, computing, dead, batchDepth, flushDepth)'
           /\ batched' \subseteq Effect /\ pending' \subseteq Effect /\ lost' \subseteq Effect
           /\ microtask' \in BOOLEAN /\ flushDepth' \in 0 .. MaxFlush
           /\ Born'
<1> DEFINE all == batched \cup effects
<1>1. Fits(st, target, wedged, life, running, computing, dead, batchDepth, flushDepth)
  BY FitsSame DEF Structure
<1>2. all \subseteq Effect /\ \A e \in all : life[e] # "unborn"
  BY DEF Structure, TypeOK, Born
<1>3. batched' \subseteq all /\ pending' \subseteq pending \cup all
  BY DEF Schedule
<1>4. lost' \subseteq lost \cup all
  BY DEF Schedule
<1>5. Born'
  BY <1>2, <1>3 DEF Structure, Born
<1>6. microtask' \in BOOLEAN
  BY DEF Schedule, Structure, TypeOK
<1>7. Fits(stack, target, wedged, life, running, computing, dead, batchDepth, flushDepth)'
      /\ flushDepth' \in 0 .. MaxFlush
  <2>1. CASE stack' = st /\ flushDepth' = flushDepth
    BY <1>1, <2>1 DEF Structure, TypeOK
  <2>2. CASE ~(stack' = st /\ flushDepth' = flushDepth)
    <3> DEFINE f == Frame("flush", all)
    <3>1. /\ target # "web" /\ flushDepth < MaxFlush
          /\ stack' = Append(st, f) /\ flushDepth' = flushDepth + 1
      <4>1. /\ batchDepth <= 0
            /\ target # "web"
            /\ all # {}
            /\ ~(flushDepth >= MaxFlush)
            /\ stack' = Append(st, f) /\ flushDepth' = flushDepth + 1
        BY <2>2 DEF Schedule, Structure, TypeOK
      <4> QED
        BY <4>1 DEF Structure, TypeOK, SignalsAssumption
    <3>2. target = "native"
      BY <3>1 DEF Structure, TypeOK, SignalsAssumption
    <3>3. /\ f \in Frames /\ f.kind = "flush" /\ f.todo = all
      BY <1>2 DEF Frame, Frames, Flushes, SignalsAssumption
    <3> HIDE DEF f
    <3>4. FrameSound(f, target, wedged, life)
      BY <1>2, <3>2, <3>3 DEF FrameSound, Flushes
    <3>5. Fits(Append(st, f), target, wedged, life, running, computing, dead, batchDepth, flushDepth + 1)
      BY <1>1, <3>3, <3>4, FitsPush
    <3> QED
      BY <3>1, <3>5 DEF Structure, TypeOK, SignalsAssumption
  <2> QED
    BY <2>1, <2>2
<1> QED
  BY <1>2, <1>3, <1>4, <1>5, <1>6, <1>7 DEF Structure, TypeOK

\* One lemma for each action.
LEMMA StructureWrite ==
    ASSUME SignalsAssumption, Structure, NEW s \in Signal, Write(s)
    PROVE  Structure'
<1> DEFINE st == IF Current = 0 THEN stack
                 ELSE [stack EXCEPT ![Current].writes = @ \ {s}]
           effects == {e \in Reached(s) \cap Effect : life[e] = "live"}
<1>1. Current \in 0 .. Len(stack) /\ stack \in Seq(Frames)
  BY CurrentPlace DEF Structure, TypeOK
<1>2. SameFrames(stack, st)
  <2>1. CASE Current = 0
    BY <1>1, <2>1 DEF SameFrames
  <2>2. CASE Current # 0
    <3> DEFINE f == [stack[Current] EXCEPT !.writes = @ \ {s}]
    <3>1. Current \in 1 .. Len(stack) /\ stack[Current] \in Frames
      BY <1>1, <2>2
    <3>2. /\ f \in Frames
          /\ f.kind = stack[Current].kind /\ f.node = stack[Current].node
          /\ f.todo = stack[Current].todo /\ f.batches = stack[Current].batches
      BY <3>1 DEF Frames
    <3>3. st = [stack EXCEPT ![Current] = f]
      BY <2>2, <3>1
    <3> HIDE DEF f, st
    <3>4. SameFrames(stack, [stack EXCEPT ![Current] = f])
      BY <3>1, <3>2, SameWrites
    <3> QED
      BY <3>3, <3>4
  <2> QED
    BY <2>1, <2>2
<1>3. effects \in SUBSET Effect /\ \A e \in effects : life[e] # "unborn"
  OBVIOUS
<1>4. Schedule(effects, st) /\ UNCHANGED <<target, left, life, running, computing, dead, batchDepth>>
  BY DEF Write
<1> HIDE DEF st, effects
<1>5. /\ Fits(stack, target, wedged, life, running, computing, dead, batchDepth, flushDepth)'
      /\ batched' \subseteq Effect /\ pending' \subseteq Effect /\ lost' \subseteq Effect
      /\ microtask' \in BOOLEAN /\ flushDepth' \in 0 .. MaxFlush
      /\ Born'
  BY <1>2, <1>3, <1>4, ScheduleKeeps
<1>6. subs' \in [Source -> SUBSET Node] /\ dirty' \in [Memo -> BOOLEAN] /\ stale' \subseteq Node
  BY DEF Write, Structure, TypeOK, Users, Closure
<1>7. stack' \in Seq(Frames)
  BY <1>5 DEF Fits, StackSound
<1>8. TypeOK'
  BY <1>5, <1>6, <1>7 DEF Write, Structure, TypeOK
<1> QED
  BY <1>5, <1>8 DEF Structure

\* What reading a dirty memo pushes.
LEMMA ComputeKeeps ==
    ASSUME SignalsAssumption, Structure, NEW m \in Memo, ~computing[m], Compute(m),
           UNCHANGED <<target, left, life, running, dead, batchDepth, flushDepth>>
    PROVE  /\ Fits(stack, target, wedged, life, running, computing, dead, batchDepth, flushDepth)'
           /\ dirty' \in [Memo -> BOOLEAN] /\ computing' \in [Memo -> BOOLEAN]
<1> DEFINE f == Computation(m)
<1>1. f \in Frames /\ f.kind = "memo" /\ f.node = m /\ f.todo = {} /\ f.batches = 0
  BY DEF Computation, Frame, Frames, Node, SignalsAssumption
<1> HIDE DEF f
<1>2. FrameSound(f, target, wedged, life)
  BY <1>1 DEF FrameSound
<1>3. running \in [Effect -> BOOLEAN] /\ computing \in [Memo -> BOOLEAN] /\ dirty \in [Memo -> BOOLEAN]
  BY DEF Structure, TypeOK
<1>4. Fits(Append(stack, f), target, wedged, life, running, [computing EXCEPT ![m] = TRUE],
           dead, batchDepth, flushDepth)
  BY <1>1, <1>2, <1>3, FitsStart DEF Structure
<1> QED
  BY <1>3, <1>4 DEF Compute, f

\* A read pushes at most the frame of the dirty memo it computes.
LEMMA StructureRead ==
    ASSUME SignalsAssumption, Structure, NEW d \in Source, Read(d)
    PROVE  Structure'
<1> DEFINE n == stack[Current].node
<1>1. n \in Node
  <2>1. Current \in 1 .. Len(stack) /\ stack[Current].kind \in {"effect", "memo"}
    BY CurrentPlace DEF Structure, TypeOK, Read
  <2> QED
    BY <2>1 DEF Structure, Fits, StackSound, FrameSound, Node
<1> HIDE DEF n
<1>2. /\ subs' \in [Source -> SUBSET Node] /\ uses' \in [Node -> SUBSET Source] /\ stale' \subseteq Node
  BY <1>1 DEF Read, Structure, TypeOK, n
<1>3. /\ Fits(stack, target, wedged, life, running, computing, dead, batchDepth, flushDepth)'
      /\ dirty' \in [Memo -> BOOLEAN] /\ computing' \in [Memo -> BOOLEAN]
  <2>1. CASE d \in Memo /\ dirty[d]
    BY <2>1, ComputeKeeps DEF Read
  <2>2. CASE ~(d \in Memo /\ dirty[d])
    BY <2>2 DEF Read, Structure, TypeOK
  <2> QED
    BY <2>1, <2>2
<1>4. stack' \in Seq(Frames)
  BY <1>3 DEF Fits, StackSound
<1>5. TypeOK' /\ Born'
  BY <1>2, <1>3, <1>4 DEF Read, Structure, TypeOK, Born, queues
<1> QED
  BY <1>3, <1>5 DEF Structure

\* A read outside every effect pushes at most the frame of the memo it computes.
LEMMA StructureReadOutside ==
    ASSUME SignalsAssumption, Structure, NEW d \in Source, ReadOutside(d)
    PROVE  Structure'
<1>1. /\ Fits(stack, target, wedged, life, running, computing, dead, batchDepth, flushDepth)'
      /\ dirty' \in [Memo -> BOOLEAN] /\ computing' \in [Memo -> BOOLEAN]
  <2>1. CASE d \in Memo /\ dirty[d]
    BY <2>1, ComputeKeeps DEF ReadOutside
  <2>2. CASE ~(d \in Memo /\ dirty[d])
    BY <2>2 DEF ReadOutside, Structure, TypeOK
  <2> QED
    BY <2>1, <2>2
<1>2. stack' \in Seq(Frames)
  BY <1>1 DEF Fits, StackSound
<1>3. subs' \in [Source -> SUBSET Node] /\ uses' \in [Node -> SUBSET Source] /\ stale' \subseteq Node
  BY DEF ReadOutside, Structure, TypeOK
<1>4. TypeOK' /\ Born'
  BY <1>1, <1>2, <1>3 DEF ReadOutside, Structure, TypeOK, Born, queues
<1> QED
  BY <1>1, <1>4 DEF Structure

\* The frames of a stack whose topmost frame has ended.
LEMMA PopKeeps ==
    ASSUME Structure, ~Empty
    PROVE  /\ Len(stack) \in Nat \ {0} /\ Top \in Frames /\ FrameSound(Top, target, wedged, life)
           /\ Fits(Below, target, wedged, life,
                   IF Top.kind = "effect" THEN [running EXCEPT ![Top.node] = FALSE] ELSE running,
                   IF Top.kind = "memo" THEN [computing EXCEPT ![Top.node] = FALSE] ELSE computing,
                   dead,
                   IF Top.kind = "batch" THEN batchDepth - 1 ELSE batchDepth,
                   IF Top.kind = "flush" THEN flushDepth - 1 ELSE flushDepth)
           /\ Below \in Seq(Frames)
<1>1. /\ stack \in Seq(Frames) /\ stack # <<>> /\ Len(stack) \in Nat \ {0}
      /\ running \in [Effect -> BOOLEAN] /\ computing \in [Memo -> BOOLEAN]
  BY DEF Structure, TypeOK, Empty
<1>2. Top \in Frames /\ FrameSound(Top, target, wedged, life)
  BY <1>1 DEF Top, Structure, Fits, StackSound
<1>3. Fits(stack, target, wedged, life, running, computing, dead, batchDepth, flushDepth)
  BY DEF Structure
<1>4. Fits(Below, target, wedged, life,
           IF Top.kind = "effect" THEN [running EXCEPT ![Top.node] = FALSE] ELSE running,
           IF Top.kind = "memo" THEN [computing EXCEPT ![Top.node] = FALSE] ELSE computing,
           dead,
           IF Top.kind = "batch" THEN batchDepth - 1 ELSE batchDepth,
           IF Top.kind = "flush" THEN flushDepth - 1 ELSE flushDepth)
  BY <1>1, <1>3, FitsPop DEF Top, Below
<1>5. Below \in Seq(Frames)
  BY <1>4 DEF Fits, StackSound
<1> QED
  BY <1>1, <1>2, <1>4, <1>5

\* Frames run effects.
LEMMA TodoType ==
    ASSUME NEW st \in Seq(Frames), NEW i \in 1 .. Len(st)
    PROVE  st[i].todo \subseteq Effect
<1>1. st[i] \in Frames
  BY ElementOfSeq
<1> QED
  BY <1>1 DEF Frames

\* Creating or disposing of an effect does not disturb the frames.
LEMMA FitsLife ==
    ASSUME NEW tg, NEW wg, NEW run, NEW comp, NEW cut, NEW batch, NEW flush,
           NEW lf, NEW st, Fits(st, tg, wg, lf, run, comp, cut, batch, flush),
           NEW lf2, \A e \in Effect : lf2[e] = "unborn" => lf[e] = "unborn"
    PROVE  Fits(st, tg, wg, lf2, run, comp, cut, batch, flush)
<1>1. st \in Seq(Frames) /\ \A i \in 1 .. Len(st) : FrameSound(st[i], tg, wg, lf)
  BY DEF Fits, StackSound
<1>2. \A i \in 1 .. Len(st) : st[i].todo \subseteq Effect
  BY <1>1, TodoType
<1>3. \A i \in 1 .. Len(st) : FrameSound(st[i], tg, wg, lf2)
  BY <1>1, <1>2 DEF FrameSound
<1> QED
  BY <1>1, <1>3 DEF Fits, StackSound

\* A run starts on top of `st', where the effect is not running.
LEMMA StartRunKeeps ==
    ASSUME SignalsAssumption, Structure, NEW e \in Effect, NEW reruns \in 0 .. (MaxFlush - 1),
           NEW run \in [Effect -> BOOLEAN], ~run[e],
           [run EXCEPT ![e] = TRUE] = [running EXCEPT ![e] = TRUE],
           NEW st, Fits(st, target, wedged, life', run, computing, dead, batchDepth, flushDepth),
           StartRun(e, st, reruns),
           UNCHANGED <<target, left, computing, batchDepth, flushDepth>>
    PROVE  /\ Fits(stack, target, wedged, life, running, computing, dead, batchDepth, flushDepth)'
           /\ stack' \in Seq(Frames)
           /\ running' \in [Effect -> BOOLEAN] /\ rerun' \in [Effect -> BOOLEAN]
           /\ uses' \in [Node -> SUBSET Source] /\ stale' \subseteq Node
           /\ lost' \subseteq Effect /\ dead' \subseteq Node
<1> DEFINE f == Body(e, reruns)
<1>1. f \in Frames /\ f.kind = "effect" /\ f.node = e /\ f.todo = {}
  BY DEF Body, Frames, Node, SignalsAssumption
<1> HIDE DEF f
<1>2. FrameSound(f, target, wedged, life')
  BY <1>1 DEF FrameSound
<1>3. computing \in [Memo -> BOOLEAN]
  BY DEF Structure, TypeOK
<1>4. Fits(Append(st, f), target, wedged, life', [run EXCEPT ![e] = TRUE], computing, dead, batchDepth, flushDepth)
  BY <1>1, <1>2, <1>3, FitsStart
<1>5. Fits(stack, target, wedged, life, running, computing, dead, batchDepth, flushDepth)'
  BY <1>4 DEF StartRun, f
<1>6. stack' \in Seq(Frames)
  BY <1>5 DEF Fits, StackSound
<1> QED
  BY <1>5, <1>6 DEF StartRun, Structure, TypeOK, Node

\* A memo that has computed gives up its frame and its flag.
LEMMA StructureComputed ==
    ASSUME SignalsAssumption, Structure, Computed
    PROVE  Structure'
<1>1. ~Empty /\ Top.kind = "memo"
  BY DEF Computed, On
<1>2. /\ Fits(Below, target, wedged, life, running, [computing EXCEPT ![Top.node] = FALSE], dead,
              batchDepth, flushDepth)
      /\ Below \in Seq(Frames)
  BY <1>1, PopKeeps
<1>3. Fits(stack, target, wedged, life, running, computing, dead, batchDepth, flushDepth)'
  BY <1>2 DEF Computed, history
<1>4. TypeOK' /\ Born'
  BY <1>2 DEF Computed, Structure, TypeOK, Born, queues, history
<1> QED
  BY <1>3, <1>4 DEF Structure

\* A new effect runs at once, on top of what runs.
LEMMA StructureCreate ==
    ASSUME SignalsAssumption, Structure, NEW e \in Effect, Create(e)
    PROVE  Structure'
<1>1. ~running[e] /\ running \in [Effect -> BOOLEAN]
  BY DEF Create, Structure, Born, TypeOK
<1>2. life \in [Effect -> {"unborn", "live", "disposed"}] /\ life' = [life EXCEPT ![e] = "live"]
  BY DEF Create, Structure, TypeOK
<1>3. Fits(stack, target, wedged, life', running, computing, dead, batchDepth, flushDepth)
  BY <1>2, FitsLife DEF Structure
<1>4. StartRun(e, stack, 0) /\ UNCHANGED <<target, left, computing, batchDepth, flushDepth>>
  BY DEF Create
<1>5. 0 \in 0 .. (MaxFlush - 1)
  BY DEF SignalsAssumption
<1>6. /\ Fits(stack, target, wedged, life, running, computing, dead, batchDepth, flushDepth)'
      /\ stack' \in Seq(Frames)
      /\ running' \in [Effect -> BOOLEAN] /\ rerun' \in [Effect -> BOOLEAN]
      /\ uses' \in [Node -> SUBSET Source] /\ stale' \subseteq Node
      /\ lost' \subseteq Effect /\ dead' \subseteq Node
  BY <1>1, <1>3, <1>4, <1>5, StartRunKeeps
<1>7. TypeOK'
  BY <1>2, <1>6 DEF Create, Structure, TypeOK, queues
<1>8. Born'
  BY <1>2 DEF Create, StartRun, Structure, Born, TypeOK, queues
<1> QED
  BY <1>6, <1>7, <1>8 DEF Structure

\* Disposing of an effect touches neither the stack nor the flags.
LEMMA StructureDispose ==
    ASSUME Structure, NEW e \in Effect, Dispose(e)
    PROVE  Structure'
<1>1. life \in [Effect -> {"unborn", "live", "disposed"}] /\ life' = [life EXCEPT ![e] = "disposed"]
  BY DEF Dispose, Structure, TypeOK
<1>2. Fits(stack, target, wedged, life', running, computing, dead, batchDepth, flushDepth)
  BY <1>1, FitsLife DEF Structure
<1>3. Fits(stack, target, wedged, life, running, computing, dead, batchDepth, flushDepth)'
  BY <1>2 DEF Dispose, flags, history
<1>4. TypeOK' /\ Born'
  BY <1>1 DEF Dispose, Structure, TypeOK, Born, flags, queues, history
<1> QED
  BY <1>3, <1>4 DEF Structure

\* The delivery on top loses one effect.
LEMMA TodoTaken ==
    ASSUME Structure, ~Empty, NEW e
    PROVE  SameFrames(stack, [stack EXCEPT ![Len(stack)].todo = @ \ {e}])
<1> DEFINE f == [Top EXCEPT !.todo = @ \ {e}]
<1>1. Len(stack) \in 1 .. Len(stack) /\ Top = stack[Len(stack)] /\ Top \in Frames
  BY DEF Structure, TypeOK, Empty, Top
<1>2. /\ f \in Frames /\ f.kind = Top.kind /\ f.node = Top.node
      /\ f.todo = Top.todo \ {e} /\ f.batches = Top.batches
  BY <1>1 DEF Frames
<1>3. [stack EXCEPT ![Len(stack)].todo = @ \ {e}] = [stack EXCEPT ![Len(stack)] = f]
  BY <1>1
<1> HIDE DEF f
<1>4. SameFrames(stack, [stack EXCEPT ![Len(stack)] = f])
  BY <1>1, <1>2, SameWrites
<1> QED
  BY <1>3, <1>4

\* The next effect of a delivery gets a frame, or is taken off the list only.
LEMMA StructureRunEffect ==
    ASSUME SignalsAssumption, Structure, NEW e \in Effect, RunEffect(e)
    PROVE  Structure'
<1> DEFINE st == [stack EXCEPT ![Len(stack)].todo = @ \ {e}]
<1>0. ~Empty /\ e \in Top.todo
  BY DEF RunEffect
<1>1. SameFrames(stack, st) /\ st \in Seq(Frames)
  BY <1>0, TodoTaken DEF SameFrames
<1>2. Fits(st, target, wedged, life, running, computing, dead, batchDepth, flushDepth)
  BY <1>1, FitsSame DEF Structure
<1>u. UNCHANGED <<target, left, subs, dirty, computing, life, queues, batchDepth, flushDepth>>
  BY DEF RunEffect
<1>3. CASE life[e] = "disposed" \/ running[e]
  <2>1. /\ stack' = st /\ rerun' = [rerun EXCEPT ![e] = @ \/ life[e] # "disposed"]
        /\ UNCHANGED <<running, history>>
    BY <1>3 DEF RunEffect
  <2> HIDE DEF st
  <2>2. Fits(stack, target, wedged, life, running, computing, dead, batchDepth, flushDepth)'
    BY <1>2, <1>u, <2>1 DEF history
  <2>3. TypeOK' /\ Born'
    BY <1>1, <1>u, <2>1 DEF Structure, TypeOK, Born, queues, history
  <2> QED
    BY <2>2, <2>3 DEF Structure
<1>4. CASE ~(life[e] = "disposed" \/ running[e])
  <2>1. StartRun(e, st, 0)
    BY <1>4 DEF RunEffect
  <2> HIDE DEF st
  <2>2. Fits(st, target, wedged, life', running, computing, dead, batchDepth, flushDepth)
    BY <1>2, <1>u
  <2>3. 0 \in 0 .. (MaxFlush - 1) /\ running \in [Effect -> BOOLEAN]
    BY DEF SignalsAssumption, Structure, TypeOK
  <2>4. /\ Fits(stack, target, wedged, life, running, computing, dead, batchDepth, flushDepth)'
        /\ stack' \in Seq(Frames)
        /\ running' \in [Effect -> BOOLEAN] /\ rerun' \in [Effect -> BOOLEAN]
        /\ uses' \in [Node -> SUBSET Source] /\ stale' \subseteq Node
        /\ lost' \subseteq Effect /\ dead' \subseteq Node
    BY <1>4, <1>u, <2>1, <2>2, <2>3, StartRunKeeps
  <2>5. life[e] # "unborn"
    BY <1>0, PopKeeps DEF FrameSound
  <2>6. TypeOK' /\ Born'
    BY <1>u, <2>1, <2>4, <2>5 DEF Structure, TypeOK, Born, StartRun, queues
  <2> QED
    BY <2>4, <2>6 DEF Structure
<1> QED
  BY <1>3, <1>4

\* An effect that ends gives up its frame and its flag.
LEMMA StructureEndRun ==
    ASSUME SignalsAssumption, Structure, EndRun
    PROVE  Structure'
<1> DEFINE e == Top.node
           owed == life[e] # "disposed" /\ rerun[e]
           run == [running EXCEPT ![e] = FALSE]
<1>1. ~Empty /\ Top.kind = "effect"
  BY DEF EndRun, On
<1>2. e \in Effect /\ Top.reruns \in 0 .. (MaxFlush - 1)
  BY <1>1, PopKeeps DEF FrameSound, Frames
<1>3. Fits(Below, target, wedged, life, run, computing, dead, batchDepth, flushDepth) /\ Below \in Seq(Frames)
  BY <1>1, PopKeeps
<1>4. run \in [Effect -> BOOLEAN] /\ ~run[e] /\ [run EXCEPT ![e] = TRUE] = [running EXCEPT ![e] = TRUE]
  BY <1>2 DEF Structure, TypeOK
<1>5. life[e] # "unborn"
  <2>1. Held(stack, "effect", Effect, running, dead)
    BY DEF Structure, Fits
  <2>2. Len(stack) \in 1 .. Len(stack) /\ stack[Len(stack)] = Top
    BY <1>1, PopKeeps DEF Top
  <2>3. running[e]
    BY <1>1, <1>2, <2>1, <2>2 DEF Held
  <2> QED
    BY <1>2, <2>3 DEF Structure, Born
<1>u. UNCHANGED <<target, left, subs, dirty, computing, life, queues, batchDepth, flushDepth>>
  BY DEF EndRun
<1>6. CASE owed /\ Top.reruns + 1 < MaxFlush
  <2>1. StartRun(e, Below, Top.reruns + 1)
    BY <1>6 DEF EndRun
  <2>2. Top.reruns + 1 \in 0 .. (MaxFlush - 1)
    BY <1>2, <1>6 DEF SignalsAssumption
  <2>3. Fits(Below, target, wedged, life', run, computing, dead, batchDepth, flushDepth)
    BY <1>3, <1>u
  <2> HIDE DEF e, run, owed
  <2>4. /\ Fits(stack, target, wedged, life, running, computing, dead, batchDepth, flushDepth)'
        /\ stack' \in Seq(Frames)
        /\ running' \in [Effect -> BOOLEAN] /\ rerun' \in [Effect -> BOOLEAN]
        /\ uses' \in [Node -> SUBSET Source] /\ stale' \subseteq Node
        /\ lost' \subseteq Effect /\ dead' \subseteq Node
    BY <1>2, <1>4, <1>u, <2>1, <2>2, <2>3, StartRunKeeps
  <2>5. TypeOK'
    BY <1>u, <2>4 DEF Structure, TypeOK, queues
  <2>6. Born'
    BY <1>2, <1>5, <1>u, <2>1 DEF Structure, TypeOK, Born, StartRun, queues
  <2> QED
    BY <2>4, <2>5, <2>6 DEF Structure
<1>7. CASE ~(owed /\ Top.reruns + 1 < MaxFlush)
  <2>1. /\ stack' = Below
        /\ running' = run
        /\ rerun' = [rerun EXCEPT ![e] = @ /\ ~owed]
        /\ lost' = IF owed THEN lost \cup {e} ELSE lost
        /\ UNCHANGED <<uses, stale, dead>>
    BY <1>7 DEF EndRun
  <2>2. Fits(stack, target, wedged, life, running, computing, dead, batchDepth, flushDepth)'
    BY <1>3, <1>u, <2>1
  <2>3. rerun' \in [Effect -> BOOLEAN] /\ running' \in [Effect -> BOOLEAN] /\ lost' \subseteq Effect
    BY <1>2, <1>4, <2>1 DEF Structure, TypeOK
  <2>4. TypeOK'
    BY <1>3, <1>u, <2>1, <2>3 DEF Structure, TypeOK, queues
  <2>5. Born'
    BY <1>u, <2>1 DEF Structure, TypeOK, Born, queues
  <2> QED
    BY <2>2, <2>4, <2>5 DEF Structure
<1> QED
  BY <1>6, <1>7

\* A delivery that ends takes its share of flushDepth with it.
LEMMA StructureEndFlush ==
    ASSUME SignalsAssumption, Structure, EndFlush
    PROVE  Structure'
<1>1. /\ ~Empty /\ Top.kind \in {"flush", "batchFlush"} /\ stack' = Below
      /\ flushDepth' = IF Top.kind = "flush" THEN flushDepth - 1 ELSE flushDepth
      /\ UNCHANGED <<target, left, subs, flags, life, queues, batchDepth, history>>
  BY DEF EndFlush
<1>2. /\ Fits(Below, target, wedged, life, running, computing, dead, batchDepth,
              IF Top.kind = "flush" THEN flushDepth - 1 ELSE flushDepth)
      /\ Below \in Seq(Frames)
  BY <1>1, PopKeeps
<1>3. Fits(stack, target, wedged, life, running, computing, dead, batchDepth, flushDepth)'
  BY <1>1, <1>2 DEF flags, history
<1>4. flushDepth' \in 0 .. MaxFlush
  <2>1. flushDepth' = Count(Below, "flush")
    BY <1>1, <1>2 DEF Fits
  <2>2. flushDepth' \in Nat
    BY <1>2, <2>1, CountType
  <2> QED
    BY <1>1, <2>2 DEF Structure, TypeOK, SignalsAssumption
<1>5. TypeOK' /\ Born'
  BY <1>1, <1>2, <1>4 DEF Structure, TypeOK, Born, flags, queues, history
<1> QED
  BY <1>3, <1>5 DEF Structure

\* A frame on an empty stack.
LEMMA FirstFrame ==
    ASSUME Structure, Empty, NEW f \in Frames, FrameSound(f, target, wedged, life),
           f.kind \in {"microtask", "island"}
    PROVE  /\ Fits(<<f>>, target, wedged, life, running, computing, dead, batchDepth, flushDepth)
           /\ <<f>> \in Seq(Frames)
<1>1. Append(stack, f) = <<f>> /\ <<f>> \in Seq(Frames)
  BY DEF Empty
<1>2. Fits(Append(stack, f), target, wedged, life, running, computing, dead, batchDepth, flushDepth)
  BY FitsPush DEF Structure
<1> QED
  BY <1>1, <1>2

\* A microtask starts on an empty stack.
LEMMA StructureMicrotask ==
    ASSUME SignalsAssumption, Structure, Microtask
    PROVE  Structure'
<1> DEFINE f == Frame("microtask", pending)
<1>1. f \in Frames /\ f.kind = "microtask" /\ f.todo = pending
  BY DEF Frame, Frames, Flushes, Structure, TypeOK, SignalsAssumption
<1>2. Empty /\ stack' = <<f>>
      /\ UNCHANGED <<target, left, subs, flags, life, batched, chain, batchDepth, flushDepth, history>>
      /\ microtask' = FALSE /\ pending' = {}
  BY DEF Microtask
<1> HIDE DEF f
<1>3. FrameSound(f, target, wedged, life)
  BY <1>1 DEF FrameSound, Flushes, Structure, TypeOK, Born
<1>4. /\ Fits(<<f>>, target, wedged, life, running, computing, dead, batchDepth, flushDepth)
      /\ <<f>> \in Seq(Frames)
  BY <1>1, <1>2, <1>3, FirstFrame
<1>5. Fits(stack, target, wedged, life, running, computing, dead, batchDepth, flushDepth)'
  BY <1>2, <1>4 DEF flags, history
<1>6. TypeOK' /\ Born'
  BY <1>2, <1>4 DEF Structure, TypeOK, Born, flags, history
<1> QED
  BY <1>5, <1>6 DEF Structure

\* A microtask ends when it has run its effects.
LEMMA StructureEndMicrotask ==
    ASSUME SignalsAssumption, Structure, EndMicrotask
    PROVE  Structure'
<1>1. ~Empty /\ Top.kind = "microtask" /\ stack' = Below
      /\ UNCHANGED <<target, left, subs, flags, life, batched, microtask, batchDepth, flushDepth,
                     uses, stale, dead>>
  BY DEF EndMicrotask, On
<1>2. /\ Fits(Below, target, wedged, life, running, computing, dead, batchDepth, flushDepth)
      /\ Below \in Seq(Frames)
  BY <1>1, PopKeeps
<1>3. Fits(stack, target, wedged, life, running, computing, dead, batchDepth, flushDepth)'
  BY <1>1, <1>2 DEF flags
<1>4. chain' \in 0 .. (MaxFlush - 1) /\ pending' \subseteq pending /\ lost' \subseteq lost \cup pending
  BY DEF EndMicrotask, Structure, TypeOK, SignalsAssumption
<1>5. TypeOK'
  BY <1>1, <1>2, <1>4 DEF Structure, TypeOK, flags
<1>6. Born'
  BY <1>1, <1>4 DEF Structure, Born, flags
<1> QED
  BY <1>3, <1>5, <1>6 DEF Structure

\* A frame that may open one batch less.
LEMMA BatchTaken ==
    ASSUME NEW f \in Frames, f.batches \in Nat \ {0}
    PROVE  LET g == [f EXCEPT !.batches = @ - 1]
           IN  g \in Frames /\ g.kind = f.kind /\ g.node = f.node /\ g.todo = f.todo
<1> DEFINE n == f.batches - 1
<1>1. n \in Nat /\ [f EXCEPT !.batches = @ - 1] = [f EXCEPT !.batches = n]
  OBVIOUS
<1> HIDE DEF n
<1>2. LET g == [f EXCEPT !.batches = n]
      IN  g \in Frames /\ g.kind = f.kind /\ g.node = f.node /\ g.todo = f.todo
  BY <1>1 DEF Frames
<1> QED
  BY <1>1, <1>2

\* A batch is one frame and one more depth.
LEMMA StructureOpenBatch ==
    ASSUME SignalsAssumption, Structure, OpenBatch
    PROVE  Structure'
<1> DEFINE st == IF Current = 0 THEN stack
                 ELSE [stack EXCEPT ![Current].batches = @ - 1]
           f == Frame("batch", {})
<1>1. /\ Current \in 0 .. Len(stack) /\ stack \in Seq(Frames)
      /\ Current > 0 => stack[Current].kind \in {"effect", "memo"} /\ stack[Current].batches > 0
  BY CurrentPlace DEF Structure, TypeOK, OpenBatch
<1>2. SameFrames(stack, st)
  <2>1. CASE Current = 0
    BY <1>1, <2>1 DEF SameFrames
  <2>2. CASE Current # 0
    <3> DEFINE g == [stack[Current] EXCEPT !.batches = @ - 1]
    <3>1. Current \in 1 .. Len(stack) /\ stack[Current] \in Frames
      BY <1>1, <2>2
    <3>b. stack[Current].batches \in Nat \ {0} /\ stack[Current].kind # "island"
      BY <1>1, <2>2, <3>1 DEF Frames
    <3>2. /\ g \in Frames
          /\ g.kind = stack[Current].kind /\ g.node = stack[Current].node
          /\ g.todo = stack[Current].todo /\ g.kind # "island"
      BY <3>1, <3>b, BatchTaken
    <3>3. st = [stack EXCEPT ![Current] = g]
      BY <2>2, <3>1
    <3> HIDE DEF g, st
    <3>4. SameFrames(stack, [stack EXCEPT ![Current] = g])
      BY <3>1, <3>2, SameWrites
    <3> QED
      BY <3>3, <3>4
  <2> QED
    BY <2>1, <2>2
<1>3. Fits(st, target, wedged, life, running, computing, dead, batchDepth, flushDepth)
  BY <1>2, FitsSame DEF Structure
<1>4. f \in Frames /\ f.kind = "batch" /\ f.todo = {}
  BY DEF Frame, Frames, SignalsAssumption
<1>5. /\ stack' = Append(st, f) /\ batchDepth' = batchDepth + 1
      /\ UNCHANGED <<target, left, subs, flags, life, queues, flushDepth, history>>
  BY DEF OpenBatch
<1> HIDE DEF st, f
<1>6. FrameSound(f, target, wedged, life)
  BY <1>4 DEF FrameSound
<1>7. Fits(Append(st, f), target, wedged, life, running, computing, dead, batchDepth + 1, flushDepth)
  BY <1>3, <1>4, <1>6, FitsPush
<1>8. Fits(stack, target, wedged, life, running, computing, dead, batchDepth, flushDepth)'
  BY <1>5, <1>7 DEF flags, history
<1>9. stack' \in Seq(Frames)
  BY <1>8 DEF Fits, StackSound
<1>10. batchDepth' \in Nat
  BY <1>5 DEF Structure, TypeOK
<1>11. TypeOK' /\ Born'
  BY <1>5, <1>9, <1>10 DEF Structure, TypeOK, Born, flags, queues, history
<1> QED
  BY <1>8, <1>11 DEF Structure

\* The end of a batch takes both back, and the outermost delivers.
LEMMA StructureCloseBatch ==
    ASSUME SignalsAssumption, Structure, CloseBatch
    PROVE  Structure'
<1>1. /\ ~Empty /\ Top.kind = "batch" /\ batchDepth' = batchDepth - 1
      /\ UNCHANGED <<target, left, subs, flags, life, microtask, chain, flushDepth, history>>
  BY DEF CloseBatch, On
<1>2. /\ Fits(Below, target, wedged, life, running, computing, dead, batchDepth - 1, flushDepth)
      /\ Below \in Seq(Frames)
  BY <1>1, PopKeeps
<1>3. batchDepth - 1 \in Nat
  <2>1. wedged \in Nat /\ batchDepth - 1 = wedged + Count(Below, "batch")
    BY <1>2 DEF Fits
  <2>2. Count(Below, "batch") \in Nat
    BY <1>2, CountType
  <2> QED
    BY <2>1, <2>2
<1>4. CASE batchDepth = 1
  <2> DEFINE f == Frame("batchFlush", batched)
  <2>1. f \in Frames /\ f.kind = "batchFlush" /\ f.todo = batched
    BY DEF Frame, Frames, Flushes, Structure, TypeOK, SignalsAssumption
  <2>2. batched' = {} /\ pending' = pending \ batched /\ stack' = Append(Below, f)
    BY <1>4 DEF CloseBatch
  <2> HIDE DEF f
  <2>3. FrameSound(f, target, wedged, life)
    BY <2>1 DEF FrameSound, Flushes, Structure, TypeOK, Born
  <2>4. Fits(Append(Below, f), target, wedged, life, running, computing, dead, batchDepth - 1, flushDepth)
    BY <1>2, <2>1, <2>3, FitsPush
  <2>5. Fits(stack, target, wedged, life, running, computing, dead, batchDepth, flushDepth)'
    BY <1>1, <2>2, <2>4 DEF flags, history
  <2>6. stack' \in Seq(Frames)
    BY <2>5 DEF Fits, StackSound
  <2>7. TypeOK' /\ Born'
    BY <1>1, <1>3, <2>2, <2>6 DEF Structure, TypeOK, Born, flags, history
  <2> QED
    BY <2>5, <2>7 DEF Structure
<1>5. CASE batchDepth # 1
  <2>1. stack' = Below /\ UNCHANGED <<batched, pending>>
    BY <1>5 DEF CloseBatch
  <2>2. Fits(stack, target, wedged, life, running, computing, dead, batchDepth, flushDepth)'
    BY <1>1, <1>2, <2>1 DEF flags, history
  <2>3. TypeOK' /\ Born'
    BY <1>1, <1>2, <1>3, <2>1 DEF Structure, TypeOK, Born, flags, history
  <2> QED
    BY <2>2, <2>3 DEF Structure
<1> QED
  BY <1>4, <1>5

\* No frame at all, so only traps keep the depth up and no delivery runs.
LEMMA EmptyDepths ==
    ASSUME Structure, Empty
    PROVE  batchDepth = wedged /\ flushDepth = 0
<1>1. Count(stack, "batch") = 0 /\ Count(stack, "flush") = 0
  <2>1. \A kind : {i \in 1 .. Len(stack) : stack[i].kind = kind} = {}
    BY DEF Empty
  <2> QED
    BY <2>1, FS_EmptySet DEF Count
<1> QED
  BY <1>1 DEF Structure, Fits

\* An island is entered with an empty stack.
LEMMA StructureIsland ==
    ASSUME SignalsAssumption, Structure, Island
    PROVE  Structure'
<1> DEFINE f == [Frame("island", {}) EXCEPT !.batches = batchDepth]
<1>1. Empty /\ target = "web" /\ stack' = <<f>>
      /\ UNCHANGED <<target, left, subs, flags, life, queues, batchDepth, flushDepth, history>>
  BY DEF Island
<1>2. batchDepth = wedged /\ wedged \in Nat
  BY <1>1, EmptyDepths DEF Structure, TypeOK
<1>3. f \in Frames /\ f.kind = "island" /\ f.todo = {} /\ f.batches = wedged
  BY <1>2 DEF Frame, Frames, SignalsAssumption
<1> HIDE DEF f
<1>4. FrameSound(f, target, wedged, life)
  BY <1>1, <1>3 DEF FrameSound
<1>5. /\ Fits(<<f>>, target, wedged, life, running, computing, dead, batchDepth, flushDepth)
      /\ <<f>> \in Seq(Frames)
  BY <1>1, <1>3, <1>4, FirstFrame
<1>6. Fits(stack, target, wedged, life, running, computing, dead, batchDepth, flushDepth)'
  BY <1>1, <1>5 DEF flags, history
<1>7. TypeOK' /\ Born'
  BY <1>1, <1>5 DEF Structure, TypeOK, Born, flags, queues, history
<1> QED
  BY <1>6, <1>7 DEF Structure

\* Leaving an island pops its frame.
LEMMA StructureEndIsland ==
    ASSUME SignalsAssumption, Structure, EndIsland
    PROVE  Structure'
<1>1. ~Empty /\ Top.kind = "island" /\ stack' = Below
      /\ UNCHANGED <<target, left, subs, flags, life, queues, batchDepth, flushDepth, history>>
  BY DEF EndIsland, On
<1>2. /\ Fits(Below, target, wedged, life, running, computing, dead, batchDepth, flushDepth)
      /\ Below \in Seq(Frames)
  BY <1>1, PopKeeps
<1>3. Fits(stack, target, wedged, life, running, computing, dead, batchDepth, flushDepth)'
  BY <1>1, <1>2 DEF flags, history
<1>4. TypeOK' /\ Born'
  BY <1>1, <1>2 DEF Structure, TypeOK, Born, flags, queues, history
<1> QED
  BY <1>3, <1>4 DEF Structure

\* A caught panic unwinds frames and clears their flags.
LEMMA StructurePanic ==
    ASSUME SignalsAssumption, Structure, NEW k \in 0 .. Len(stack), Panic(k)
    PROVE  Structure'
<1> DEFINE memos == NodesOf(Unwound(k, "memo"))
           effects == NodesOf(Unwound(k, "effect"))
           st == SubSeq(stack, 1, k)
<1>1. stack \in Seq(Frames) /\ Len(stack) \in Nat
  BY DEF Structure, TypeOK
<1>2. /\ stack' = st
      /\ computing' = [m \in Memo |-> computing[m] /\ m \notin memos]
      /\ dirty' = [m \in Memo |-> dirty[m] \/ m \in memos]
      /\ running' = [e \in Effect |-> running[e] /\ e \notin effects]
      /\ batchDepth' = batchDepth - Cardinality(Unwound(k, "batch"))
      /\ flushDepth' = flushDepth - Cardinality(Unwound(k, "flush"))
      /\ stale' = stale \cup memos
      /\ lost' = lost \cup {e \in effects : rerun[e]}
                     \cup UNION {stack[i].todo : i \in (k + 1) .. Len(stack)}
      /\ UNCHANGED <<target, left, subs, rerun, life, queues, uses, dead>>
  BY DEF Panic
<1>3. StackSound(st, target, wedged, life)
  BY SoundCut DEF Structure, Fits
<1>4. Held(st, "effect", Effect, running', dead)
  <2>1. \A e \in Effect : running'[e] <=>
          running[e] /\ ~ \E i \in (k + 1) .. Len(stack) : stack[i].kind = "effect" /\ stack[i].node = e
    <3>1. \A e : e \in effects <=> \E i \in (k + 1) .. Len(stack) : stack[i].kind = "effect" /\ stack[i].node = e
      BY DEF NodesOf, Unwound
    <3> HIDE DEF effects
    <3> QED
      BY <1>2, <3>1 DEF Structure, TypeOK
  <2> QED
    BY <1>1, <2>1, HeldCut DEF Structure, Fits
<1>5. Held(st, "memo", Memo, computing', dead)
  <2>1. \A m \in Memo : computing'[m] <=>
          computing[m] /\ ~ \E i \in (k + 1) .. Len(stack) : stack[i].kind = "memo" /\ stack[i].node = m
    <3>1. \A m : m \in memos <=> \E i \in (k + 1) .. Len(stack) : stack[i].kind = "memo" /\ stack[i].node = m
      BY DEF NodesOf, Unwound
    <3> HIDE DEF memos
    <3> QED
      BY <1>2, <3>1 DEF Structure, TypeOK
  <2> QED
    BY <1>1, <2>1, HeldCut DEF Structure, Fits
<1>6. \A kind : Count(st, kind) = Count(stack, kind) - Cardinality(Unwound(k, kind))
                /\ Count(st, kind) \in Nat
  BY <1>1, CountCut DEF Unwound
<1>c. Cardinality(Unwound(k, "batch")) \in Nat /\ Count(stack, "batch") \in Nat
  <2>1. /\ IsFiniteSet({i \in 1 .. Len(stack) : stack[i].kind = "batch"})
        /\ Count(stack, "batch") \in Nat
    BY <1>1, CountType
  <2>2. Unwound(k, "batch") \subseteq {i \in 1 .. Len(stack) : stack[i].kind = "batch"}
    BY <1>1 DEF Unwound
  <2> QED
    BY <2>1, <2>2, FS_Subset, FS_CardinalityType
<1>7. batchDepth' = wedged + Count(st, "batch") /\ wedged \in Nat /\ flushDepth' = Count(st, "flush")
  BY <1>2, <1>6, <1>c DEF Structure, Fits
<1>8. Fits(stack, target, wedged, life, running, computing, dead, batchDepth, flushDepth)'
  BY <1>2, <1>3, <1>4, <1>5, <1>7 DEF Fits
<1>9. batchDepth' \in Nat /\ flushDepth' \in 0 .. MaxFlush
  <2>1. ASSUME NEW kind PROVE Cardinality(Unwound(k, kind)) \in Nat
    <3>1. IsFiniteSet({i \in 1 .. Len(stack) : stack[i].kind = kind})
      BY <1>1, CountType
    <3>2. Unwound(k, kind) \subseteq {i \in 1 .. Len(stack) : stack[i].kind = kind}
      BY <1>1 DEF Unwound
    <3> QED
      BY <3>1, <3>2, FS_Subset, FS_CardinalityType
  <2>2. batchDepth' \in Nat /\ flushDepth' \in Nat
    BY <1>6, <1>7
  <2> QED
    BY <1>2, <2>1, <2>2 DEF Structure, TypeOK, SignalsAssumption
<1>10. \A i \in 1 .. Len(stack) : stack[i].todo \subseteq Effect
  BY <1>1, TodoType
<1>11. lost' \subseteq Effect
  <2>1. effects \subseteq Effect
    BY <1>1 DEF Structure, Fits, Held, NodesOf, Unwound
  <2> QED
    BY <1>1, <1>2, <1>10, <2>1 DEF Structure, TypeOK
<1>12. memos \subseteq Memo
  BY <1>1 DEF Structure, Fits, Held, NodesOf, Unwound
<1> HIDE DEF memos, effects, st
<1>13. stack' \in Seq(Frames)
  BY <1>8 DEF Fits, StackSound
<1>14. computing' \in [Memo -> BOOLEAN] /\ dirty' \in [Memo -> BOOLEAN] /\ running' \in [Effect -> BOOLEAN]
  BY <1>2 DEF Structure, TypeOK
<1>15. TypeOK' /\ Born'
  BY <1>2, <1>9, <1>11, <1>12, <1>13, <1>14 DEF Structure, TypeOK, Born, queues, Node
<1> QED
  BY <1>8, <1>15 DEF Structure

\* The empty stack, and no frame to count.
LEMMA NoFrames ==
    ASSUME NEW tg, NEW wg, NEW lf
    PROVE  StackSound(<<>>, tg, wg, lf) /\ \A kind : Count(<<>>, kind) = 0
<1>1. ASSUME NEW kind PROVE Count(<<>>, kind) = 0
  <2>1. {i \in 1 .. Len(<<>>) : <<>>[i].kind = kind} = {}
    OBVIOUS
  <2> QED
    BY <2>1, FS_EmptySet DEF Count
<1> QED
  BY <1>1 DEF StackSound

\* A trap cuts the stack off; the flags stay, and their nodes are dead.
LEMMA AbortKeeps ==
    ASSUME SignalsAssumption, Structure, target = "web", Abort, UNCHANGED <<flags, target, life>>,
           wedged' \in Nat
    PROVE  /\ flushDepth = 0
           /\ Fits(stack', target', wedged', life', running', computing', dead', wedged', 0)
           /\ stack' \in Seq(Frames) /\ dead' \subseteq Node /\ stale' \subseteq Node
           /\ lost' \subseteq Effect
<1> DEFINE memos == NodesOf(Unwound(0, "memo"))
           effects == NodesOf(Unwound(0, "effect"))
<1>1. stack \in Seq(Frames) /\ Len(stack) \in Nat
  BY DEF Structure, TypeOK
<1>2. /\ stack' = <<>>
      /\ dead' = dead \cup memos \cup effects
      /\ stale' = stale \cup memos
      /\ lost' = lost \cup effects \cup UNION {stack[i].todo : i \in 1 .. Len(stack)}
  BY DEF Abort
<1>3. flushDepth = 0
  <2>1. {i \in 1 .. Len(stack) : stack[i].kind = "flush"} = {}
    BY DEF Structure, Fits, StackSound, FrameSound
  <2> QED
    BY <2>1, FS_EmptySet DEF Structure, Fits, Count
<1>4. /\ \A n : n \in memos <=> \E i \in 1 .. Len(stack) : stack[i].kind = "memo" /\ stack[i].node = n
      /\ \A n : n \in effects <=> \E i \in 1 .. Len(stack) : stack[i].kind = "effect" /\ stack[i].node = n
  BY DEF NodesOf, Unwound
<1>5. memos \subseteq Memo /\ effects \subseteq Effect
  BY <1>4 DEF Structure, Fits, Held
<1> HIDE DEF memos, effects
<1>6. Held(<<>>, "effect", Effect, running, dead')
  <2>1. \A n \in Effect : n \in dead' <=>
          n \in dead \/ \E i \in 1 .. Len(stack) : stack[i].kind = "effect" /\ stack[i].node = n
    BY <1>2, <1>4, <1>5 DEF SignalsAssumption
  <2> QED
    BY <2>1, HeldTrap DEF Structure, Fits
<1>7. Held(<<>>, "memo", Memo, computing, dead')
  <2>1. \A n \in Memo : n \in dead' <=>
          n \in dead \/ \E i \in 1 .. Len(stack) : stack[i].kind = "memo" /\ stack[i].node = n
    BY <1>2, <1>4, <1>5 DEF SignalsAssumption
  <2> QED
    BY <2>1, HeldTrap DEF Structure, Fits
<1>8. Fits(<<>>, target, wedged', life, running, computing, dead', wedged', 0)
  BY <1>6, <1>7, NoFrames DEF Fits
<1>9. Fits(stack', target', wedged', life', running', computing', dead', wedged', 0)
  BY <1>2, <1>8 DEF flags
<1>10. lost' \subseteq Effect
  <2>1. \A i \in 1 .. Len(stack) : stack[i].todo \subseteq Effect
    BY <1>1, TodoType
  <2> QED
    BY <1>2, <1>5, <2>1 DEF Structure, TypeOK
<1>11. stack' \in Seq(Frames)
  BY <1>9 DEF Fits, StackSound
<1>12. dead' \subseteq Node /\ stale' \subseteq Node
  BY <1>2, <1>5 DEF Structure, TypeOK, Node
<1> QED
  BY <1>3, <1>9, <1>10, <1>11, <1>12

\* In an island, the depth of the snapshot is the one that stays.
LEMMA StructureTrap ==
    ASSUME SignalsAssumption, Structure, Trap
    PROVE  Structure'
<1>1. stack \in Seq(Frames) /\ Len(stack) \in Nat \ {0} /\ stack[1].kind = "island"
  BY DEF Trap, Empty, Structure, TypeOK
<1>2. /\ Abort /\ batchDepth' = stack[1].batches
      /\ UNCHANGED <<target, left, subs, flags, life, queues, flushDepth, uses>>
  BY DEF Trap
<1>3. stack[1].batches = wedged /\ target = "web" /\ wedged' = wedged /\ wedged \in Nat
  BY <1>1, <1>2 DEF Structure, Fits, StackSound, FrameSound
<1>4. /\ flushDepth = 0
      /\ Fits(stack', target', wedged', life', running', computing', dead', wedged', 0)
      /\ stack' \in Seq(Frames) /\ dead' \subseteq Node /\ stale' \subseteq Node
      /\ lost' \subseteq Effect
  BY <1>2, <1>3, AbortKeeps
<1>5. Fits(stack, target, wedged, life, running, computing, dead, batchDepth, flushDepth)'
  BY <1>2, <1>3, <1>4
<1>6. TypeOK' /\ Born'
  BY <1>2, <1>3, <1>4 DEF Structure, TypeOK, Born, flags, queues
<1> QED
  BY <1>5, <1>6 DEF Structure

\* Outside every island, the depth of the open batches stays too.
LEMMA StructureTrapOutside ==
    ASSUME SignalsAssumption, Structure, TrapOutside
    PROVE  Structure'
<1>1. stack \in Seq(Frames) /\ wedged \in Nat
  BY DEF Structure, TypeOK
<1>2. /\ Abort /\ target = "web"
      /\ outer' = IF Current = 0 THEN outer ELSE stack[Current].node
      /\ wedged' = wedged + Count(stack, "batch")
      /\ UNCHANGED <<target, subs, flags, life, queues, batchDepth, flushDepth, uses>>
  BY DEF TrapOutside, Count
<1>3. batchDepth' = wedged' /\ wedged' \in Nat
  <2>1. Count(stack, "batch") \in Nat
    BY <1>1, CountType
  <2> QED
    BY <1>1, <1>2, <2>1 DEF Structure, Fits
<1>4. /\ flushDepth = 0
      /\ Fits(stack', target', wedged', life', running', computing', dead', wedged', 0)
      /\ stack' \in Seq(Frames) /\ dead' \subseteq Node /\ stale' \subseteq Node
      /\ lost' \subseteq Effect
  BY <1>2, <1>3, AbortKeeps
<1>5. outer' \in Node \cup {"none"}
  <2>1. CASE Current = 0
    BY <1>2, <2>1 DEF Structure, TypeOK
  <2>2. CASE Current # 0
    <3>1. Current \in 1 .. Len(stack) /\ stack[Current].kind \in {"effect", "memo"}
      BY <1>1, <2>2, CurrentPlace
    <3>2. stack[Current].node \in Node
      BY <3>1 DEF Structure, Fits, StackSound, FrameSound, Node
    <3> QED
      BY <1>2, <2>2, <3>2
  <2> QED
    BY <2>1, <2>2
<1>6. Fits(stack, target, wedged, life, running, computing, dead, batchDepth, flushDepth)'
  BY <1>2, <1>3, <1>4
<1>7. TypeOK' /\ Born'
  BY <1>2, <1>3, <1>4, <1>5 DEF Structure, TypeOK, Born, flags, queues
<1> QED
  BY <1>6, <1>7 DEF Structure

\* The thread starts with no frame.
LEMMA StructureInit == SignalsAssumption /\ Init => Structure
<1> SUFFICES ASSUME SignalsAssumption, Init PROVE Structure
  OBVIOUS
<1>1. Held(<<>>, "effect", Effect, running, dead) /\ Held(<<>>, "memo", Memo, computing, dead)
  BY DEF Held, Init
<1>f. Fits(<<>>, target, 0, life, running, computing, dead, 0, 0)
  BY <1>1, NoFrames DEF Fits
<1>2. Fits(stack, target, wedged, life, running, computing, dead, batchDepth, flushDepth)
  BY <1>f DEF Init
<1>t. stack \in Seq(Frames) /\ 0 \in 0 .. (MaxFlush - 1) /\ 0 \in 0 .. MaxFlush
  BY DEF Init, SignalsAssumption
<1>3. TypeOK
  BY <1>t DEF Init, TypeOK, Node
<1>4. Born
  BY DEF Init, Born
<1> QED
  BY <1>2, <1>3, <1>4 DEF Structure

\* Every step keeps flags, depths and stack in agreement.
LEMMA StructureStep == SignalsAssumption /\ Structure /\ [Next]_vars => Structure'
<1> SUFFICES ASSUME SignalsAssumption, Structure, [Next]_vars PROVE Structure'
  OBVIOUS
<1>1. CASE UNCHANGED vars
  BY <1>1 DEF vars, flags, queues, history, Structure, TypeOK, Born, Fits, StackSound, Held
<1>2. CASE Runtime
  BY <1>2, StructureRunEffect, StructureComputed, StructureEndRun, StructureEndFlush,
     StructureMicrotask, StructureEndMicrotask, StructureCloseBatch, StructureEndIsland DEF Runtime
<1>3. CASE Next /\ ~Runtime
  BY <1>3, StructureWrite, StructureRead, StructureReadOutside, StructureCreate, StructureDispose,
     StructureOpenBatch, StructurePanic, StructureIsland, StructureTrap, StructureTrapOutside DEF Next
<1> QED
  BY <1>1, <1>2, <1>3

\* So they agree in every state.
LEMMA StructureInvariant == Spec => []Structure
BY SignalsAssumption, StructureInit, StructureStep, PTL DEF Spec

\* Whatever the graph and the bodies, the state keeps its type: no depth goes
\* below 0, no counter goes above its limit, and no frame is left without its node.
THEOREM SignalsTypeCorrect == Spec => []TypeOK
<1>1. Structure => TypeOK
  BY DEF Structure
<1> QED
  BY <1>1, StructureInvariant, PTL

\* The guards and the snapshot: after any returns, caught panics and traps of
\* islands, the depths and the flags are those of the frames on the stack.  After
\* a trap outside every island, which nobody recovers from, they still are, but
\* for exactly what it left behind: the depth of the batches that were open
\* (`wedged') and the flags of the nodes that were running (`dead').
THEOREM SignalsFlagsMatchStack == Spec => []FlagsMatchStack
<1>1. ASSUME Structure PROVE FlagsMatchStack
  <2>1. batchDepth = wedged + Cardinality(Places("batch")) /\ flushDepth = Cardinality(Places("flush"))
    BY <1>1 DEF Structure, Fits, Count, Places
  <2>2. ASSUME NEW kind, NEW S, NEW flag \in [S -> BOOLEAN], Held(stack, kind, S, flag, dead), NEW n \in S
        PROVE  Cardinality({i \in Places(kind) : stack[i].node = n})
                 = IF flag[n] /\ n \notin dead THEN 1 ELSE 0
    <3>1. CASE flag[n] /\ n \notin dead
      <4>1. PICK i \in 1 .. Len(stack) : stack[i].kind = kind /\ stack[i].node = n
        BY <2>2, <3>1 DEF Held
      <4>2. {j \in Places(kind) : stack[j].node = n} = {i}
        BY <2>2, <4>1 DEF Held, Places
      <4> QED
        BY <3>1, <4>2, FS_Singleton
    <3>2. CASE ~(flag[n] /\ n \notin dead)
      <4>1. {j \in Places(kind) : stack[j].node = n} = {}
        BY <2>2, <3>2 DEF Held, Places
      <4> QED
        BY <3>2, <4>1, FS_EmptySet
    <3> QED
      BY <3>1, <3>2
  <2>3. /\ running \in [Effect -> BOOLEAN] /\ computing \in [Memo -> BOOLEAN]
        /\ Held(stack, "effect", Effect, running, dead) /\ Held(stack, "memo", Memo, computing, dead)
    BY <1>1 DEF Structure, TypeOK, Fits
  <2> QED
    BY <2>1, <2>2, <2>3 DEF FlagsMatchStack
<1> QED
  BY <1>1, StructureInvariant, PTL

-----------------------------------------------------------------------------
(* The second half: nobody who read a value is forgotten when it changes.  *)

\* The effects that are going to run, or whose delivery was given up.
Deferred == Awaited \cup lost

\* Subscribed and CleanMemosFresh are not inductive.  A write follows the lists
\* of a dirty memo too, if it still has subscribers: a panic dirties a memo that
\* others have read, and keeps its lists.  A memo that is being computed is not
\* stale either, unless a trap has cut its run off.
MemosTracked == \A m \in Memo : ~dirty[m] \/ subs[m] # {} => \A d \in uses[m] : m \in subs[d]
MemosFresh == \A m \in Memo \ dead : ~dirty[m] => m \notin stale
EffectsTracked ==
    \A e \in Effect : life[e] = "live" /\ e \notin Deferred => \A d \in uses[e] : e \in subs[d]

Tracked == MemosTracked /\ MemosFresh /\ EffectsTracked /\ StaleEffectsRun

-----------------------------------------------------------------------------
(* What the frames of a stack are still to run.                            *)

\* A pushed frame adds what it has to run.
LEMMA TodosPush ==
    ASSUME NEW st \in Seq(Frames), NEW f \in Frames
    PROVE  Todos(Append(st, f)) = Todos(st) \cup f.todo
<1> DEFINE tt == Append(st, f)
<1>1. /\ Len(st) \in Nat /\ Len(tt) = Len(st) + 1 /\ tt[Len(st) + 1] = f
      /\ \A i \in 1 .. Len(st) : tt[i] = st[i]
      /\ 1 .. Len(tt) = 1 .. Len(st) \cup {Len(st) + 1}
  OBVIOUS
<1> HIDE DEF tt
<1>2. \A e : e \in Todos(tt) <=> e \in Todos(st) \/ e \in f.todo
  BY <1>1 DEF Todos
<1> QED
  BY <1>2 DEF tt

\* A popped frame takes with it what it had to run.
LEMMA TodosPop ==
    ASSUME NEW st \in Seq(Frames), st # <<>>
    PROVE  Todos(st) = Todos(SubSeq(st, 1, Len(st) - 1)) \cup st[Len(st)].todo
<1> DEFINE tt == SubSeq(st, 1, Len(st) - 1)
           f == st[Len(st)]
<1>1. tt \in Seq(Frames) /\ f \in Frames /\ st = Append(tt, f)
  OBVIOUS
<1> HIDE DEF tt, f
<1>2. Todos(Append(tt, f)) = Todos(tt) \cup f.todo
  BY <1>1, TodosPush
<1>3. Todos(st) = Todos(tt) \cup f.todo
  BY <1>1, <1>2
<1> QED
  BY <1>3 DEF tt, f

\* A frame that is no delivery has nothing to run, and takes nothing with it.
LEMMA TodosBelow ==
    ASSUME Structure, ~Empty, Top.kind \notin Flushes \/ Top.todo = {}
    PROVE  Todos(Below) = Todos(stack)
<1>1. Top.todo = {}
  BY PopKeeps DEF FrameSound
<1>2. stack \in Seq(Frames) /\ stack # <<>>
  BY DEF Structure, TypeOK, Empty
<1> QED
  BY <1>1, <1>2, TodosPop DEF Top, Below

\* An empty stack has nothing to run.
LEMMA TodosEmpty == Todos(<<>>) = {}
<1>1. 1 .. Len(<<>>) = {}
  OBVIOUS
<1> QED
  BY <1>1 DEF Todos

-----------------------------------------------------------------------------
(* Steps that change no list of subscribers.                               *)

\* Nobody is forgotten if memos only get dirty, and an effect that stays live
\* keeps what it has read and its turn, or starts afresh.
LEMMA TrackedQuiet ==
    ASSUME Tracked, subs' = subs, dead \subseteq dead',
           \A m \in Memo : uses'[m] = uses[m] /\ (dirty[m] => dirty'[m]),
           \A m \in Memo \ dead' : m \in stale' /\ ~dirty'[m] => m \in stale,
           \A e \in Effect : life'[e] = "live" =>
             \/ uses'[e] = {} /\ e \notin stale'
             \/ /\ life[e] = "live" /\ uses'[e] = uses[e]
                /\ e \in stale' => e \in stale
                /\ e \in Deferred => e \in Deferred'
    PROVE  Tracked'
<1>1. MemosTracked'
  BY DEF Tracked, MemosTracked
<1>2. MemosFresh'
  BY DEF Tracked, MemosFresh
<1>3. EffectsTracked'
  BY DEF Tracked, EffectsTracked
<1>4. StaleEffectsRun'
  BY DEF Tracked, StaleEffectsRun, Deferred
<1> QED
  BY <1>1, <1>2, <1>3, <1>4 DEF Tracked

\* The steps that change no history but what was given up.
LEMMA TrackedDeferral ==
    ASSUME Tracked, UNCHANGED <<subs, dirty, uses, stale, dead>>,
           \A e \in Effect : life'[e] = "live" => life[e] = "live" /\ (e \in Deferred => e \in Deferred')
    PROVE  Tracked'
BY TrackedQuiet

\* A run forgets what the last one read.
LEMMA TrackedStart ==
    ASSUME SignalsAssumption, Structure, Tracked, NEW e \in Effect, NEW st \in Seq(Frames),
           NEW reruns \in 0 .. (MaxFlush - 1), StartRun(e, st, reruns),
           Todos(stack) \subseteq Todos(st) \cup {e},
           UNCHANGED <<subs, dirty, batched, pending>>,
           \A x \in Effect \ {e} : life'[x] = life[x]
    PROVE  Tracked'
<1> DEFINE f == Body(e, reruns)
<1>1. f \in Frames /\ f.todo = {}
  BY DEF Body, Frames, Node, SignalsAssumption
<1>2. /\ stack' = Append(st, f)
      /\ running' = [running EXCEPT ![e] = TRUE] /\ rerun' = [rerun EXCEPT ![e] = FALSE]
      /\ uses' = [uses EXCEPT ![e] = {}] /\ stale' = stale \ {e} /\ lost' = lost \ {e}
      /\ dead' = dead
  BY DEF StartRun
<1> HIDE DEF f
<1>3. Todos(stack') = Todos(st)
  BY <1>1, <1>2, TodosPush
<1>4. /\ running \in [Effect -> BOOLEAN] /\ rerun \in [Effect -> BOOLEAN]
      /\ uses \in [Node -> SUBSET Source]
  BY DEF Structure, TypeOK
<1>5. \A x \in Effect \ {e} : x \in Deferred => x \in Deferred'
  BY <1>2, <1>3, <1>4 DEF Deferred, Awaited, Todos
<1>6. uses'[e] = {} /\ e \notin stale' /\ \A n \in Node \ {e} : uses'[n] = uses[n]
  BY <1>2, <1>4 DEF Node
<1>7. \A m \in Memo : uses'[m] = uses[m]
  BY <1>6 DEF Node, SignalsAssumption
<1>8. \A x \in Effect \ {e} : uses'[x] = uses[x] /\ (x \in stale' => x \in stale)
  BY <1>2, <1>6 DEF Node
<1>9. \A m \in Memo : m \in stale' => m \in stale
  BY <1>2
<1> QED
  BY <1>2, <1>5, <1>6, <1>7, <1>8, <1>9, TrackedQuiet

\* What is deferred, apart from the frames.
LEMMA DeferredParts ==
    /\ \A e : e \in Deferred <=>
         \/ e \in batched \cup pending \cup lost \/ e \in Todos(stack)
         \/ e \in Effect /\ running[e] /\ rerun[e]
    /\ \A e : e \in Deferred' <=>
         \/ e \in batched' \cup pending' \cup lost' \/ e \in Todos(stack')
         \/ e \in Effect /\ running'[e] /\ rerun'[e]
BY DEF Deferred, Awaited, Todos

\* An effect that runs forgets what it read; one that cannot run is owed a run.
LEMMA TrackedRunEffect ==
    ASSUME SignalsAssumption, Structure, Tracked, NEW e \in Effect, RunEffect(e)
    PROVE  Tracked'
<1> DEFINE st == [stack EXCEPT ![Len(stack)].todo = @ \ {e}]
<1>1. ~Empty /\ st \in Seq(Frames)
  BY TodoTaken DEF RunEffect, SameFrames
<1>2. Todos(stack) \subseteq Todos(st) \cup {e}
  <2>1. stack \in Seq(Frames) /\ Len(stack) \in 1 .. Len(stack)
    BY <1>1 DEF Structure, TypeOK, Empty
  <2>2. \A i \in 1 .. Len(stack) : stack[i] \in Frames
    BY <2>1
  <2>3. Len(st) = Len(stack) /\ \A i \in 1 .. Len(stack) : stack[i].todo \subseteq st[i].todo \cup {e}
    BY <2>1, <2>2 DEF Frames
  <2> HIDE DEF st
  <2> QED
    BY <2>3 DEF Todos
<1>u. UNCHANGED <<target, left, subs, dirty, computing, life, queues, batchDepth, flushDepth>>
  BY DEF RunEffect
<1>3. CASE life[e] = "disposed" \/ running[e]
  <2>1. /\ stack' = st /\ rerun' = [rerun EXCEPT ![e] = @ \/ life[e] # "disposed"]
        /\ UNCHANGED <<running, uses, stale, lost, dead>>
    BY <1>3 DEF RunEffect, history
  <2> HIDE DEF st
  <2>2. rerun \in [Effect -> BOOLEAN] /\ running \in [Effect -> BOOLEAN]
    BY DEF Structure, TypeOK
  <2>3. \A x \in Effect : life'[x] = "live" => life[x] = "live" /\ (x \in Deferred => x \in Deferred')
    <3>1. ASSUME NEW x \in Effect, life[x] = "live", x \in Deferred PROVE x \in Deferred'
      <4>1. CASE x = e
        BY <1>3, <2>1, <2>2, <3>1, <4>1, DeferredParts
      <4>2. CASE x # e
        BY <1>2, <1>u, <2>1, <2>2, <3>1, <4>2, DeferredParts DEF queues
      <4> QED
        BY <4>1, <4>2
    <3> QED
      BY <1>u, <3>1
  <2> QED
    BY <1>u, <2>1, <2>3, TrackedDeferral
<1>4. CASE ~(life[e] = "disposed" \/ running[e])
  <2>1. StartRun(e, st, 0) /\ 0 \in 0 .. (MaxFlush - 1)
    BY <1>4 DEF RunEffect, SignalsAssumption
  <2> HIDE DEF st
  <2> QED
    BY <1>1, <1>2, <1>u, <2>1, TrackedStart DEF queues
<1> QED
  BY <1>3, <1>4

\* An effect whose body ends runs again if that is owed, or counts as lost at the limit.
LEMMA TrackedEndRun ==
    ASSUME SignalsAssumption, Structure, Tracked, EndRun
    PROVE  Tracked'
<1> DEFINE e == Top.node
           owed == life[e] # "disposed" /\ rerun[e]
<1>1. ~Empty /\ Top.kind = "effect"
  BY DEF EndRun, On
<1>2. e \in Effect /\ Top.reruns \in 0 .. (MaxFlush - 1) /\ Below \in Seq(Frames)
  BY <1>1, PopKeeps DEF FrameSound, Frames
<1>3. Todos(Below) = Todos(stack)
  BY <1>1, TodosBelow DEF Flushes
<1>u. UNCHANGED <<target, left, subs, dirty, computing, life, queues, batchDepth, flushDepth>>
  BY DEF EndRun
<1>4. CASE owed /\ Top.reruns + 1 < MaxFlush
  <2>1. StartRun(e, Below, Top.reruns + 1) /\ Top.reruns + 1 \in 0 .. (MaxFlush - 1)
    BY <1>2, <1>4 DEF EndRun, SignalsAssumption
  <2> HIDE DEF e
  <2> QED
    BY <1>2, <1>3, <1>u, <2>1, TrackedStart DEF queues
<1>5. CASE ~(owed /\ Top.reruns + 1 < MaxFlush)
  <2>1. /\ stack' = Below
        /\ running' = [running EXCEPT ![e] = FALSE]
        /\ rerun' = [rerun EXCEPT ![e] = @ /\ ~owed]
        /\ lost' = IF owed THEN lost \cup {e} ELSE lost
        /\ UNCHANGED <<uses, stale, dead>>
    BY <1>5 DEF EndRun
  <2>2. rerun \in [Effect -> BOOLEAN] /\ running \in [Effect -> BOOLEAN]
    BY DEF Structure, TypeOK
  <2>3. ASSUME NEW x \in Effect, life[x] = "live", x \in Deferred PROVE x \in Deferred'
    <3>1. CASE x = e
      BY <1>3, <1>u, <2>1, <2>2, <2>3, <3>1, DeferredParts DEF queues
    <3>2. CASE x # e
      <4>1. running'[x] = running[x] /\ rerun'[x] = rerun[x] /\ lost \subseteq lost'
        BY <1>2, <2>1, <2>2, <3>2
      <4> QED
        BY <1>3, <1>u, <2>1, <2>3, <4>1, DeferredParts DEF queues
    <3> QED
      BY <3>1, <3>2
  <2> QED
    BY <1>u, <2>1, <2>3, TrackedDeferral
<1> QED
  BY <1>4, <1>5

\* The steps that only move what is to be run from one place to another.
LEMMA TrackedMoves ==
    ASSUME SignalsAssumption, Structure, Tracked,
           Computed \/ EndFlush \/ Microtask \/ EndMicrotask \/ CloseBatch \/ EndIsland \/ Island
    PROVE  Tracked'
<1> DEFINE Moved == /\ UNCHANGED <<subs, dirty, uses, stale, dead, life, running, rerun>>
                    /\ batched \cup pending \cup lost \cup Todos(stack)
                         \subseteq batched' \cup pending' \cup lost' \cup Todos(stack')
<1>m. SUFFICES Moved
  <2>1. ASSUME Moved PROVE Tracked'
    <3>1. \A e \in Effect : e \in Deferred => e \in Deferred'
      BY <2>1, DeferredParts
    <3> QED
      BY <2>1, <3>1, TrackedDeferral
  <2> QED
    BY <2>1
<1>1. CASE Computed
  <2>1. ~Empty /\ Top.kind = "memo"
    BY <1>1 DEF Computed, On
  <2> QED
    BY <1>1, <2>1, TodosBelow DEF Computed, Flushes, queues, history
<1>2. CASE EndFlush
  <2>1. ~Empty /\ Top.todo = {}
    BY <1>2 DEF EndFlush
  <2> QED
    BY <1>2, <2>1, TodosBelow DEF EndFlush, flags, queues, history
<1>3. CASE Microtask
  <2> DEFINE f == Frame("microtask", pending)
  <2>1. Empty /\ stack' = <<f>> /\ pending' = {}
        /\ UNCHANGED <<flags, life, subs, batched, history>>
    BY <1>3 DEF Microtask
  <2>2. f.todo = pending
    BY DEF Frame
  <2> HIDE DEF f
  <2>3. Todos(<<f>>) = f.todo
    BY DEF Todos
  <2>4. Todos(stack) = {}
    BY <2>1, TodosEmpty DEF Empty
  <2> QED
    BY <2>1, <2>2, <2>3, <2>4 DEF flags, history
<1>4. CASE EndMicrotask
  <2>1. ~Empty /\ Top.todo = {}
    BY <1>4 DEF EndMicrotask, On
  <2>2. Todos(stack') = Todos(stack)
    BY <1>4, <2>1, TodosBelow DEF EndMicrotask
  <2> QED
    BY <1>4, <2>2 DEF EndMicrotask, flags
<1>5. CASE CloseBatch
  <2>1. ~Empty /\ Top.kind = "batch"
    BY <1>5 DEF CloseBatch, On
  <2>2. Todos(Below) = Todos(stack) /\ Below \in Seq(Frames)
    BY <2>1, TodosBelow, PopKeeps DEF Flushes
  <2>3. CASE batchDepth = 1
    <3> DEFINE f == Frame("batchFlush", batched)
    <3>1. f \in Frames /\ f.todo = batched
      BY DEF Frame, Frames, Flushes, Structure, TypeOK, SignalsAssumption
    <3>2. stack' = Append(Below, f) /\ batched' = {} /\ pending' = pending \ batched
          /\ UNCHANGED <<subs, flags, life, history>>
      BY <1>5, <2>3 DEF CloseBatch
    <3> HIDE DEF f
    <3>3. Todos(stack') = Todos(stack) \cup batched
      BY <2>2, <3>1, <3>2, TodosPush
    <3> QED
      BY <3>2, <3>3 DEF flags, history
  <2>4. CASE batchDepth # 1
    BY <1>5, <2>2, <2>4 DEF CloseBatch, flags, history
  <2> QED
    BY <2>3, <2>4
<1>6. CASE EndIsland
  <2>1. ~Empty /\ Top.kind = "island"
    BY <1>6 DEF EndIsland, On
  <2> QED
    BY <1>6, <2>1, TodosBelow DEF EndIsland, Flushes, flags, queues, history
<1>7. CASE Island
  BY <1>7, TodosEmpty DEF Island, Empty, flags, queues, history
<1> QED
  BY <1>1, <1>2, <1>3, <1>4, <1>5, <1>6, <1>7

\* A new effect starts having read nothing.
LEMMA TrackedCreate ==
    ASSUME SignalsAssumption, Structure, Tracked, NEW e \in Effect, Create(e)
    PROVE  Tracked'
<1>1. StartRun(e, stack, 0) /\ UNCHANGED <<subs, dirty, batched, pending>>
  BY DEF Create, queues
<1>2. stack \in Seq(Frames) /\ 0 \in 0 .. (MaxFlush - 1)
  BY DEF Structure, TypeOK, SignalsAssumption
<1>3. \A x \in Effect \ {e} : life'[x] = life[x]
  BY DEF Create, Structure, TypeOK
<1> QED
  BY <1>1, <1>2, <1>3, TrackedStart

\* A disposed effect is owed nothing.
LEMMA TrackedDispose ==
    ASSUME Structure, Tracked, NEW e \in Effect, Dispose(e)
    PROVE  Tracked'
<1>1. UNCHANGED <<stack, subs, dirty, running, rerun, batched, pending, uses, stale, lost, dead>>
  BY DEF Dispose, flags, queues, history
<1>2. \A x \in Effect : life'[x] = "live" => life[x] = "live"
  BY DEF Dispose, Structure, TypeOK
<1>3. \A x \in Effect : x \in Deferred => x \in Deferred'
  BY <1>1, DeferredParts
<1> QED
  BY <1>1, <1>2, <1>3, TrackedDeferral

\* Edits that leave alone what the frames are to run.
LEMMA TodosEdited ==
    ASSUME NEW st, NEW tt, Len(tt) = Len(st), \A i \in 1 .. Len(st) : tt[i].todo = st[i].todo
    PROVE  Todos(tt) = Todos(st)
BY DEF Todos

\* A batch changes no subscription.
LEMMA TrackedOpenBatch ==
    ASSUME SignalsAssumption, Structure, Tracked, OpenBatch
    PROVE  Tracked'
<1> DEFINE st == IF Current = 0 THEN stack
                 ELSE [stack EXCEPT ![Current].batches = @ - 1]
           f == Frame("batch", {})
<1>1. Current \in 0 .. Len(stack) /\ stack \in Seq(Frames)
  BY CurrentPlace DEF Structure, TypeOK
<1>2. /\ stack' = Append(st, f)
      /\ UNCHANGED <<subs, flags, life, queues, history>>
  BY DEF OpenBatch
<1>3. f \in Frames /\ f.todo = {}
  BY DEF Frame, Frames, SignalsAssumption
<1>4. st \in Seq(Frames) /\ Todos(st) = Todos(stack)
  <2>1. CASE Current = 0
    BY <1>1, <2>1
  <2>2. CASE Current # 0
    <3> DEFINE g == [stack[Current] EXCEPT !.batches = @ - 1]
    <3>1. Current \in 1 .. Len(stack) /\ stack[Current] \in Frames
      BY <1>1, <2>2
    <3>b. stack[Current].batches > 0
      BY <1>1, <2>2 DEF OpenBatch
    <3>2. stack[Current].batches \in Nat \ {0}
      BY <3>1, <3>b DEF Frames
    <3>3. g \in Frames /\ g.todo = stack[Current].todo
      BY <3>1, <3>2, BatchTaken
    <3>4. st = [stack EXCEPT ![Current] = g]
      BY <2>2, <3>1
    <3> HIDE DEF g, st
    <3>5. /\ st \in Seq(Frames) /\ Len(st) = Len(stack)
          /\ \A i \in 1 .. Len(stack) : st[i].todo = stack[i].todo
      BY <1>1, <3>1, <3>3, <3>4, ExceptSeq
    <3> QED
      BY <3>5, TodosEdited
  <2> QED
    BY <2>1, <2>2
<1> HIDE DEF st, f
<1>5. Todos(stack') = Todos(stack)
  BY <1>2, <1>3, <1>4, TodosPush
<1>6. \A e \in Effect : e \in Deferred => e \in Deferred'
  BY <1>2, <1>5, DeferredParts DEF flags, queues, history
<1> QED
  BY <1>2, <1>6, TrackedDeferral DEF flags, history

\* A caught panic gives up what its frames were to run, and leaves the memos it
\* cut off dirty, with the readers they have.
LEMMA TrackedPanic ==
    ASSUME SignalsAssumption, Structure, Tracked, NEW k \in 0 .. Len(stack), Panic(k)
    PROVE  Tracked'
<1> DEFINE memos == NodesOf(Unwound(k, "memo"))
           effects == NodesOf(Unwound(k, "effect"))
           given == UNION {stack[i].todo : i \in (k + 1) .. Len(stack)}
           st == SubSeq(stack, 1, k)
<1>1. /\ stack' = st
      /\ dirty' = [m \in Memo |-> dirty[m] \/ m \in memos]
      /\ running' = [e \in Effect |-> running[e] /\ e \notin effects]
      /\ stale' = stale \cup memos
      /\ lost' = lost \cup {e \in effects : rerun[e]} \cup given
      /\ UNCHANGED <<subs, rerun, life, batched, pending, uses, dead>>
  BY DEF Panic, queues
<1>2. stack \in Seq(Frames) /\ Len(stack) \in Nat
  BY DEF Structure, TypeOK
<1>3. memos \subseteq Memo
  BY <1>2 DEF Structure, Fits, Held, NodesOf, Unwound
<1>4. Todos(stack) \subseteq Todos(st) \cup given
  <2>1. /\ Len(st) = k /\ \A i \in 1 .. k : st[i] = stack[i]
        /\ \A i \in 1 .. Len(stack) : i \in 1 .. k \/ i \in (k + 1) .. Len(stack)
    BY <1>2
  <2> HIDE DEF st
  <2> QED
    BY <2>1 DEF Todos
<1> HIDE DEF memos, effects, given, st
<1>5. \A e \in Effect : e \in Deferred => e \in Deferred'
  BY <1>1, <1>4, DeferredParts
<1>6. \A e \in Effect : e \in stale' => e \in stale
  BY <1>1, <1>3 DEF SignalsAssumption
<1>7. \A m \in Memo : (dirty[m] => dirty'[m]) /\ (m \in stale' /\ ~dirty'[m] => m \in stale)
  BY <1>1
<1> QED
  BY <1>1, <1>5, <1>6, <1>7, TrackedQuiet

\* What a trap leaves undelivered counts as lost.
LEMMA TrackedTrap ==
    ASSUME SignalsAssumption, Structure, Tracked, Trap \/ TrapOutside
    PROVE  Tracked'
<1> DEFINE memos == NodesOf(Unwound(0, "memo"))
           effects == NodesOf(Unwound(0, "effect"))
<1>1. /\ dead' = dead \cup memos \cup effects
      /\ stale' = stale \cup memos
      /\ lost' = lost \cup effects \cup Todos(stack)
      /\ UNCHANGED <<subs, dirty, running, rerun, life, batched, pending, uses>>
  BY DEF Trap, TrapOutside, Abort, Todos, flags, queues
<1>2. memos \subseteq Memo
  BY DEF Structure, Fits, Held, NodesOf, Unwound
<1> HIDE DEF memos, effects
<1>3. \A e \in Effect : e \in Deferred => e \in Deferred'
  BY <1>1, DeferredParts
<1>4. \A e \in Effect : e \in stale' => e \in stale
  BY <1>1, <1>2 DEF SignalsAssumption
<1> QED
  BY <1>1, <1>3, <1>4, TrackedQuiet

-----------------------------------------------------------------------------
(* Reads.                                                                  *)

\* What a reader may find stale is only what it may not track.
LEMMA SourcesFresh ==
    ASSUME SignalsAssumption, Structure, Tracked, NEW d \in Source,
           d \in Memo => ~computing[d] /\ ~dirty[d]
    PROVE  d \notin stale
<1>1. d \in stale => d \in Memo
  BY DEF Structure, TypeOK, Node, Source, SignalsAssumption
<1>2. d \in Memo => d \notin dead
  BY DEF Structure, Fits, Held
<1> QED
  BY <1>1, <1>2 DEF Tracked, MemosFresh

\* A computation is pushed with nothing to run.
LEMMA ComputeDefers ==
    ASSUME SignalsAssumption, Structure, NEW m \in Memo, Compute(m),
           UNCHANGED <<running, rerun, batched, pending, lost>>
    PROVE  Deferred' = Deferred
<1>1. stack \in Seq(Frames)
  BY DEF Structure, TypeOK
<1>2. Computation(m) \in Frames /\ Computation(m).todo = {}
  BY DEF Computation, Frame, Frames, Node, SignalsAssumption
<1>3. Todos(stack') = Todos(stack)
  BY <1>1, <1>2, TodosPush DEF Compute
<1> QED
  BY <1>3, DeferredParts

\* A read subscribes its reader.
LEMMA TrackedRead ==
    ASSUME SignalsAssumption, Structure, Tracked, NEW d \in Source, Read(d)
    PROVE  Tracked'
<1> DEFINE n == stack[Current].node
           d_dirty == d \in Memo /\ dirty[d]
<1>1. Current \in 1 .. Len(stack) /\ stack[Current].kind \in {"effect", "memo"}
  BY CurrentPlace DEF Structure, TypeOK, Read
<1>2. /\ d \in Memo => ~computing[d]
      /\ subs' = [subs EXCEPT ![d] = @ \cup {n}]
      /\ uses' = [x \in Node |-> IF d_dirty /\ x = d THEN {}
                                 ELSE IF x = n THEN uses[x] \cup {d} ELSE uses[x]]
      /\ stale' = IF d_dirty THEN stale \ {d}
                  ELSE IF d \in stale THEN stale \cup {n} ELSE stale
      /\ IF d_dirty THEN Compute(d) ELSE UNCHANGED <<stack, dirty, computing>>
      /\ UNCHANGED <<running, rerun, life, batched, pending, lost, dead>>
  BY DEF Read, queues
<1>3. n \in Node /\ n # d
  <2>1. stack[Current].kind = "memo" => n \in Memo /\ computing[n]
    BY <1>1 DEF Structure, Fits, Held
  <2>2. stack[Current].kind = "effect" => n \in Effect
    BY <1>1 DEF Structure, Fits, Held
  <2> QED
    BY <1>1, <1>2, <2>1, <2>2 DEF Node, Source, SignalsAssumption
<1> HIDE DEF n
<1>4. stale' \subseteq stale /\ (d_dirty => d \notin stale')
  <2>1. ~d_dirty => d \notin stale
    BY <1>2, SourcesFresh
  <2> QED
    BY <1>2, <2>1
<1>5. dirty' = IF d_dirty THEN [dirty EXCEPT ![d] = FALSE] ELSE dirty
  BY <1>2 DEF Compute
<1>6. Deferred' = Deferred
  <2>1. CASE d_dirty
    BY <1>2, <2>1, ComputeDefers
  <2>2. CASE ~d_dirty
    <3>1. Todos(stack') = Todos(stack)
      BY <1>2, <2>2
    <3> QED
      BY <1>2, <3>1, DeferredParts
  <2> QED
    BY <2>1, <2>2
<1>7. /\ subs \in [Source -> SUBSET Node] /\ uses \in [Node -> SUBSET Source]
      /\ dirty \in [Memo -> BOOLEAN] /\ Memo \subseteq Node /\ Memo \subseteq Source /\ Effect \subseteq Node
  BY DEF Structure, TypeOK, Node, Source
<1>8. /\ n \in subs'[d]
      /\ \A x \in Source : subs[x] \subseteq subs'[x] /\ (x # d => subs'[x] = subs[x])
  BY <1>2, <1>7
<1>9. \A x \in Node : uses'[x] = IF d_dirty /\ x = d THEN {}
                                 ELSE IF x = n THEN uses[x] \cup {d} ELSE uses[x]
  BY <1>2
<1> HIDE DEF d_dirty
<1>10. ASSUME NEW x \in Node, ~(d_dirty /\ x = d), \A y \in uses[x] : x \in subs[y]
       PROVE  \A y \in uses'[x] : x \in subs'[y]
  <2>1. uses[x] \in SUBSET Source /\ \A y \in uses[x] : x \in subs'[y]
    BY <1>7, <1>8, <1>10
  <2>2. \A y \in uses'[x] : y \in uses[x] \/ (x = n /\ y = d)
    BY <1>9, <1>10
  <2> QED
    BY <1>8, <2>1, <2>2
<1>11. MemosTracked'
  <2> SUFFICES ASSUME NEW m \in Memo, ~dirty'[m] \/ subs'[m] # {}
               PROVE  \A y \in uses'[m] : m \in subs'[y]
    BY DEF MemosTracked
  <2>1. CASE d_dirty /\ m = d
    BY <1>7, <1>9, <2>1
  <2>2. CASE ~(d_dirty /\ m = d)
    <3>1. ~dirty[m] \/ subs[m] # {}
      BY <1>5, <1>7, <1>8, <2>2 DEF d_dirty
    <3> QED
      BY <1>7, <1>10, <2>2, <3>1 DEF Tracked, MemosTracked
  <2> QED
    BY <2>1, <2>2
<1>12. MemosFresh'
  BY <1>2, <1>4, <1>5, <1>7 DEF Tracked, MemosFresh
<1>13. EffectsTracked'
  <2> SUFFICES ASSUME NEW e \in Effect, life[e] = "live", e \notin Deferred
               PROVE  \A y \in uses'[e] : e \in subs'[y]
    BY <1>2, <1>6 DEF EffectsTracked
  <2>1. e # d
    BY DEF Source, Node, SignalsAssumption
  <2> QED
    BY <1>7, <1>10, <2>1 DEF Tracked, EffectsTracked
<1>14. StaleEffectsRun'
  BY <1>2, <1>4, <1>6 DEF Tracked, StaleEffectsRun, Deferred
<1> QED
  BY <1>11, <1>12, <1>13, <1>14 DEF Tracked

\* A read outside every effect refreshes the memo, and subscribes at most a node
\* whose run a trap has cut off: nobody loses a subscription.
LEMMA TrackedReadOutside ==
    ASSUME SignalsAssumption, Structure, Tracked, NEW d \in Source, ReadOutside(d)
    PROVE  Tracked'
<1> DEFINE d_dirty == d \in Memo /\ dirty[d]
<1>1. /\ subs' = [subs EXCEPT ![d] = @ \cup ({outer} \ {"none"})]
      /\ uses' = [x \in Node |-> IF d_dirty /\ x = d THEN {} ELSE uses[x]]
      /\ stale' = IF d_dirty THEN stale \ {d} ELSE stale
      /\ IF d_dirty THEN Compute(d) ELSE UNCHANGED <<stack, dirty, computing>>
      /\ UNCHANGED <<running, rerun, life, batched, pending, lost, dead>>
  BY DEF ReadOutside, queues
<1>2. Deferred' = Deferred
  <2>1. CASE d_dirty
    BY <1>1, <2>1, ComputeDefers
  <2>2. CASE ~d_dirty
    <3>1. Todos(stack') = Todos(stack)
      BY <1>1, <2>2
    <3> QED
      BY <1>1, <3>1, DeferredParts
  <2> QED
    BY <2>1, <2>2
<1>3. dirty' = IF d_dirty THEN [dirty EXCEPT ![d] = FALSE] ELSE dirty
  BY <1>1 DEF Compute
<1>4. /\ uses \in [Node -> SUBSET Source] /\ dirty \in [Memo -> BOOLEAN]
      /\ Memo \subseteq Node /\ Memo \subseteq Source /\ Effect \subseteq Node /\ \A e \in Effect : e # d
      /\ subs \in [Source -> SUBSET Node]
  BY DEF Structure, TypeOK, Node, Source, SignalsAssumption
<1>5. \A x \in Source : subs[x] \subseteq subs'[x] /\ (x # d => subs'[x] = subs[x])
  BY <1>1, <1>4
<1>6. \A x \in Node : uses'[x] = IF d_dirty /\ x = d THEN {} ELSE uses[x]
  BY <1>1
<1> HIDE DEF d_dirty
<1>7. ASSUME NEW x \in Node, \A y \in uses[x] : x \in subs[y]
      PROVE  \A y \in uses'[x] : x \in subs'[y]
  <2>1. uses[x] \in SUBSET Source /\ \A y \in uses[x] : x \in subs'[y]
    BY <1>4, <1>5, <1>7
  <2> QED
    BY <1>6, <2>1
<1>8. MemosTracked'
  <2> SUFFICES ASSUME NEW m \in Memo, ~dirty'[m] \/ subs'[m] # {}
               PROVE  \A y \in uses'[m] : m \in subs'[y]
    BY DEF MemosTracked
  <2>1. CASE d_dirty /\ m = d
    BY <1>4, <1>6, <2>1
  <2>2. CASE ~(d_dirty /\ m = d)
    <3>1. ~dirty[m] \/ subs[m] # {}
      BY <1>3, <1>4, <1>5, <2>2 DEF d_dirty
    <3> QED
      BY <1>4, <1>7, <3>1 DEF Tracked, MemosTracked
  <2> QED
    BY <2>1, <2>2
<1>9. MemosFresh'
  BY <1>1, <1>3, <1>4 DEF Tracked, MemosFresh
<1>10. EffectsTracked'
  BY <1>1, <1>2, <1>4, <1>7 DEF Tracked, EffectsTracked
<1>11. StaleEffectsRun'
  BY <1>1, <1>2, <1>4 DEF Tracked, StaleEffectsRun, Deferred
<1> QED
  BY <1>8, <1>9, <1>10, <1>11 DEF Tracked

-----------------------------------------------------------------------------
(* Writes.                                                                 *)

\* Closure: what it starts from, closed, and no larger than it must be.
LEMMA ClosureFacts ==
    ASSUME NEW from \in SUBSET Node, NEW edges, \A m \in Memo : edges[m] \subseteq Node
    PROVE  /\ from \subseteq Closure(from, edges)
           /\ Closure(from, edges) \subseteq Node
           /\ \A m \in Closure(from, edges) \cap Memo : edges[m] \subseteq Closure(from, edges)
           /\ \A C \in SUBSET Node :
                (from \subseteq C /\ \A m \in C \cap Memo : edges[m] \subseteq C)
                  => Closure(from, edges) \subseteq C
BY DEF Closure

\* Whoever read the signal, directly or through memos, is reached by following
\* the lists of subscribers, or is dirty, or its turn is due already.
LEMMA UsersReached ==
    ASSUME SignalsAssumption, Structure, Tracked, NEW s \in Signal, NEW n \in Users(s)
    PROVE  \/ n \in Reached(s)
           \/ n \in Memo /\ dirty[n]
           \/ n \in Effect /\ (life[n] = "live" => n \in Deferred)
<1> DEFINE Readers(d) == {x \in Node : d \in uses[x]}
           edges == [m \in Memo |-> Readers(m)]
           C == Reached(s) \cup {m \in Memo : dirty[m] /\ subs[m] = {}}
                           \cup {e \in Effect : life[e] = "live" => e \in Deferred}
<1>1. /\ subs \in [Source -> SUBSET Node] /\ s \in Source /\ s \notin Memo
      /\ Memo \subseteq Source /\ Node = Memo \cup Effect
  BY DEF Structure, TypeOK, Source, Node, SignalsAssumption
<1>2. /\ subs[s] \subseteq Reached(s) /\ Reached(s) \subseteq Node
      /\ \A m \in Reached(s) \cap Memo : subs[m] \subseteq Reached(s)
  BY <1>1, ClosureFacts DEF Reached
<1>3. C \in SUBSET Node
  BY <1>1, <1>2
<1>4. ASSUME NEW d \in Source, d = s \/ d \in C \cap Memo, NEW x \in Readers(d)
      PROVE  x \in C
  <2>1. d = s \/ d \in Reached(s) \/ subs[d] = {}
    BY <1>1, <1>4 DEF SignalsAssumption
  <2>2. x \in subs[d] => x \in C
    BY <1>1, <1>2, <1>4, <2>1
  <2>3. CASE x \in Memo
    <3>1. ~dirty[x] \/ subs[x] # {} => x \in subs[d]
      BY <1>4, <2>3 DEF Tracked, MemosTracked
    <3> QED
      BY <2>2, <2>3, <3>1
  <2>4. CASE x \in Effect
    <3>1. life[x] = "live" /\ x \notin Deferred => x \in subs[d]
      BY <1>4, <2>4 DEF Tracked, EffectsTracked
    <3> QED
      BY <2>2, <2>4, <3>1
  <2> QED
    BY <1>1, <2>3, <2>4
<1>5. Readers(s) \subseteq C /\ \A m \in C \cap Memo : edges[m] \subseteq C
  BY <1>1, <1>4
<1>6. Users(s) = Closure(Readers(s), edges)
  BY DEF Users
<1>7. Readers(s) \in SUBSET Node /\ \A m \in Memo : edges[m] \subseteq Node
  OBVIOUS
<1> HIDE DEF C, Readers, edges
<1>8. Users(s) \subseteq C
  BY <1>3, <1>5, <1>6, <1>7, ClosureFacts
<1> QED
  BY <1>8 DEF C

\* A delivery keeps every effect that was deferred, and defers those it is for.
LEMMA ScheduleDefers ==
    ASSUME SignalsAssumption, Structure, NEW effects \in SUBSET Effect,
           NEW st \in Seq(Frames), Todos(st) = Todos(stack), Schedule(effects, st),
           UNCHANGED <<running, rerun>>
    PROVE  \A e \in Effect : e \in Deferred \/ e \in effects => e \in Deferred'
<1> DEFINE all == batched \cup effects
           f == Frame("flush", all)
<1>1. all \subseteq batched' \/ all \subseteq pending' \/ all \subseteq lost'
      \/ all \subseteq Todos(stack')
  <2>1. CASE batchDepth > 0
    BY <2>1 DEF Schedule
  <2>2. CASE ~(batchDepth > 0) /\ (target = "web" \/ all = {} \/ flushDepth >= MaxFlush)
    BY <2>2 DEF Schedule
  <2>3. CASE ~(batchDepth > 0) /\ ~(target = "web" \/ all = {} \/ flushDepth >= MaxFlush)
    <3>1. stack' = Append(st, f)
      BY <2>3 DEF Schedule
    <3>2. f \in Frames /\ f.todo = all
      BY DEF Frame, Frames, Flushes, Structure, TypeOK, SignalsAssumption
    <3> HIDE DEF f
    <3>3. Todos(stack') = Todos(st) \cup all
      BY <3>1, <3>2, TodosPush
    <3> QED
      BY <3>3
  <2> QED
    BY <2>1, <2>2, <2>3
<1>2. pending \subseteq pending' /\ lost \subseteq lost'
  BY DEF Schedule
<1>3. Todos(stack) \subseteq Todos(stack')
  <2>1. stack' = st \/ stack' = Append(st, f)
    BY DEF Schedule
  <2>2. f \in Frames
    BY DEF Frame, Frames, Flushes, Structure, TypeOK, SignalsAssumption
  <2> HIDE DEF f
  <2> QED
    BY <2>1, <2>2, TodosPush
<1> HIDE DEF f
<1> QED
  BY <1>1, <1>2, <1>3, DeferredParts

\* A write reaches every user of the signal, dirties the memos and awaits the effects.
LEMMA TrackedWrite ==
    ASSUME SignalsAssumption, Structure, Tracked, NEW s \in Signal, Write(s)
    PROVE  Tracked'
<1> DEFINE st == IF Current = 0 THEN stack
                 ELSE [stack EXCEPT ![Current].writes = @ \ {s}]
           effects == {e \in Reached(s) \cap Effect : life[e] = "live"}
<1>1. /\ subs' = [d \in Source |-> IF d = s \/ d \in Reached(s) THEN {} ELSE subs[d]]
      /\ dirty' = [m \in Memo |-> dirty[m] \/ m \in Reached(s)]
      /\ stale' = stale \cup Users(s)
      /\ Schedule(effects, st)
      /\ UNCHANGED <<running, rerun, life, uses, dead>>
  BY DEF Write
<1>2. st \in Seq(Frames) /\ Todos(st) = Todos(stack)
  <2>1. Current \in 0 .. Len(stack) /\ stack \in Seq(Frames)
    BY CurrentPlace DEF Structure, TypeOK
  <2>2. CASE Current = 0
    BY <2>1, <2>2
  <2>3. CASE Current # 0
    <3> DEFINE g == [stack[Current] EXCEPT !.writes = @ \ {s}]
    <3>1. Current \in 1 .. Len(stack) /\ stack[Current] \in Frames
      BY <2>1, <2>3
    <3>2. g \in Frames /\ g.todo = stack[Current].todo
      BY <3>1 DEF Frames
    <3>3. st = [stack EXCEPT ![Current] = g]
      BY <2>3, <3>1
    <3> HIDE DEF g, st
    <3>4. /\ st \in Seq(Frames) /\ Len(st) = Len(stack)
          /\ \A i \in 1 .. Len(stack) : st[i].todo = stack[i].todo
      BY <2>1, <3>1, <3>2, <3>3, ExceptSeq
    <3> QED
      BY <3>4, TodosEdited
  <2> QED
    BY <2>2, <2>3
<1>3. effects \in SUBSET Effect
  OBVIOUS
<1>e. \A e \in Effect \cap Reached(s) : life[e] = "live" => e \in effects
  OBVIOUS
<1> HIDE DEF st, effects
<1>4. \A e \in Effect : e \in Deferred \/ e \in effects => e \in Deferred'
  BY <1>1, <1>2, <1>3, ScheduleDefers
<1>5. /\ subs \in [Source -> SUBSET Node] /\ uses \in [Node -> SUBSET Source] /\ s \in Source
      /\ Memo \subseteq Node /\ Effect \subseteq Node /\ Source \cap Node \subseteq Memo
  BY DEF Structure, TypeOK, Source, Node, SignalsAssumption
<1>6. /\ subs[s] \subseteq Reached(s) /\ Reached(s) \subseteq Node
      /\ \A m \in Reached(s) \cap Memo : subs[m] \subseteq Reached(s)
  <2>1. subs[s] \in SUBSET Node /\ \A m \in Memo : subs[m] \subseteq Node
    BY <1>5 DEF Source
  <2> QED
    BY <2>1, ClosureFacts DEF Reached
<1>7. ASSUME NEW n \in Node, n \notin Reached(s), NEW d \in uses[n], n \in subs[d]
      PROVE  n \in subs'[d]
  <2>1. d \in Source
    BY <1>5
  <2>2. d # s /\ d \notin Reached(s)
    BY <1>5, <1>6, <1>7, <2>1
  <2> QED
    BY <1>1, <1>7, <2>1, <2>2
<1>8. MemosTracked'
  <2> SUFFICES ASSUME NEW m \in Memo, ~dirty'[m] \/ subs'[m] # {}
               PROVE  \A d \in uses[m] : m \in subs'[d]
    BY <1>1 DEF MemosTracked
  <2>1. m \notin Reached(s) /\ (~dirty[m] \/ subs[m] # {})
    BY <1>1 DEF Source
  <2>2. \A d \in uses[m] : m \in subs[d]
    BY <2>1 DEF Tracked, MemosTracked
  <2> QED
    BY <1>5, <1>7, <2>1, <2>2
<1>9. MemosFresh'
  <2> SUFFICES ASSUME NEW m \in Memo \ dead, ~dirty'[m] PROVE m \notin stale'
    BY <1>1 DEF MemosFresh
  <2>1. ~dirty[m] /\ m \notin Reached(s)
    BY <1>1
  <2>2. m \notin stale
    BY <2>1 DEF Tracked, MemosFresh
  <2>3. m \notin Users(s)
    BY <2>1, UsersReached DEF SignalsAssumption
  <2> QED
    BY <1>1, <2>2, <2>3
<1>10. EffectsTracked'
  <2> SUFFICES ASSUME NEW e \in Effect, life[e] = "live", e \notin Deferred'
               PROVE  \A d \in uses[e] : e \in subs'[d]
    BY <1>1 DEF EffectsTracked
  <2>1. e \notin Deferred /\ e \notin Reached(s)
    BY <1>4, <1>e
  <2>2. \A d \in uses[e] : e \in subs[d]
    BY <2>1 DEF Tracked, EffectsTracked
  <2> QED
    BY <1>5, <1>7, <2>1, <2>2
<1>11. StaleEffectsRun'
  <2> SUFFICES ASSUME NEW e \in Effect, e \in stale', life[e] = "live" PROVE e \in Deferred'
    BY <1>1 DEF StaleEffectsRun, Deferred
  <2>1. CASE e \in stale
    BY <1>4, <2>1 DEF Tracked, StaleEffectsRun, Deferred
  <2>2. CASE e \in Users(s)
    BY <1>4, <1>e, <2>2, UsersReached DEF SignalsAssumption
  <2> QED
    BY <1>1, <2>1, <2>2
<1> QED
  BY <1>8, <1>9, <1>10, <1>11 DEF Tracked

-----------------------------------------------------------------------------

\* At the start nothing has been read.
LEMMA TrackedInit == SignalsAssumption /\ Init => Tracked
<1> SUFFICES ASSUME SignalsAssumption, Init PROVE Tracked
  OBVIOUS
<1>1. MemosTracked /\ EffectsTracked
  BY DEF Init, MemosTracked, EffectsTracked, Node
<1>2. MemosFresh
  BY DEF Init, MemosFresh
<1>3. StaleEffectsRun
  BY DEF Init, StaleEffectsRun, SignalsAssumption
<1> QED
  BY <1>1, <1>2, <1>3 DEF Tracked

\* Every step keeps readers subscribed, awaited or lost.
LEMMA TrackedStep == SignalsAssumption /\ Structure /\ Tracked /\ [Next]_vars => Tracked'
<1> SUFFICES ASSUME SignalsAssumption, Structure, Tracked, [Next]_vars PROVE Tracked'
  OBVIOUS
<1>1. CASE UNCHANGED vars
  BY <1>1 DEF vars, flags, queues, history, Tracked, MemosTracked, MemosFresh, EffectsTracked,
     StaleEffectsRun, Deferred, Awaited
<1>2. CASE Runtime
  BY <1>2, TrackedRunEffect, TrackedEndRun, TrackedMoves DEF Runtime
<1>3. CASE Next /\ ~Runtime
  BY <1>3, TrackedWrite, TrackedRead, TrackedReadOutside, TrackedCreate, TrackedDispose,
     TrackedOpenBatch, TrackedPanic, TrackedMoves, TrackedTrap DEF Next
<1> QED
  BY <1>1, <1>2, <1>3

\* The inductive invariant holds in every state.
LEMMA SignalsInvariant == Spec => [](Structure /\ Tracked)
BY SignalsAssumption, StructureInit, StructureStep, TrackedInit, TrackedStep, PTL DEF Spec

\* A clean memo serves a value computed from the present values of what it read,
\* however the memos depend on each other and whatever was caught on the way.
THEOREM SignalsCleanMemosFresh == Spec => []CleanMemosFresh
<1>1. ASSUME Structure, Tracked PROVE CleanMemosFresh
  <2>1. \A m \in Memo \cap dead : computing[m]
    BY <1>1 DEF Structure, Fits, Held
  <2> QED
    BY <1>1, <2>1 DEF Tracked, MemosFresh, CleanMemosFresh
<1> QED
  BY <1>1, SignalsInvariant, PTL

\* Draining the lists on every write forgets nobody that is not going to run.
THEOREM SignalsSubscribed == Spec => []Subscribed
<1>1. Tracked => Subscribed
  BY DEF Tracked, MemosTracked, EffectsTracked, Deferred, Subscribed
<1> QED
  BY <1>1, SignalsInvariant, PTL

\* An effect that has read an old value is going to run, unless its delivery was
\* given up.
THEOREM SignalsStaleEffectsRun == Spec => []StaleEffectsRun
<1>1. Tracked => StaleEffectsRun
  BY DEF Tracked
<1> QED
  BY <1>1, SignalsInvariant, PTL
=============================================================================
