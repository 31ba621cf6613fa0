-------------------------- MODULE VictimHooksProofs --------------------------
(***************************************************************************)
(* Lemmas about hooks and stubs that the proofs about Breakpoints and      *)
(* VictimRundown share: the two stacks of a thread, and the steps in which *)
(* a thread calls, returns and goes through HookLLReturnStub.              *)
(***************************************************************************)
EXTENDS VictimHooks, SequenceTheorems, TLAPS

\* Stopped in a stub, or sent to HookLLReturnStub.
InHook(t) == tpc[t] \in InStub \cup {"retstub"}

RealHooks == Hooks \ {NoHook}

\* in the same order, a hook of the function (one of H) and the address of the caller.
PairedBy(fs, rs, H, k, f) ==
    /\ Len(rs) = 2 * k
    /\ \A a, b \in 1 .. k : a < b => f[a] < f[b]
    /\ \A i \in 1 .. Len(fs) : fs[i].ret = ReturnAddr <=> \E a \in 1 .. k : f[a] = i
    /\ \A a \in 1 .. k :
          /\ rs[2 * a] = CallerAddr
          /\ rs[2 * a - 1] \in H
          /\ rs[2 * a - 1].va = fs[f[a]].va

Matches(fs, rs, H) ==
    \E k \in 0 .. Len(rs) : \E f \in [1 .. k -> 1 .. Len(fs)] : PairedBy(fs, rs, H, k, f)

\* The thread is in the function of its hook, and has the address of its caller back.
Entered(t) ==
    /\ pHook[t] # NoHook
    /\ frames[t] # <<>>
    /\ Last(frames[t]) = [va |-> pHook[t].va, ret |-> CallerAddr]
----------------------------------------------------------------------------
(* Sequences, and the two stacks of a thread.                              *)

LEMMA LenFacts ==
    ASSUME NEW S, NEW s \in Seq(S)
    PROVE  /\ Len(s) \in Nat
           /\ s # <<>> <=> Len(s) # 0
           /\ \A i \in 1 .. Len(s) : s[i] \in S
           /\ s # <<>> => Last(s) = s[Len(s)] /\ Last(s) \in S
  BY EmptySeq, LenProperties DEF Last

LEMMA FrontFacts ==
    ASSUME NEW S, NEW s \in Seq(S), s # <<>>
    PROVE  /\ Front(s) \in Seq(S)
           /\ Len(Front(s)) = Len(s) - 1
           /\ \A i \in 1 .. Len(s) - 1 : Front(s)[i] = s[i]
<1>1. Len(s) \in Nat \ {0} /\ \A i \in 1 .. Len(s) : s[i] \in S
  BY EmptySeq, LenProperties
<1>2. PICK r : r = SubSeq(s, 1, Len(s) - 1)
  OBVIOUS
<1>3. /\ r \in Seq(S)
      /\ Len(r) = IF 1 <= Len(s) - 1 THEN Len(s) - 1 - 1 + 1 ELSE 0
      /\ \A i \in 1 .. Len(s) - 1 - 1 + 1 : r[i] = s[1 + i - 1]
  BY <1>1, <1>2, SubSeqProperties
<1>4. PICK n \in Nat \ {0} : n = Len(s)
  BY <1>1
<1>5. Len(r) = n - 1
  <2>1. CASE n = 1
    BY <1>3, <1>4, <2>1
  <2>2. CASE n > 1
    BY <1>3, <1>4, <2>2
  <2> QED
    BY <2>1, <2>2
<1>6. \A i \in 1 .. n - 1 : r[i] = s[i]
  BY <1>3, <1>4
<1> QED
  BY <1>2, <1>3, <1>4, <1>5, <1>6 DEF Front

LEMMA FrontFrontFacts ==
    ASSUME NEW S, NEW s \in Seq(S), Len(s) >= 2
    PROVE  /\ Front(Front(s)) \in Seq(S)
           /\ Len(Front(Front(s))) = Len(s) - 2
           /\ \A i \in 1 .. Len(s) - 2 : Front(Front(s))[i] = s[i]
<1>1. s # <<>> /\ Len(s) \in Nat
  BY LenFacts
<1>2. PICK r : r = Front(s)
  OBVIOUS
<1>3. r \in Seq(S) /\ Len(r) = Len(s) - 1 /\ \A i \in 1 .. Len(s) - 1 : r[i] = s[i]
  BY <1>1, <1>2, FrontFacts
<1>4. r # <<>>
  BY <1>1, <1>3, LenFacts
<1>5. Front(r) \in Seq(S) /\ Len(Front(r)) = Len(r) - 1 /\ \A i \in 1 .. Len(r) - 1 : Front(r)[i] = r[i]
  BY <1>3, <1>4, FrontFacts
<1> QED
  BY <1>1, <1>2, <1>3, <1>5

LEMMA PairFacts ==
    ASSUME NEW S, NEW s \in Seq(S), NEW c \in S, NEW d \in S
    PROVE  /\ s \o <<c, d>> \in Seq(S)
           /\ Len(s \o <<c, d>>) = Len(s) + 2
           /\ \A i \in 1 .. Len(s) : (s \o <<c, d>>)[i] = s[i]
           /\ (s \o <<c, d>>)[Len(s) + 1] = c
           /\ (s \o <<c, d>>)[Len(s) + 2] = d
<1>1. Len(s) \in Nat /\ <<c, d>> \in Seq(S) /\ Len(<<c, d>>) = 2
  BY LenProperties
<1> QED
  BY <1>1, ConcatProperties
FrameSet == [va : VAs, ret : {CallerAddr, ReturnAddr}]

LEMMA AddrsDiffer == CallerAddr # ReturnAddr /\ CallerAddr \in Words /\ ReturnAddr \in Words
  BY DEF CallerAddr, ReturnAddr, Words

LEMMA MatchesIntro ==
    ASSUME NEW fs, NEW rs, NEW H, NEW k \in Nat, NEW n \in Nat, n = Len(fs), Len(rs) = 2 * k,
           NEW f \in [1 .. k -> 1 .. n], PairedBy(fs, rs, H, k, f)
    PROVE  Matches(fs, rs, H)
<1>1. k \in 0 .. Len(rs)
  OBVIOUS
<1> QED
  BY <1>1 DEF Matches

LEMMA MatchesElim ==
    ASSUME NEW fs \in Seq(FrameSet), NEW rs, NEW H, Matches(fs, rs, H)
    PROVE  \E k \in Nat, n \in Nat : 
            /\ n = Len(fs) 
            /\ Len(rs) = 2 * k
            /\ \E f \in [1 .. k -> 1 .. n] : PairedBy(fs, rs, H, k, f)
<1>1. Len(fs) \in Nat
  BY LenFacts
<1>2. PICK k \in 0 .. Len(rs) : \E f \in [1 .. k -> 1 .. Len(fs)] : PairedBy(fs, rs, H, k, f)
  BY DEF Matches
<1>3. k \in Nat
  OBVIOUS
<1>4. Len(rs) = 2 * k
  BY <1>2 DEF PairedBy
<1> QED
  BY <1>1, <1>2, <1>3, <1>4

\* A call puts a frame on the stack that returns to its caller.
LEMMA MatchesCall ==
    ASSUME NEW H, NEW fs \in Seq(FrameSet), NEW rs, Matches(fs, rs, H),
           NEW e \in FrameSet, e.ret = CallerAddr
    PROVE  Matches(Append(fs, e), rs, H)
<1>k. PICK k \in Nat, n \in Nat :
            /\ n = Len(fs)
            /\ Len(rs) = 2 * k
            /\ \E f \in [1 .. k -> 1 .. n] : PairedBy(fs, rs, H, k, f)
  BY MatchesElim
<1>f. PICK f \in [1 .. k -> 1 .. n] : PairedBy(fs, rs, H, k, f)
  BY <1>k
<1>1. PICK gs : gs = Append(fs, e)
  OBVIOUS
<1>2. Len(gs) = n + 1 /\ gs[n + 1] = e /\ \A i \in 1 .. n : gs[i] = fs[i]
  BY <1>k, <1>1, AppendProperties
<1>3. f \in [1 .. k -> 1 .. n + 1] /\ \A a \in 1 .. k : f[a] \in 1 .. n
  OBVIOUS
<1>4. ASSUME NEW i \in 1 .. n + 1
      PROVE  gs[i].ret = ReturnAddr <=> \E a \in 1 .. k : f[a] = i
  <2>1. CASE i \in 1 .. n
    BY <1>k, <1>f, <1>2, <2>1 DEF PairedBy
  <2>2. CASE i = n + 1
    BY <1>2, <1>3, <2>2, AddrsDiffer
  <2> QED
    BY <2>1, <2>2
<1>5. PairedBy(gs, rs, H, k, f)
  BY <1>k, <1>f, <1>2, <1>3, <1>4 DEF PairedBy
<1>6. n + 1 \in Nat
  OBVIOUS
<1> QED
  BY <1>k, <1>1, <1>2, <1>3, <1>5, <1>6, MatchesIntro

\* A function that returns to its caller takes it off again.
LEMMA MatchesLeave ==
    ASSUME NEW H, NEW fs \in Seq(FrameSet), NEW rs, Matches(fs, rs, H),
           fs # <<>>, Last(fs).ret = CallerAddr
    PROVE  Matches(Front(fs), rs, H)
<1>k. PICK k \in Nat, n \in Nat :
            /\ n = Len(fs)
            /\ Len(rs) = 2 * k
            /\ \E f \in [1 .. k -> 1 .. n] : PairedBy(fs, rs, H, k, f)
  BY MatchesElim
<1>f. PICK f \in [1 .. k -> 1 .. n] : PairedBy(fs, rs, H, k, f)
  BY <1>k
<1>1. PICK gs : gs = Front(fs)
  OBVIOUS
<1>2. Len(gs) = n - 1 /\ \A i \in 1 .. n - 1 : gs[i] = fs[i]
  BY <1>k, <1>1, FrontFacts
<1>3. n # 0 /\ fs[n].ret = CallerAddr
  BY <1>k, LenFacts
<1>4. \A a \in 1 .. k : f[a] \in 1 .. n /\ f[a] # n
  BY <1>k, <1>f, <1>3, AddrsDiffer DEF PairedBy
<1>5. f \in [1 .. k -> 1 .. n - 1] /\ n - 1 \in Nat
  BY <1>3, <1>4
<1>6. ASSUME NEW i \in 1 .. n - 1
      PROVE  gs[i].ret = ReturnAddr <=> \E a \in 1 .. k : f[a] = i
  <2>1. i \in 1 .. n /\ gs[i] = fs[i]
    BY <1>2
  <2> QED
    BY <1>k, <1>f, <2>1 DEF PairedBy
<1>7. PairedBy(gs, rs, H, k, f)
  BY <1>k, <1>f, <1>2, <1>5, <1>6 DEF PairedBy
<1> QED
  BY <1>k, <1>1, <1>2, <1>5, <1>7, MatchesIntro

\* HookLLReturnStub saves a hook and the address of the caller ...
LEMMA MatchesPush ==
    ASSUME NEW H, NEW fs \in Seq(FrameSet), NEW rs \in Seq(Words), Matches(fs, rs, H),
           fs # <<>>, Last(fs).ret = CallerAddr, NEW h \in H, h \in Words, h.va = Last(fs).va
    PROVE  Matches([fs EXCEPT ![Len(fs)].ret = ReturnAddr], rs \o <<h, CallerAddr>>, H)
<1>k. PICK k \in Nat, n \in Nat :
            /\ n = Len(fs)
            /\ Len(rs) = 2 * k
            /\ \E f \in [1 .. k -> 1 .. n] : PairedBy(fs, rs, H, k, f)
  BY MatchesElim
<1>f. PICK f \in [1 .. k -> 1 .. n] : PairedBy(fs, rs, H, k, f)
  BY <1>k
<1>1. n # 0 /\ fs[n] = Last(fs) /\ \A i \in 1 .. n : fs[i] \in FrameSet
  BY <1>k, LenFacts
<1>2. PICK qs : qs = rs \o <<h, CallerAddr>>
  OBVIOUS
<1>3. /\ Len(qs) = 2 * k + 2
      /\ \A i \in 1 .. 2 * k : qs[i] = rs[i]
      /\ qs[2 * k + 1] = h
      /\ qs[2 * k + 2] = CallerAddr
  <2>1. /\ Len(qs) = Len(rs) + 2
        /\ \A i \in 1 .. Len(rs) : qs[i] = rs[i]
        /\ qs[Len(rs) + 1] = h
        /\ qs[Len(rs) + 2] = CallerAddr
    BY <1>2, AddrsDiffer, PairFacts
  <2> QED
    BY <1>k, <2>1
<1>4. PICK gs : gs = [fs EXCEPT ![n].ret = ReturnAddr]
  OBVIOUS
<1>5. /\ Len(gs) = n
      /\ \A i \in 1 .. n : gs[i].va = fs[i].va
      /\ \A i \in 1 .. n - 1 : gs[i] = fs[i]
      /\ gs[n].ret = ReturnAddr
  BY <1>k, <1>1, <1>4 DEF FrameSet
<1>6. \A a \in 1 .. k : f[a] \in 1 .. n /\ f[a] # n
  BY <1>k, <1>f, <1>1, AddrsDiffer DEF PairedBy
<1>7. PICK g : g = [a \in 1 .. k + 1 |-> IF a = k + 1 THEN n ELSE f[a]]
  OBVIOUS
<1>8. g \in [1 .. k + 1 -> 1 .. n]
  BY <1>1, <1>6, <1>7
<1>9. g[k + 1] = n /\ \A a \in 1 .. k : g[a] = f[a] /\ g[a] \in 1 .. n - 1
  BY <1>6, <1>7
<1>10. ASSUME NEW a \in 1 .. k + 1, NEW b \in 1 .. k + 1, a < b PROVE g[a] < g[b]
  <2>1. CASE b = k + 1
    BY <1>9, <1>10, <2>1
  <2>2. CASE b # k + 1
    <3>1. a \in 1 .. k /\ b \in 1 .. k
      BY <1>10, <2>2
    <3> QED
      BY <1>f, <1>9, <1>10, <3>1 DEF PairedBy
  <2> QED
    BY <2>1, <2>2
<1>11. ASSUME NEW i \in 1 .. n
       PROVE  gs[i].ret = ReturnAddr <=> \E a \in 1 .. k + 1 : g[a] = i
  <2>1. CASE i = n
    BY <1>5, <1>9, <2>1
  <2>2. CASE i # n
    <3>1. i \in 1 .. n - 1 /\ gs[i] = fs[i]
      BY <1>5, <2>2
    <3>2. fs[i].ret = ReturnAddr <=> \E a \in 1 .. k : f[a] = i
      BY <1>k, <1>f DEF PairedBy
    <3>3. ASSUME NEW a \in 1 .. k, f[a] = i PROVE \E b \in 1 .. k + 1 : g[b] = i
      BY <1>9, <3>3
    <3>4. ASSUME NEW b \in 1 .. k + 1, g[b] = i PROVE \E a \in 1 .. k : f[a] = i
      <4>1. b # k + 1
        BY <1>9, <2>2, <3>4
      <4> QED
        BY <1>9, <3>4, <4>1
    <3> QED
      BY <3>1, <3>2, <3>3, <3>4
  <2> QED
    BY <2>1, <2>2
<1>12. ASSUME NEW a \in 1 .. k + 1
       PROVE  qs[2 * a] = CallerAddr /\ qs[2 * a - 1] \in H /\ qs[2 * a - 1].va = gs[g[a]].va
  <2>1. CASE a = k + 1
    <3>1. qs[2 * a] = CallerAddr /\ qs[2 * a - 1] = h
      BY <1>3, <2>1
    <3>2. gs[g[a]].va = fs[n].va
      BY <1>1, <1>5, <1>9, <2>1
    <3> QED
      BY <1>1, <3>1, <3>2
  <2>2. CASE a \in 1 .. k
    <3>1. 2 * a \in 1 .. 2 * k /\ 2 * a - 1 \in 1 .. 2 * k
      BY <2>2
    <3>2. rs[2 * a] = CallerAddr /\ rs[2 * a - 1] \in H /\ rs[2 * a - 1].va = fs[f[a]].va
      BY <1>f, <2>2 DEF PairedBy
    <3>3. gs[g[a]].va = fs[f[a]].va
      BY <1>5, <1>6, <1>9, <2>2
    <3> QED
      BY <1>3, <3>1, <3>2, <3>3
  <2> QED
    BY <2>1, <2>2
<1>13. PairedBy(gs, qs, H, k + 1, g)
  BY <1>3, <1>5, <1>10, <1>11, <1>12 DEF PairedBy
<1>14. k + 1 \in Nat /\ Len(qs) = 2 * (k + 1)
  BY <1>3
<1>15. Matches(gs, qs, H)
  BY <1>5, <1>8, <1>13, <1>14, MatchesIntro
<1> QED
  BY <1>k, <1>2, <1>4, <1>15

\* ... and _HookLLReturn takes them back in the other order.
LEMMA MatchesPop ==
    ASSUME NEW H, NEW fs \in Seq(FrameSet), NEW rs \in Seq(Words), Matches(fs, rs, H),
           fs # <<>>, Last(fs).ret = ReturnAddr
    PROVE  /\ Len(rs) >= 2
           /\ PopReturn(rs).ret = CallerAddr
           /\ PopReturn(rs).hook \in H
           /\ PopReturn(rs).hook.va = Last(fs).va
           /\ Matches([fs EXCEPT ![Len(fs)].ret = CallerAddr], Front(Front(rs)), H)
<1>k. PICK k \in Nat, n \in Nat :
            /\ n = Len(fs)
            /\ Len(rs) = 2 * k
            /\ \E f \in [1 .. k -> 1 .. n] : PairedBy(fs, rs, H, k, f)
  BY MatchesElim
<1>f. PICK f \in [1 .. k -> 1 .. n] : PairedBy(fs, rs, H, k, f)
  BY <1>k
<1>1. n # 0 /\ fs[n] = Last(fs) /\ \A i \in 1 .. n : fs[i] \in FrameSet
  BY <1>k, LenFacts
<1>2. PICK m \in 1 .. k : f[m] = n
  BY <1>k, <1>f, <1>1 DEF PairedBy
<1>3. k # 0 /\ m = k
  <2>1. m < k => FALSE
    BY <1>f, <1>2 DEF PairedBy
  <2> QED
    BY <2>1
<1>4. /\ Len(rs) >= 2
      /\ PopReturn(rs).ret = CallerAddr
      /\ PopReturn(rs).hook \in H
      /\ PopReturn(rs).hook.va = Last(fs).va
  <2>1. rs[2 * k] = CallerAddr /\ rs[2 * k - 1] \in H /\ rs[2 * k - 1].va = fs[f[k]].va
    BY <1>f, <1>2, <1>3 DEF PairedBy
  <2>2. PopReturn(rs).ret = rs[2 * k] /\ PopReturn(rs).hook = rs[2 * k - 1]
    BY <1>k DEF PopReturn
  <2>3. 2 * k >= 2
    BY <1>3
  <2> QED
    BY <1>k, <1>1, <1>2, <1>3, <2>1, <2>2, <2>3
<1>5. PICK qs : qs = Front(Front(rs))
  OBVIOUS
<1>6. Len(qs) = 2 * k - 2 /\ \A i \in 1 .. 2 * k - 2 : qs[i] = rs[i]
  BY <1>k, <1>4, <1>5, FrontFrontFacts
<1>7. PICK gs : gs = [fs EXCEPT ![n].ret = CallerAddr]
  OBVIOUS
<1>8. /\ Len(gs) = n
      /\ \A i \in 1 .. n : gs[i].va = fs[i].va
      /\ \A i \in 1 .. n - 1 : gs[i] = fs[i]
      /\ gs[n].ret = CallerAddr
  BY <1>k, <1>1, <1>7 DEF FrameSet
<1>9. PICK g : g = [a \in 1 .. k - 1 |-> f[a]]
  OBVIOUS
<1>10. \A a \in 1 .. k - 1 : g[a] = f[a] /\ f[a] \in 1 .. n /\ f[a] < n
  <2>1. \A a \in 1 .. k - 1 : a \in 1 .. k /\ a < k /\ k \in 1 .. k /\ g[a] = f[a]
    BY <1>3, <1>9
  <2> QED
    BY <1>f, <1>2, <1>3, <2>1 DEF PairedBy
<1>11. g \in [1 .. k - 1 -> 1 .. n]
  BY <1>9, <1>10
<1>12. \A a, b \in 1 .. k - 1 : a < b => g[a] < g[b]
  BY <1>f, <1>10 DEF PairedBy
<1>13. ASSUME NEW i \in 1 .. n
       PROVE  gs[i].ret = ReturnAddr <=> \E a \in 1 .. k - 1 : g[a] = i
  <2>1. CASE i = n
    BY <1>8, <1>10, <2>1, AddrsDiffer
  <2>2. CASE i # n
    <3>1. i \in 1 .. n - 1 /\ gs[i] = fs[i]
      BY <1>8, <2>2
    <3>2. fs[i].ret = ReturnAddr <=> \E a \in 1 .. k : f[a] = i
      BY <1>k, <1>f DEF PairedBy
    <3>3. ASSUME NEW a \in 1 .. k, f[a] = i PROVE \E b \in 1 .. k - 1 : g[b] = i
      <4>1. a # k
        BY <1>2, <1>3, <2>2, <3>3
      <4> QED
        BY <1>10, <3>3, <4>1
    <3>4. ASSUME NEW b \in 1 .. k - 1, g[b] = i PROVE \E a \in 1 .. k : f[a] = i
      BY <1>10, <3>4
    <3> QED
      BY <3>1, <3>2, <3>3, <3>4
  <2> QED
    BY <2>1, <2>2
<1>14. ASSUME NEW a \in 1 .. k - 1
       PROVE  qs[2 * a] = CallerAddr /\ qs[2 * a - 1] \in H /\ qs[2 * a - 1].va = gs[g[a]].va
  <2>1. 2 * a \in 1 .. 2 * k - 2 /\ 2 * a - 1 \in 1 .. 2 * k - 2 /\ a \in 1 .. k
    OBVIOUS
  <2>2. rs[2 * a] = CallerAddr /\ rs[2 * a - 1] \in H /\ rs[2 * a - 1].va = fs[f[a]].va
    BY <1>f, <2>1 DEF PairedBy
  <2>3. gs[g[a]].va = fs[f[a]].va
    BY <1>8, <1>10
  <2> QED
    BY <1>6, <2>1, <2>2, <2>3
<1>15. k - 1 \in Nat /\ Len(qs) = 2 * (k - 1)
  BY <1>3, <1>6
<1>16. PairedBy(gs, qs, H, k - 1, g)
  BY <1>8, <1>12, <1>13, <1>14, <1>15 DEF PairedBy
<1>17. Matches(gs, qs, H)
  BY <1>8, <1>11, <1>15, <1>16, MatchesIntro
<1> QED
  BY <1>k, <1>4, <1>5, <1>7, <1>17

LEMMA MatchesMore ==
    ASSUME NEW G, NEW H, G \subseteq H, NEW fs, NEW rs, Matches(fs, rs, G)
    PROVE  Matches(fs, rs, H)
<1>1. \A k, f : PairedBy(fs, rs, G, k, f) => PairedBy(fs, rs, H, k, f)
  BY DEF PairedBy
<1> QED
  BY <1>1 DEF Matches

LEMMA MatchesEmpty ==
    ASSUME NEW H, NEW fs \in Seq(FrameSet), \A i \in 1 .. Len(fs) : fs[i].ret = CallerAddr
    PROVE  Matches(fs, <<>>, H)
<1>1. PICK f : f = [a \in 1 .. 0 |-> 1]
  OBVIOUS
<1>2. PICK n \in Nat : n = Len(fs)
  BY LenFacts
<1>3. f \in [1 .. 0 -> 1 .. n]
  BY <1>1
<1>4. Len(<<>>) = 2 * 0 /\ 0 \in Nat
  BY LenProperties
<1>5. PairedBy(fs, <<>>, H, 0, f)
  BY <1>4, AddrsDiffer DEF PairedBy
<1> QED
  BY <1>2, <1>3, <1>4, <1>5, MatchesIntro

LEMMA NoHookFacts ==
    /\ NoHook \in Hooks /\ RealHooks \subseteq Hooks /\ Hooks \subseteq Words
    /\ \A h \in RealHooks : h.va \in VAs /\ h.va # NoVa /\ h.n \in Nat
    /\ \A h \in Hooks : h.va \in VAs \cup {NoVa} /\ (h.va = NoVa <=> h = NoHook)
  BY AddressAssumption DEF RealHooks, Hooks, NoHook, Words

LEMMA HookAtFacts ==
    ASSUME NEW va, Hooked(va)
    PROVE  HookAt(va) \in hooks /\ HookAt(va).va = va
  BY DEF Hooked, HookAt

LEMMA FrameFacts ==
    /\ \A va \in VAs : [va |-> va, ret |-> CallerAddr] \in FrameSet
    /\ \A fs \in Seq(FrameSet), w \in {CallerAddr, ReturnAddr} : fs # <<>> =>
          [fs EXCEPT ![Len(fs)].ret = w] \in Seq(FrameSet)
<1>1. ASSUME NEW fs \in Seq(FrameSet), NEW w \in {CallerAddr, ReturnAddr}, fs # <<>>
      PROVE  [fs EXCEPT ![Len(fs)].ret = w] \in Seq(FrameSet)
  <2>1. Len(fs) \in 1 .. Len(fs) /\ fs[Len(fs)] \in FrameSet
    BY <1>1, LenFacts
  <2>2. PICK e \in FrameSet : e = [fs[Len(fs)] EXCEPT !.ret = w]
    BY <2>1 DEF FrameSet
  <2>3. [fs EXCEPT ![Len(fs)] = e] \in Seq(FrameSet)
    BY <2>1, ExceptSeq
  <2> QED
    BY <2>2, <2>3
<1> QED
  BY <1>1, AddrsDiffer DEF FrameSet

----------------------------------------------------------------------------
(* The steps of a thread on its stacks.                                    *)

StackTypes ==
    /\ hooks \subseteq RealHooks
    /\ tpc \in [AppThreads -> InStub \cup {"run", "retstub", "done", "wild"}]
    /\ frames \in [AppThreads -> Seq(FrameSet)]
    /\ rets \in [AppThreads -> Seq(Words)]
    /\ pHook \in [AppThreads -> Hooks]
    /\ isRet \in [AppThreads -> BOOLEAN]

\* (action) The other threads stay where they are.
OnlyMoves(t) ==
    \A s \in AppThreads : s # t =>
        /\ tpc'[s] = tpc[s] /\ pHook'[s] = pHook[s] /\ isRet'[s] = isRet[s]
        /\ frames'[s] = frames[s] /\ rets'[s] = rets[s]

\* Arriving in the body of a function or at its hook.
LEMMA ArriveFacts ==
    ASSUME StackTypes, NEW t \in Threads, NEW va \in VAs, Arrive(t, va)
    PROVE  /\ tpc' \in [AppThreads -> InStub \cup {"run", "retstub", "done", "wild"}]
           /\ pHook' \in [AppThreads -> Hooks]
           /\ isRet' \in [AppThreads -> BOOLEAN]
           /\ tpc'[t] \in {"run", "onhook"}
           /\ tpc'[t] = "onhook" => pHook'[t] \in hooks /\ pHook'[t].va = va /\ isRet'[t] = FALSE
           /\ tpc'[t] = "run" => ~Hooked(va)
           /\ \A s \in AppThreads : s # t =>
                 tpc'[s] = tpc[s] /\ pHook'[s] = pHook[s] /\ isRet'[s] = isRet[s]
<1> USE DEF StackTypes, AppThreads
<1>1. CASE Hooked(va)
  <2>1. PICK h \in Hooks : h = HookAt(va) /\ h \in hooks /\ h.va = va
    BY <1>1, HookAtFacts, NoHookFacts
  <2>2. /\ tpc' = [tpc EXCEPT ![t] = "onhook"]
        /\ pHook' = [pHook EXCEPT ![t] = h]
        /\ isRet' = [isRet EXCEPT ![t] = FALSE]
    BY <1>1, <2>1 DEF Arrive
  <2> QED
    BY <2>1, <2>2 DEF InStub
<1>2. CASE ~Hooked(va)
  BY <1>2 DEF Arrive
<1> QED
  BY <1>1, <1>2

\* A thread calls a function.
LEMMA CallMoves ==
    ASSUME StackTypes, NEW t \in Threads, NEW va \in VAs, Call(t, va)
    PROVE  /\ StackTypes' /\ OnlyMoves(t)
           /\ UNCHANGED <<hookVars, hitVars, event>>
           /\ tpc[t] = "run" /\ tpc'[t] \in {"run", "onhook"} /\ va # EntryPoint
           /\ tpc'[t] = "onhook" =>
                 pHook'[t] \in hooks /\ pHook'[t].va = va /\ isRet'[t] = FALSE /\ Entered(t)'
           /\ tpc'[t] = "run" => ~Hooked(va) 
           /\ frames'[t] = Append(frames[t], [va |-> va, ret |-> CallerAddr])
           /\ \A H : Matches(frames[t], rets[t], H) => Matches(frames'[t], rets'[t], H)
<1> USE DEF hookVars, hitVars
<1>1. PICK e \in FrameSet : e = [va |-> va, ret |-> CallerAddr]
  BY FrameFacts
<1>2. t \in AppThreads /\ frames[t] \in Seq(FrameSet) /\ frames \in [AppThreads -> Seq(FrameSet)]
  BY DEF StackTypes, AppThreads
<1>3. PICK fs : fs = Append(frames[t], e)
  OBVIOUS
<1>4. fs \in Seq(FrameSet) /\ fs # <<>> /\ Last(fs) = e
  BY <1>2, <1>3, AppendProperties DEF Last
<1>5. /\ frames' = [frames EXCEPT ![t] = fs] /\ Arrive(t, va) /\ tpc[t] = "run" /\ va # EntryPoint
      /\ UNCHANGED <<hookVars, hitVars, rets, event>>
  BY <1>1, <1>3 DEF Call
<1>6. /\ tpc' \in [AppThreads -> InStub \cup {"run", "retstub", "done", "wild"}]
      /\ pHook' \in [AppThreads -> Hooks]
      /\ isRet' \in [AppThreads -> BOOLEAN]
      /\ tpc'[t] \in {"run", "onhook"}
      /\ tpc'[t] = "onhook" => pHook'[t] \in hooks /\ pHook'[t].va = va /\ isRet'[t] = FALSE
      /\ tpc'[t] = "run" => ~Hooked(va)
      /\ \A s \in AppThreads : s # t =>
            tpc'[s] = tpc[s] /\ pHook'[s] = pHook[s] /\ isRet'[s] = isRet[s]
  BY <1>5, ArriveFacts
<1>7. frames' \in [AppThreads -> Seq(FrameSet)] /\ frames'[t] = fs /\ rets'[t] = rets[t]
  BY <1>2, <1>4, <1>5
<1>8. StackTypes'
  BY <1>5, <1>6, <1>7 DEF StackTypes
<1>9. OnlyMoves(t)
  BY <1>2, <1>5, <1>6 DEF OnlyMoves
<1>10. ASSUME NEW H, Matches(frames[t], rets[t], H) PROVE Matches(frames'[t], rets'[t], H)
  BY <1>1, <1>2, <1>3, <1>7, <1>10, MatchesCall
<1>11. tpc'[t] = "onhook" => Entered(t)'
  BY <1>1, <1>4, <1>6, <1>7 DEF Entered, StackTypes, RealHooks
<1> QED
  BY <1>1, <1>3, <1>5, <1>6, <1>7, <1>8, <1>9, <1>10, <1>11

\* A function returns to its caller.
LEMMA ReturnMoves ==
    ASSUME StackTypes, NEW t \in Threads, Return(t)
    PROVE  /\ StackTypes' /\ OnlyMoves(t)
           /\ UNCHANGED <<hookVars, hitVars, event, tpc, pHook, isRet>>
           /\ tpc[t] = "run" /\ frames'[t] = Front(frames[t])
           /\ \A H : Matches(frames[t], rets[t], H) => Matches(frames'[t], rets'[t], H)
<1>1. t \in AppThreads /\ frames[t] \in Seq(FrameSet) /\ frames \in [AppThreads -> Seq(FrameSet)]
  BY DEF StackTypes, AppThreads
<1>2. PICK fs : fs = Front(frames[t])
  OBVIOUS
<1>3. /\ frames' = [frames EXCEPT ![t] = fs] /\ tpc[t] = "run" /\ frames[t] # <<>>
      /\ Last(frames[t]).ret = CallerAddr
      /\ UNCHANGED <<hookVars, hitVars, tpc, rets, pHook, isRet, event>>
  BY <1>2 DEF Return
<1>4. fs \in Seq(FrameSet) /\ \A H : Matches(frames[t], rets[t], H) => Matches(fs, rets[t], H)
  BY <1>1, <1>2, <1>3, FrontFacts, MatchesLeave
<1>5. frames' \in [AppThreads -> Seq(FrameSet)] /\ frames'[t] = fs
  BY <1>1, <1>3, <1>4
<1>6. StackTypes' /\ OnlyMoves(t)
  BY <1>1, <1>3, <1>5 DEF StackTypes, OnlyMoves, hookVars
<1> QED
  BY <1>2, <1>3, <1>4, <1>5, <1>6

\* A function returns to _HookLLReturn.
LEMMA ReturnHookMoves ==
    ASSUME StackTypes, NEW t \in Threads, ReturnHook(t),
           NEW G, G \subseteq RealHooks, Matches(frames[t], rets[t], G)
    PROVE  /\ StackTypes' /\ OnlyMoves(t)
           /\ UNCHANGED <<hookVars, hitVars, event>>
           /\ tpc[t] = "run" /\ tpc'[t] = "onhook" /\ isRet'[t] = TRUE
           /\ pHook'[t] \in G /\ Entered(t)'
           /\ Matches(frames'[t], rets'[t], G)
<1>1. /\ t \in AppThreads
      /\ frames \in [AppThreads -> Seq(FrameSet)] /\ rets \in [AppThreads -> Seq(Words)]
      /\ frames[t] \in Seq(FrameSet) /\ rets[t] \in Seq(Words)
  BY DEF StackTypes, AppThreads
<1>2. /\ tpc[t] = "run" /\ frames[t] # <<>> /\ Last(frames[t]).ret = ReturnAddr
      /\ UNCHANGED <<hookVars, hitVars, event>>
      /\ isRet' = [isRet EXCEPT ![t] = TRUE] /\ tpc' = [tpc EXCEPT ![t] = "onhook"]
  BY DEF ReturnHook
<1>3. PICK fs : fs = [frames[t] EXCEPT ![Len(frames[t])].ret = CallerAddr]
  OBVIOUS
<1>4. PICK rs : rs = Front(Front(rets[t]))
  OBVIOUS
<1>5. PICK h \in G : h = PopReturn(rets[t]).hook /\ h.va = Last(frames[t]).va
  BY <1>1, <1>2, MatchesPop
<1>6. PopReturn(rets[t]).ret = CallerAddr /\ Len(rets[t]) >= 2 /\ Matches(fs, rs, G)
  BY <1>1, <1>2, <1>3, <1>4, MatchesPop
<1>7. frames' = [frames EXCEPT ![t] = fs]
  BY <1>1, <1>3, <1>6 DEF ReturnHook
<1>8. rets' = [rets EXCEPT ![t] = rs] /\ pHook' = [pHook EXCEPT ![t] = h]
  BY <1>4, <1>5 DEF ReturnHook
<1>9. fs \in Seq(FrameSet) /\ rs \in Seq(Words)
  BY <1>1, <1>2, <1>3, <1>4, <1>6, FrameFacts, FrontFrontFacts
<1>10. fs # <<>> /\ Last(fs) = [va |-> h.va, ret |-> CallerAddr]
  <2>1. PICK n \in Nat : n = Len(frames[t]) /\ n # 0 /\ frames[t][n] = Last(frames[t])
                         /\ frames[t][n] \in FrameSet
    BY <1>1, <1>2, LenFacts
  <2>2. Len(fs) = n /\ fs[n] = [frames[t][n] EXCEPT !.ret = CallerAddr]
    BY <1>1, <1>3, <2>1
  <2>3. [frames[t][n] EXCEPT !.ret = CallerAddr] = [va |-> h.va, ret |-> CallerAddr]
    BY <1>5, <2>1 DEF FrameSet
  <2> QED
    BY <1>9, <2>1, <2>2, <2>3, LenFacts
<1>11. StackTypes'
  <2>1. frames' \in [AppThreads -> Seq(FrameSet)] /\ rets' \in [AppThreads -> Seq(Words)]
    BY <1>1, <1>7, <1>8, <1>9
  <2>2. pHook' \in [AppThreads -> Hooks] /\ isRet' \in [AppThreads -> BOOLEAN]
        /\ tpc' \in [AppThreads -> InStub \cup {"run", "retstub", "done", "wild"}]
    BY <1>2, <1>8, NoHookFacts DEF StackTypes, InStub
  <2> QED
    BY <1>2, <2>1, <2>2 DEF StackTypes, hookVars
<1>12. OnlyMoves(t)
  BY <1>2, <1>7, <1>8 DEF StackTypes, OnlyMoves
<1>13. /\ tpc'[t] = "onhook" /\ isRet'[t] = TRUE
       /\ pHook'[t] = h /\ frames'[t] = fs /\ rets'[t] = rs
  BY <1>1, <1>2, <1>7, <1>8 DEF StackTypes
<1>14. Entered(t)'
  BY <1>10, <1>13 DEF Entered, RealHooks
<1> QED
  BY <1>2, <1>6, <1>11, <1>12, <1>13, <1>14

\* A thread goes through HookLLReturnStub.
LEMMA ReturnStubMoves ==
    ASSUME StackTypes, NEW t \in Threads, ReturnStub(t), pHook[t] \in hooks, Entered(t)
    PROVE  /\ StackTypes' /\ OnlyMoves(t)
           /\ UNCHANGED <<hookVars, hitVars, event, pHook, isRet>>
           /\ tpc[t] = "retstub" /\ tpc'[t] = "run"
           /\ \A H : pHook[t] \in H /\ Matches(frames[t], rets[t], H) =>
                        Matches(frames'[t], rets'[t], H)
<1>1. /\ t \in AppThreads
      /\ frames \in [AppThreads -> Seq(FrameSet)] /\ rets \in [AppThreads -> Seq(Words)]
      /\ frames[t] \in Seq(FrameSet) /\ rets[t] \in Seq(Words)
  BY DEF StackTypes, AppThreads
<1>2. /\ tpc[t] = "retstub" /\ UNCHANGED <<hookVars, hitVars, pHook, isRet, event>>
      /\ tpc' = [tpc EXCEPT ![t] = "run"]
  BY DEF ReturnStub
<1>3. PICK h \in RealHooks : /\ h = pHook[t] /\ h \in Words /\ frames[t] # <<>>
                             /\ Last(frames[t]) = [va |-> h.va, ret |-> CallerAddr]
  BY NoHookFacts DEF StackTypes, Entered
<1>4. PICK fs : fs = [frames[t] EXCEPT ![Len(frames[t])].ret = ReturnAddr]
  OBVIOUS
<1>5. PICK rs : rs = rets[t] \o <<h, CallerAddr>>
  OBVIOUS
<1>6. Last(frames[t]).ret = CallerAddr /\ Last(frames[t]).va = h.va
  BY <1>3
<1>7. ASSUME NEW H, h \in H, Matches(frames[t], rets[t], H) PROVE Matches(fs, rs, H)
  BY <1>1, <1>3, <1>4, <1>5, <1>6, <1>7, MatchesPush
<1>8. fs \in Seq(FrameSet) /\ rs \in Seq(Words)
  BY <1>1, <1>3, <1>4, <1>5, FrameFacts, PairFacts, AddrsDiffer
<1>9. frames' = [frames EXCEPT ![t] = fs] /\ rets' = [rets EXCEPT ![t] = rs]
  <2>1. rets' = [rets EXCEPT ![t] = rets[t] \o <<pHook[t], Last(frames[t]).ret>>]
    BY DEF ReturnStub
  <2>2. frames' = [frames EXCEPT ![t][Len(frames[t])].ret = ReturnAddr]
    BY DEF ReturnStub
  <2> QED
    BY <1>3, <1>4, <1>5, <1>6, <2>1, <2>2
<1>10. StackTypes'
  <2>1. frames' \in [AppThreads -> Seq(FrameSet)] /\ rets' \in [AppThreads -> Seq(Words)]
    BY <1>1, <1>8, <1>9
  <2> QED
    BY <1>2, <2>1 DEF StackTypes, hookVars
<1>11. OnlyMoves(t)
  BY <1>2, <1>9 DEF StackTypes, OnlyMoves
<1>12. tpc'[t] = "run" /\ frames'[t] = fs /\ rets'[t] = rs
  BY <1>1, <1>2, <1>9 DEF StackTypes
<1> QED
  BY <1>2, <1>3, <1>7, <1>10, <1>11, <1>12

\* All threads but the one at the entry point start without a frame.
LEMMA InitStacks ==
    ASSUME VictimInit
    PROVE  /\ StackTypes
           /\ \A t \in AppThreads : \A H : Matches(frames[t], rets[t], H)
           /\ \A t \in AppThreads : rets[t] = <<>> /\ tpc[t] \in {"run", "onhook", "done"}
           /\ \A t \in AppThreads : \A i \in 1 .. Len(frames[t]) : frames[t][i].ret = CallerAddr
           /\ \A t \in Threads : tpc[t] # "done"
           /\ \A t \in Threads : InHook(t) =>
                 t = Main /\ pHook[t] = InitialHook /\ Entered(t) /\ hooks = {InitialHook}
           /\ tpc[InitThread] \in {"onhook", "done"} /\ pHook[InitThread] = NoHook
<1> USE ThreadAssumption, AddressAssumption, NoHookFacts, AddrsDiffer
<1>1. InitialHook \in RealHooks /\ InitialHook.va = EntryPoint
  BY DEF InitialHook, RealHooks, Hooks, NoHook
<1>2. PICK e \in FrameSet : e = [va |-> EntryPoint, ret |-> CallerAddr]
  BY FrameFacts
<1>3. /\ <<>> \in Seq(FrameSet) /\ <<e>> \in Seq(FrameSet) /\ <<>> \in Seq(Words)
      /\ Len(<<>>) = 0 /\ Len(<<e>>) = 1 /\ <<e>>[1] = e /\ <<e>> # <<>>
  OBVIOUS
<1>4. \A t \in AppThreads : frames[t] = <<>> \/ (t = Main /\ frames[t] = <<e>>)
  <2>1. \/ frames = [t \in AppThreads |-> IF t = Main THEN <<e>> ELSE <<>>]
        \/ frames = [t \in AppThreads |-> <<>>]
    BY <1>2 DEF VictimInit
  <2> QED
    BY <2>1
<1>5. \A t \in AppThreads : frames[t] \in Seq(FrameSet) /\ rets[t] = <<>>
  BY <1>3, <1>4 DEF VictimInit
<1>6. \A t \in AppThreads : \A i \in 1 .. Len(frames[t]) : frames[t][i].ret = CallerAddr
  BY <1>2, <1>3, <1>4
<1>7. \A t \in AppThreads : \A H : Matches(frames[t], rets[t], H)
  BY <1>5, <1>6, MatchesEmpty
<1>8. StackTypes
  <2>1. frames \in [AppThreads -> Seq(FrameSet)] /\ rets \in [AppThreads -> Seq(Words)]
    BY <1>5, <1>3 DEF VictimInit
  <2>2. pHook \in [AppThreads -> Hooks] /\ hooks \in {{}, {InitialHook}}
    BY <1>1 DEF VictimInit
  <2>3. /\ tpc \in [AppThreads -> InStub \cup {"run", "retstub", "done", "wild"}]
        /\ isRet \in [AppThreads -> BOOLEAN]
    BY DEF VictimInit, InStub
  <2> QED
    BY <1>1, <2>1, <2>2, <2>3 DEF StackTypes
<1>9. ASSUME NEW t \in Threads, InHook(t)
      PROVE  t = Main /\ pHook[t] = InitialHook /\ Entered(t) /\ hooks = {InitialHook}
  <2>1. t = Main /\ frames[t] = <<e>> /\ pHook[t] = InitialHook /\ hooks = {InitialHook}
    BY <1>2, <1>9 DEF VictimInit, AppThreads, InHook, InStub
  <2>2. Last(<<e>>) = e
    BY <1>3, LenFacts
  <2> QED
    BY <1>1, <1>2, <1>3, <2>1, <2>2 DEF Entered, RealHooks
<1>10. /\ \A t \in Threads : tpc[t] # "done"
       /\ \A t \in AppThreads : tpc[t] \in {"run", "onhook", "done"}
       /\ tpc[InitThread] \in {"onhook", "done"} /\ pHook[InitThread] = NoHook
  BY DEF VictimInit, AppThreads
<1> QED
  BY <1>5, <1>6, <1>7, <1>8, <1>9, <1>10

=============================================================================
