-------------------------- MODULE PackageLockProofs --------------------------
(***************************************************************************)
(* What lock files promise, proved for any repositories, any moves of tags *)
(* and any failures: a returned package pins what it declares, at commits  *)
(* that were pulled, and the uses follow the pins, whichever commands run  *)
(* at the same time; and for one command at a time, pulling a commit again *)
(* gives the same pins.                                                    *)
(***************************************************************************)
EXTENDS PackageLock, SequenceTheorems, TLAPS

(***************************************************************************)
(* The calls of pull of one command, where the entries hold E and the      *)
(* packages R have been returned.                                          *)
(***************************************************************************)
Declared(f, E) == Manifest[<<f.source, E[Entry(f)]>>]

Pulled(d, lock, R) ==
  \E dep \in R : dep.source = d.source /\ dep.commit = lock[d.source]

\* A dependency that is no longer to do has been pinned and pulled, or it is
\* the one that the next call is for.
FrameInv(s, i, E, R) ==
  LET f == s[i]
      innermost == i = Len(s)
  IN  /\ f.version \in Tags => <<f.source, f.version>> \in Published
      /\ f.at = "fetch" => innermost /\ ~f.changed
      /\ f.at = "save" => innermost /\ f.changed /\ f.todo = {}
      /\ f.at # "fetch" =>
           /\ E[Entry(f)] # Unpinned
           /\ f.todo \subseteq Declared(f, E)
           /\ \A d \in Declared(f, E) \ f.todo :
                \/ Pulled(d, f.lock, R)
                \/ ~innermost /\ s[i + 1].source = d.source
      /\ ~innermost =>
           /\ \E d \in Declared(f, E) : d.source = s[i + 1].source
           /\ f.lock[s[i + 1].source] \in {Unpinned, s[i + 1].commit}

\* No source is pulled within a pull of itself.
StackInv(s, E, R) ==
  /\ \A i \in 1..Len(s) : FrameInv(s, i, E, R)
  /\ \A i, j \in 1..Len(s) : s[i].source = s[j].source => i = j

CallsInv == \A p \in Procs : StackInv(stack[p], entries, results)

\* Every returned package pins what it declares at a commit that was pulled.
ResultInv(r, E, R) ==
  /\ E[Entry(r)] # Unpinned
  /\ \A d \in Manifest[<<r.source, E[Entry(r)]>>] : Pulled(d, r.lock, R)

ResultsInv == \A r \in results : ResultInv(r, entries, results)

\* A command uses a package that was returned, and a use of a dependency is
\* under way at the commit the package pins.
UseInv ==
  \A p \in Procs :
    /\ package[p] # NoPackage => package[p] \in results /\ package[p].source = Root
    /\ stack[p] # <<>> => LET f == stack[p][1] IN
         /\ f.caller = "pull" <=> package[p] = NoPackage
         /\ f.caller = "pull" => f.source = Root
         /\ f.caller = "dependency" => f.commit = package[p].lock[f.source]

IInv == TypeOK /\ CallsInv /\ ResultsInv /\ UseInv /\ DependenciesFollowLock

------------------------------------------------------------------------------
(* Stacks of calls. *)

LEMMA LastOf ==
  ASSUME NEW S, NEW s \in Seq(S), s # <<>>
  PROVE  /\ Len(s) \in Nat \ {0} /\ Last(s) = s[Len(s)] /\ Last(s) \in S
         /\ Front(s) \in Seq(S) /\ Len(Front(s)) = Len(s) - 1
         /\ \A i \in 1..(Len(s) - 1) : Front(s)[i] = s[i]
<1>1. Len(s) \in Nat \ {0}  BY EmptySeq, LenProperties
<1>2. \A i \in 1..Len(s) : s[i] \in S  BY ElementOfSeq
<1>3. Last(s) = s[Len(s)] /\ Last(s) \in S  BY <1>1, <1>2 DEF Last
<1>. DEFINE m == Len(s) - 1
<1>4. m \in Nat /\ m \in Int /\ 1 \in Int /\ \A i \in 1..m : s[i] \in S  BY <1>1, <1>2
<1>5. /\ SubSeq(s, 1, m) \in Seq(S)
      /\ Len(SubSeq(s, 1, m)) = IF 1 <= m THEN m - 1 + 1 ELSE 0
      /\ \A i \in 1..(m - 1 + 1) : SubSeq(s, 1, m)[i] = s[1 + i - 1]
  <2>. HIDE DEF m
  <2>. QED  BY <1>4, SubSeqProperties
<1>6. Front(s) = SubSeq(s, 1, m)  BY DEF Front
<1>. HIDE DEF m
<1>7. Len(Front(s)) = m
  <2>1. (IF 1 <= m THEN m - 1 + 1 ELSE 0) = m  BY <1>4
  <2>. QED  BY <1>5, <1>6, <2>1
<1>8. \A i \in 1..m : Front(s)[i] = s[i]  BY <1>4, <1>5, <1>6
<1>. QED  BY <1>1, <1>3, <1>5, <1>6, <1>7, <1>8 DEF m

\* The innermost call goes on ...
LEMMA LastReplaced ==
  ASSUME NEW S, NEW s \in Seq(S), s # <<>>, NEW f \in S
  PROVE  LET t == Append(Front(s), f) IN
         /\ t \in Seq(S) /\ Len(t) = Len(s) /\ t[Len(s)] = f
         /\ \A i \in 1..(Len(s) - 1) : t[i] = s[i]
BY LastOf, AppendProperties

\* ... makes a call ...
LEMMA CallPushed ==
  ASSUME NEW S, NEW s \in Seq(S), s # <<>>, NEW f \in S, NEW g \in S
  PROVE  LET t == Front(s) \o <<f, g>> IN
         /\ t \in Seq(S) /\ Len(t) = Len(s) + 1
         /\ t[Len(s)] = f /\ t[Len(s) + 1] = g
         /\ \A i \in 1..(Len(s) - 1) : t[i] = s[i]
<1>. DEFINE r == Front(s)
            two == <<f, g>>
<1>1. two \in Seq(S) /\ Len(two) = 2 /\ two[1] = f /\ two[2] = g  OBVIOUS
<1>2. /\ Len(s) \in Nat \ {0} /\ r \in Seq(S) /\ Len(r) = Len(s) - 1
      /\ \A i \in 1..(Len(s) - 1) : r[i] = s[i]
  BY LastOf
<1>. HIDE DEF r, two
<1>3. /\ r \o two \in Seq(S) /\ Len(r \o two) = Len(r) + Len(two)
      /\ \A i \in 1..(Len(r) + Len(two)) :
           (r \o two)[i] = IF i <= Len(r) THEN r[i] ELSE two[i - Len(r)]
  BY <1>1, <1>2, ConcatProperties
<1>4. Len(r \o two) = Len(s) + 1  BY <1>1, <1>2, <1>3
<1>5. (r \o two)[Len(s)] = f /\ (r \o two)[Len(s) + 1] = g  BY <1>1, <1>2, <1>3
<1>6. \A i \in 1..(Len(s) - 1) : (r \o two)[i] = s[i]  BY <1>1, <1>2, <1>3
<1>. QED  BY <1>3, <1>4, <1>5, <1>6 DEF r, two

\* ... and returns to its caller.
LEMMA LastPopped ==
  ASSUME NEW S, NEW s \in Seq(S), Len(s) > 1, NEW f \in S
  PROVE  LET t == Append(Front(Front(s)), f) IN
         /\ Last(Front(s)) = s[Len(s) - 1] /\ Last(Front(s)) \in S
         /\ t \in Seq(S) /\ Len(t) = Len(s) - 1 /\ t[Len(s) - 1] = f
         /\ \A i \in 1..(Len(s) - 2) : t[i] = s[i]
<1>1. s # <<>>  OBVIOUS
<1>2. /\ Front(s) \in Seq(S) /\ Len(Front(s)) = Len(s) - 1
      /\ \A i \in 1..(Len(s) - 1) : Front(s)[i] = s[i]
  BY <1>1, LastOf
<1>. DEFINE r == Front(s)
            q == Front(r)
<1>. HIDE DEF r
<1>3. r # <<>> /\ r \in Seq(S) /\ Len(r) = Len(s) - 1  BY <1>2 DEF r
<1>4. /\ Last(r) = r[Len(r)] /\ Last(r) \in S
      /\ q \in Seq(S) /\ Len(q) = Len(r) - 1
      /\ \A i \in 1..(Len(r) - 1) : q[i] = r[i]
  BY <1>3, LastOf
<1>. HIDE DEF q
<1>5. /\ Append(q, f) \in Seq(S) /\ Len(Append(q, f)) = Len(q) + 1
      /\ \A i \in 1..Len(q) : Append(q, f)[i] = q[i]
      /\ Append(q, f)[Len(q) + 1] = f
  BY <1>4, AppendProperties
<1>6. Len(s) \in Nat /\ Len(q) = Len(s) - 2 /\ Len(q) + 1 = Len(s) - 1
  BY <1>3, <1>4, LenProperties
<1>7. r[Len(r)] = s[Len(s) - 1]  BY <1>2, <1>3, <1>6 DEF r
<1>8. \A i \in 1..(Len(s) - 2) : q[i] = s[i]
  <2>1. \A i \in 1..(Len(s) - 2) : i \in 1..(Len(s) - 1)  BY <1>6
  <2>. QED  BY <1>2, <1>3, <1>4, <1>6, <2>1 DEF r
<1>. QED  BY <1>4, <1>5, <1>6, <1>7, <1>8 DEF r, q

------------------------------------------------------------------------------
(***************************************************************************)
(* The invariant of a stack, from one state to the next.                   *)
(***************************************************************************)
\* What is cached stays, and what was returned was returned.
Grown(E, E2, R, R2) ==
  /\ \A e \in Sources \X Commits : E[e] # Unpinned => E2[e] = E[e]
  /\ R \subseteq R2

LEMMA FrameKept ==
  ASSUME NEW s \in Seq(Frame), NEW t \in Seq(Frame), NEW E, NEW E2, NEW R, NEW R2,
         Grown(E, E2, R, R2), NEW i \in 1..Len(s), t[i] = s[i],
         i = Len(t) <=> i = Len(s),
         i # Len(s) => t[i + 1].source = s[i + 1].source /\ t[i + 1].commit = s[i + 1].commit,
         FrameInv(s, i, E, R)
  PROVE  FrameInv(t, i, E2, R2)
<1>. DEFINE f == s[i]
<1>1. f \in Frame  BY ElementOfSeq
<1>2. Entry(f) \in Sources \X Commits  BY <1>1 DEF Entry, Frame
<1>3. f.at # "fetch" => E[Entry(f)] # Unpinned  BY DEF FrameInv
<1>4. f.at # "fetch" => E2[Entry(f)] = E[Entry(f)] /\ Declared(f, E2) = Declared(f, E)
  <2>. HIDE DEF Frame, f
  <2>. QED  BY <1>2, <1>3 DEF Grown, Declared
<1>5. i # Len(s) => f.at # "fetch"  BY DEF FrameInv
<1>6. \A d : Pulled(d, f.lock, R) => Pulled(d, f.lock, R2)  BY DEF Pulled, Grown
<1>. HIDE DEF Frame
<1>. QED  BY <1>4, <1>5, <1>6 DEF FrameInv

LEMMA StackKept ==
  ASSUME NEW s \in Seq(Frame), NEW E, NEW E2, NEW R, NEW R2,
         Grown(E, E2, R, R2), StackInv(s, E, R)
  PROVE  StackInv(s, E2, R2)
BY FrameKept DEF StackInv

LEMMA StackReplaced ==
  ASSUME NEW s \in Seq(Frame), s # <<>>, NEW f \in Frame, NEW t,
         t = Append(Front(s), f), f.source = Last(s).source, f.commit = Last(s).commit,
         NEW E, NEW E2, NEW R, NEW R2, Grown(E, E2, R, R2),
         StackInv(s, E, R), FrameInv(t, Len(s), E2, R2)
  PROVE  StackInv(t, E2, R2)
<1>. DEFINE n == Len(s)
<1>1. /\ n \in Nat \ {0} /\ Last(s) = s[n]
      /\ t \in Seq(Frame) /\ Len(t) = n /\ t[n] = f
      /\ \A i \in 1..(n - 1) : t[i] = s[i]
  <2>. HIDE DEF Frame
  <2>1. n \in Nat /\ Len(s) \in Nat  BY LenProperties
  <2>2. n # 0  BY <2>1, EmptySeq
  <2>. QED
    BY ONLY <2>1, <2>2, s \in Seq(Frame), s # <<>>, f \in Frame, t = Append(Front(s), f),
            LastOf, LastReplaced
<1>. HIDE DEF Frame
<1>2. \A i \in 1..n : t[i].source = s[i].source /\ t[i].commit = s[i].commit
  BY <1>1
<1>3. ASSUME NEW i \in 1..(n - 1)  PROVE FrameInv(t, i, E2, R2)
  <2>1. i \in 1..n /\ i + 1 \in 1..n /\ i # n  BY <1>1
  <2>2. FrameInv(s, i, E, R)  BY <2>1 DEF StackInv
  <2>3. t[i] = s[i] /\ (i = Len(t) <=> i = Len(s))  BY <1>1, <2>1
  <2>. QED  BY <1>1, <1>2, <2>1, <2>2, <2>3, FrameKept
<1>4. \A i \in 1..n : FrameInv(t, i, E2, R2)
  <2>1. \A i \in 1..n : i = n \/ i \in 1..(n - 1)  BY <1>1
  <2>. QED  BY <1>3, <2>1
<1>5. \A i, j \in 1..n : s[i].source = s[j].source => i = j  BY DEF StackInv
<1>6. \A i, j \in 1..n : t[i].source = t[j].source => i = j  BY <1>2, <1>5
<1>. QED  BY <1>1, <1>4, <1>6 DEF StackInv

LEMMA StackPushed ==
  ASSUME NEW s \in Seq(Frame), s # <<>>, NEW f \in Frame, NEW g \in Frame, NEW t,
         t = Front(s) \o <<f, g>>, f.source = Last(s).source, f.commit = Last(s).commit,
         \A i \in 1..Len(s) : g.source # s[i].source,
         NEW E, NEW E2, NEW R, NEW R2, Grown(E, E2, R, R2), StackInv(s, E, R),
         FrameInv(t, Len(s), E2, R2), FrameInv(t, Len(s) + 1, E2, R2)
  PROVE  StackInv(t, E2, R2)
<1>. DEFINE n == Len(s)
<1>1. /\ n \in Nat \ {0} /\ Last(s) = s[n]
      /\ t \in Seq(Frame) /\ Len(t) = n + 1 /\ t[n] = f /\ t[n + 1] = g
      /\ \A i \in 1..(n - 1) : t[i] = s[i]
  <2>. HIDE DEF Frame
  <2>1. n \in Nat /\ Len(s) \in Nat  BY LenProperties
  <2>2. n # 0  BY <2>1, EmptySeq
  <2>3. /\ t \in Seq(Frame) /\ Len(t) = n + 1 /\ t[n] = f /\ t[n + 1] = g
        /\ \A i \in 1..(n - 1) : t[i] = s[i]
    BY ONLY s \in Seq(Frame), s # <<>>, f \in Frame, g \in Frame,
            t = Front(s) \o <<f, g>>, CallPushed
  <2>4. Last(s) = s[n]  BY ONLY s \in Seq(Frame), s # <<>>, LastOf
  <2>. QED  BY ONLY <2>1, <2>2, <2>3, <2>4
<1>. HIDE DEF Frame
<1>2. \A i \in 1..n : t[i].source = s[i].source /\ t[i].commit = s[i].commit
  <2>1. t[n].source = s[n].source /\ t[n].commit = s[n].commit  BY <1>1
  <2>2. \A i \in 1..n : i = n \/ i \in 1..(n - 1)  BY <1>1
  <2>. QED  BY ONLY <1>1, <2>1, <2>2
<1>3. ASSUME NEW i \in 1..(n - 1)  PROVE FrameInv(t, i, E2, R2)
  <2>1. i \in 1..n /\ i + 1 \in 1..n /\ i # n /\ i # n + 1  BY <1>1
  <2>2. FrameInv(s, i, E, R)  BY <2>1 DEF StackInv
  <2>3. t[i] = s[i] /\ (i = Len(t) <=> i = Len(s))  BY <1>1, <2>1
  <2>. QED  BY <1>1, <1>2, <2>1, <2>2, <2>3, FrameKept
<1>4. \A i \in 1..(n + 1) : FrameInv(t, i, E2, R2)
  <2>1. \A i \in 1..(n + 1) : i = n + 1 \/ i = n \/ i \in 1..(n - 1)  BY <1>1
  <2>. QED  BY <1>3, <2>1
<1>5. \A i, j \in 1..n : s[i].source = s[j].source => i = j  BY DEF StackInv
<1>6. \A i, j \in 1..(n + 1) : t[i].source = t[j].source => i = j
  <2>1. \A i \in 1..(n + 1) : i = n + 1 \/ i \in 1..n  BY <1>1
  <2>2. \A i \in 1..n : t[n + 1].source # t[i].source  BY <1>1, <1>2
  <2>. QED  BY <1>2, <1>5, <2>1, <2>2
<1>. QED  BY <1>1, <1>4, <1>6 DEF StackInv

LEMMA StackPopped ==
  ASSUME NEW s \in Seq(Frame), Len(s) > 1, NEW f \in Frame, NEW t,
         t = Append(Front(Front(s)), f),
         f.source = Last(Front(s)).source, f.commit = Last(Front(s)).commit,
         NEW E, NEW E2, NEW R, NEW R2, Grown(E, E2, R, R2),
         StackInv(s, E, R), FrameInv(t, Len(s) - 1, E2, R2)
  PROVE  StackInv(t, E2, R2)
<1>. DEFINE n == Len(s) - 1
<1>1. /\ n \in Nat \ {0} /\ Last(Front(s)) = s[n]
      /\ t \in Seq(Frame) /\ Len(t) = n /\ t[n] = f
      /\ \A i \in 1..(n - 1) : t[i] = s[i]
  <2>. HIDE DEF Frame
  <2>1. Len(s) \in Nat  BY LenProperties
  <2>2. \A k \in Nat : k > 1 => k - 1 \in Nat \ {0} /\ (k - 1) - 1 = k - 2  OBVIOUS
  <2>3. n \in Nat \ {0} /\ n - 1 = Len(s) - 2  BY ONLY <2>1, <2>2, Len(s) > 1, Zenon
  <2>4. /\ Last(Front(s)) = s[n] /\ t \in Seq(Frame) /\ Len(t) = n /\ t[n] = f
        /\ \A i \in 1..(Len(s) - 2) : t[i] = s[i]
    BY ONLY s \in Seq(Frame), Len(s) > 1, f \in Frame,
            t = Append(Front(Front(s)), f), LastPopped
  <2>. QED  BY ONLY <2>3, <2>4
<1>. HIDE DEF Frame
<1>2. \A i \in 1..n : t[i].source = s[i].source /\ t[i].commit = s[i].commit
  <2>1. t[n].source = s[n].source /\ t[n].commit = s[n].commit  BY <1>1
  <2>2. \A i \in 1..n : i = n \/ i \in 1..(n - 1)  BY <1>1
  <2>. QED  BY ONLY <1>1, <2>1, <2>2
<1>3. ASSUME NEW i \in 1..(n - 1)  PROVE FrameInv(t, i, E2, R2)
  <2>1. i \in 1..n /\ i \in 1..Len(s) /\ i + 1 \in 1..n /\ i # n /\ i # Len(s)  BY <1>1
  <2>2. FrameInv(s, i, E, R)  BY <2>1 DEF StackInv
  <2>3. t[i] = s[i] /\ (i = Len(t) <=> i = Len(s))  BY <1>1, <2>1
  <2>. QED  BY <1>1, <1>2, <2>1, <2>2, <2>3, FrameKept
<1>4. \A i \in 1..n : FrameInv(t, i, E2, R2)
  <2>1. \A i \in 1..n : i = n \/ i \in 1..(n - 1)  BY <1>1
  <2>. QED  BY <1>3, <2>1
<1>5. \A i, j \in 1..n : s[i].source = s[j].source => i = j
  <2>1. \A i \in 1..n : i \in 1..Len(s)  BY <1>1
  <2>. QED  BY <2>1 DEF StackInv
<1>6. \A i, j \in 1..n : t[i].source = t[j].source => i = j  BY ONLY <1>2, <1>5
<1>. QED  BY <1>1, <1>4, <1>6 DEF StackInv

LEMMA StackSingle ==
  ASSUME NEW f \in Frame, NEW E, NEW R, FrameInv(<<f>>, 1, E, R)
  PROVE  StackInv(<<f>>, E, R)
BY DEF StackInv

\* The first call of a command is the same one as long as it is not over.
LEMMA FirstReplaced ==
  ASSUME NEW s \in Seq(Frame), s # <<>>, NEW f \in Frame,
         f.source = Last(s).source, f.commit = Last(s).commit, f.caller = Last(s).caller
  PROVE  LET t == Append(Front(s), f) IN
         t[1].source = s[1].source /\ t[1].commit = s[1].commit /\ t[1].caller = s[1].caller
<1>. HIDE DEF Frame
<1>1. /\ Len(s) \in Nat \ {0} /\ Last(s) = s[Len(s)] /\ Append(Front(s), f)[Len(s)] = f
      /\ \A i \in 1..(Len(s) - 1) : Append(Front(s), f)[i] = s[i]
  BY ONLY s \in Seq(Frame), s # <<>>, f \in Frame, LastOf, LastReplaced
<1>2. CASE Len(s) = 1  BY <1>1, <1>2
<1>3. CASE Len(s) # 1
  <2>0. \A k \in Nat \ {0} : k # 1 => 1 \in 1..(k - 1)  OBVIOUS
  <2>1. 1 \in 1..(Len(s) - 1)  BY ONLY <1>1, <1>3, <2>0, Zenon
  <2>. QED  BY <1>1, <2>1
<1>. QED  BY <1>2, <1>3

LEMMA FirstPushed ==
  ASSUME NEW s \in Seq(Frame), s # <<>>, NEW f \in Frame, NEW g \in Frame,
         f.source = Last(s).source, f.commit = Last(s).commit, f.caller = Last(s).caller
  PROVE  LET t == Front(s) \o <<f, g>> IN
         t[1].source = s[1].source /\ t[1].commit = s[1].commit /\ t[1].caller = s[1].caller
<1>. HIDE DEF Frame
<1>1. /\ Len(s) \in Nat \ {0} /\ Last(s) = s[Len(s)]
  BY ONLY s \in Seq(Frame), s # <<>>, LastOf
<1>2. /\ (Front(s) \o <<f, g>>)[Len(s)] = f
      /\ \A i \in 1..(Len(s) - 1) : (Front(s) \o <<f, g>>)[i] = s[i]
  BY ONLY s \in Seq(Frame), s # <<>>, f \in Frame, g \in Frame, CallPushed
<1>3. CASE Len(s) = 1  BY <1>1, <1>2, <1>3
<1>4. CASE Len(s) # 1
  <2>0. \A k \in Nat \ {0} : k # 1 => 1 \in 1..(k - 1)  OBVIOUS
  <2>1. 1 \in 1..(Len(s) - 1)  BY ONLY <1>1, <1>4, <2>0, Zenon
  <2>. QED  BY <1>2, <2>1
<1>. QED  BY <1>3, <1>4

LEMMA FirstPopped ==
  ASSUME NEW s \in Seq(Frame), Len(s) > 1, NEW f \in Frame,
         f.source = Last(Front(s)).source, f.commit = Last(Front(s)).commit,
         f.caller = Last(Front(s)).caller
  PROVE  LET t == Append(Front(Front(s)), f) IN
         t[1].source = s[1].source /\ t[1].commit = s[1].commit /\ t[1].caller = s[1].caller
<1>. HIDE DEF Frame
<1>1. /\ Last(Front(s)) = s[Len(s) - 1]
      /\ Append(Front(Front(s)), f)[Len(s) - 1] = f
      /\ \A i \in 1..(Len(s) - 2) : Append(Front(Front(s)), f)[i] = s[i]
  BY ONLY s \in Seq(Frame), Len(s) > 1, f \in Frame, LastPopped
<1>2. Len(s) \in Nat  BY LenProperties
<1>3. CASE Len(s) = 2  BY <1>1, <1>3
<1>4. CASE Len(s) # 2
  <2>1. \A k \in Nat : k > 1 /\ k # 2 => 1 \in 1..(k - 2)  OBVIOUS
  <2>2. 1 \in 1..(Len(s) - 2)  BY ONLY <1>2, <1>4, <2>1, Len(s) > 1, Zenon
  <2>. QED  BY <1>1, <2>2
<1>. QED  BY <1>3, <1>4

------------------------------------------------------------------------------
(***************************************************************************)
(* Steps, from the invariant of the whole state.                           *)
(***************************************************************************)
LEMMA TopFacts ==
  ASSUME IInv, NEW p \in Procs, stack[p] # <<>>
  PROVE  /\ stack[p] \in Seq(Frame) /\ Len(stack[p]) \in Nat \ {0}
         /\ Top(p) = stack[p][Len(stack[p])] /\ Top(p) \in Frame
         /\ FrameInv(stack[p], Len(stack[p]), entries, results)
<1>. HIDE DEF Frame
<1>1. stack[p] \in Seq(Frame)  BY DEF IInv, TypeOK
<1>2. /\ Len(stack[p]) \in Nat \ {0}
      /\ Last(stack[p]) = stack[p][Len(stack[p])] /\ Last(stack[p]) \in Frame
  BY ONLY <1>1, stack[p] # <<>>, LastOf
<1>3. Len(stack[p]) \in 1..Len(stack[p])  BY ONLY <1>2
<1>4. StackInv(stack[p], entries, results)  BY DEF IInv, CallsInv
<1>. QED  BY <1>1, <1>2, <1>3, <1>4 DEF StackInv, Top

\* A call that begins.
LEMMA CallBegins ==
  ASSUME TypeOK, NEW source \in Sources, NEW version \in Versions,
         version \in Tags => <<source, version>> \in Published,
         NEW caller \in {"pull", "dependency", "component"}
  PROVE  /\ Resolved(source, version, caller) \in Frame
         /\ CommitOf(source, version) \in Commits
<1>1. CommitOf(source, version) \in Commits
  BY DEF CommitOf, TypeOK, Versions
<1>2. NoLock \in Lock  BY DEF NoLock, Lock, Pins
<1>. QED  BY <1>1, <1>2 DEF Resolved, Frame

\* A step of one command leaves the others' calls alone.
LEMMA StepOf ==
  ASSUME IInv, NEW p \in Procs, stack' \in [Procs -> Seq(Frame)],
         \A q \in Procs \ {p} : stack'[q] = stack[q],
         Grown(entries, entries', results, results'),
         StackInv(stack'[p], entries', results'),
         \A r \in results' \ results : ResultInv(r, entries', results')
  PROVE  CallsInv' /\ ResultsInv'
<1>1. ASSUME NEW q \in Procs \ {p}  PROVE StackInv(stack'[q], entries', results')
  <2>1. stack[q] \in Seq(Frame) /\ StackInv(stack[q], entries, results)
    BY DEF IInv, TypeOK, CallsInv
  <2>. HIDE DEF Frame
  <2>. QED  BY <2>1, StackKept
<1>2. ASSUME NEW r \in results  PROVE ResultInv(r, entries', results')
  <2>1. ResultInv(r, entries, results) /\ r \in Package  BY DEF IInv, TypeOK, ResultsInv
  <2>2. Entry(r) \in Sources \X Commits  BY <2>1 DEF Entry, Package
  <2>3. entries'[Entry(r)] = entries[Entry(r)]
    BY <2>1, <2>2 DEF Grown, ResultInv
  <2>4. \A d : Pulled(d, r.lock, results) => Pulled(d, r.lock, results')
    BY DEF Pulled, Grown
  <2>. QED  BY <2>1, <2>3, <2>4 DEF ResultInv
<1>. QED  BY <1>1, <1>2 DEF CallsInv, ResultsInv

\* A command that goes on uses the package it used.
LEMMA UseKept ==
  ASSUME IInv, NEW p \in Procs, package' = package, results \subseteq results',
         \A q \in Procs \ {p} : stack'[q] = stack[q],
         stack'[p] # <<>> =>
           /\ stack[p] # <<>>
           /\ stack'[p][1].source = stack[p][1].source
           /\ stack'[p][1].commit = stack[p][1].commit
           /\ stack'[p][1].caller = stack[p][1].caller
  PROVE  UseInv'
<1>. SUFFICES ASSUME NEW q \in Procs
     PROVE  /\ package[q] # NoPackage => package[q] \in results' /\ package[q].source = Root
            /\ stack'[q] # <<>> => LET f == stack'[q][1] IN
                 /\ f.caller = "pull" <=> package[q] = NoPackage
                 /\ f.caller = "pull" => f.source = Root
                 /\ f.caller = "dependency" => f.commit = package[q].lock[f.source]
  BY DEF UseInv, NoPackage, NoLock
<1>1. /\ package[q] # NoPackage => package[q] \in results /\ package[q].source = Root
      /\ stack[q] # <<>> =>
           /\ stack[q][1].caller = "pull" <=> package[q] = NoPackage
           /\ stack[q][1].caller = "pull" => stack[q][1].source = Root
           /\ stack[q][1].caller = "dependency" =>
                stack[q][1].commit = package[q].lock[stack[q][1].source]
  BY DEF IInv, UseInv
<1>2. CASE q = p  BY <1>1, <1>2
<1>3. CASE q # p  BY <1>1, <1>3
<1>. QED  BY <1>2, <1>3

------------------------------------------------------------------------------
(* The actions. *)

LEMMA IInvInit == Init => IInv
<1>. SUFFICES ASSUME Init PROVE IInv
  OBVIOUS
<1>1. stack \in [Procs -> Seq(Frame)]
  <2>. HIDE DEF Frame
  <2>. QED  BY EmptySeq DEF Init
<1>2. NoLock \in Lock  BY DEF NoLock, Lock, Pins
<1>3. TypeOK
  BY <1>1, <1>2, LockAssumption DEF Init, TypeOK, Pins
<1>4. \A p \in Procs : Len(stack[p]) = 0  BY DEF Init
<1>5. CallsInv  BY <1>4 DEF CallsInv, StackInv
<1>. QED  BY <1>3, <1>5 DEF Init, IInv, ResultsInv, UseInv, DependenciesFollowLock

LEMMA AbandonNext ==
  ASSUME IInv, NEW p \in Procs, Abandon(p), UNCHANGED <<entries, results>>
  PROVE  /\ stack' \in [Procs -> Seq(Frame)] /\ package' \in [Procs -> Package \cup {NoPackage}]
         /\ CallsInv' /\ ResultsInv' /\ UseInv'
<1>. HIDE DEF Frame, Package, NoPackage
<1>1. /\ stack \in [Procs -> Seq(Frame)]
      /\ package \in [Procs -> Package \cup {NoPackage}]
  BY DEF IInv, TypeOK
<1>2. <<>> \in Seq(Frame)  BY EmptySeq
<1>3. /\ stack' \in [Procs -> Seq(Frame)] /\ stack'[p] = <<>>
      /\ \A q \in Procs \ {p} : stack'[q] = stack[q]
      /\ package' \in [Procs -> Package \cup {NoPackage}] /\ package'[p] = NoPackage
      /\ \A q \in Procs \ {p} : package'[q] = package[q]
  BY <1>1, <1>2 DEF Abandon
<1>4. StackInv(stack'[p], entries', results')
  <2>1. Len(stack'[p]) = 0  BY <1>3
  <2>. QED  BY <2>1 DEF StackInv
<1>5. Grown(entries, entries', results, results')  BY DEF Grown
<1>6. CallsInv' /\ ResultsInv'  BY <1>3, <1>4, <1>5, StepOf
<1>7. UseInv'  BY <1>3 DEF IInv, UseInv, NoPackage, NoLock
<1>. QED  BY <1>3, <1>6, <1>7

LEMMA MoveTagNext == IInv /\ MoveTag => IInv'
<1>. SUFFICES ASSUME IInv, MoveTag PROVE IInv'
  OBVIOUS
<1>1. UNCHANGED <<entries, locks, stack, package, faults, results, used>>
  BY DEF MoveTag
<1>2. tags' \in [Published -> Commits] /\ moves' \in 0..MaxMoves
  BY LockAssumption DEF MoveTag, IInv, TypeOK
<1>3. TypeOK'  BY <1>1, <1>2 DEF IInv, TypeOK
<1>4. CallsInv' /\ ResultsInv' /\ UseInv'
  BY <1>1 DEF IInv, CallsInv, ResultsInv, UseInv
<1>. QED  BY <1>1, <1>3, <1>4 DEF IInv, DependenciesFollowLock

\* A command calls pull for a package of its own.
LEMMA BeginNext ==
  ASSUME IInv, NEW p \in Procs, stack[p] = <<>>,
         NEW source \in Sources, NEW version \in Versions,
         version \in Tags => <<source, version>> \in Published,
         NEW caller \in {"pull", "dependency", "component"},
         stack' = [stack EXCEPT ![p] = <<Resolved(source, version, caller)>>],
         caller = "pull" <=> package[p] = NoPackage, caller = "pull" => source = Root,
         caller = "dependency" => version = package[p].lock[source] /\ version \in Commits,
         UNCHANGED <<tags, moves, entries, locks, package, faults, results, used>>
  PROVE  IInv'
<1>. DEFINE f == Resolved(source, version, caller)
<1>1. f \in Frame /\ CommitOf(source, version) \in Commits  BY CallBegins DEF IInv
<1>2. /\ f.source = source /\ f.version = version /\ f.commit = CommitOf(source, version)
      /\ f.caller = caller /\ f.at = "fetch" /\ ~f.changed
  BY DEF Resolved
<1>. HIDE DEF Frame, f
<1>3. stack \in [Procs -> Seq(Frame)] /\ stack' = [stack EXCEPT ![p] = <<f>>]
  BY DEF IInv, TypeOK, f
<1>4. /\ stack' \in [Procs -> Seq(Frame)] /\ stack'[p] = <<f>>
      /\ \A q \in Procs \ {p} : stack'[q] = stack[q]
  BY <1>1, <1>3
<1>5. FrameInv(<<f>>, 1, entries', results')  BY <1>2 DEF FrameInv
<1>6. StackInv(stack'[p], entries', results')  BY <1>1, <1>4, <1>5, StackSingle
<1>7. Grown(entries, entries', results, results')  BY DEF Grown
<1>8. CallsInv' /\ ResultsInv'  BY <1>4, <1>6, <1>7, StepOf
<1>9. UseInv'
  <2>1. stack'[p][1] = f  BY <1>4
  <2>2. caller = "dependency" => CommitOf(source, version) = package[p].lock[source]
    BY DEF CommitOf
  <2>. QED  BY <1>2, <1>4, <2>1, <2>2 DEF IInv, UseInv, NoPackage, NoLock
<1>10. TypeOK'  BY <1>4 DEF IInv, TypeOK
<1>. QED  BY <1>8, <1>9, <1>10 DEF IInv, DependenciesFollowLock

LEMMA PullNext == ASSUME IInv, NEW p \in Procs, Pull(p)  PROVE IInv'
<1>. HIDE DEF NoPackage
<1>1. PICK tag \in Tags : /\ <<Root, tag>> \in Published
                          /\ stack' = [stack EXCEPT ![p] = <<Resolved(Root, tag, "pull")>>]
  BY DEF Pull
<1>2. /\ stack[p] = <<>> /\ package[p] = NoPackage
      /\ UNCHANGED <<tags, moves, entries, locks, package, faults, results, used>>
  BY DEF Pull
<1>3. Root \in Sources /\ tag \in Versions  BY LockAssumption DEF Versions
<1>. QED  BY <1>1, <1>2, <1>3, BeginNext

\* The lock of a package that was returned pins what the package declares.
LEMMA PinnedByPackage ==
  ASSUME IInv, NEW p \in Procs, package[p] # NoPackage,
         NEW d \in Manifest[<<Root, entries[<<Root, package[p].commit>>]>>]
  PROVE  package[p].lock[d.source] \in Commits
<1>. HIDE DEF NoPackage
<1>1. /\ package[p] \in results /\ package[p].source = Root
      /\ ResultInv(package[p], entries, results)
  BY DEF IInv, UseInv, ResultsInv
<1>2. Entry(package[p]) = <<Root, package[p].commit>>  BY <1>1 DEF Entry
<1>3. Pulled(d, package[p].lock, results)  BY <1>1, <1>2 DEF ResultInv
<1>. QED  BY <1>3 DEF IInv, TypeOK, Pulled, Package

LEMMA UseNext ==
  ASSUME IInv, NEW p \in Procs, NEW d \in Dependency, Use(p, d)  PROVE IInv'
<1>. HIDE DEF NoPackage
<1>1. /\ stack[p] = <<>> /\ package[p] # NoPackage
      /\ d \in Manifest[<<Root, entries[<<Root, package[p].commit>>]>>]
      /\ UNCHANGED <<tags, moves, entries, locks, package, faults, results, used>>
  BY DEF Use
<1>2. package[p].lock[d.source] \in Commits  BY <1>1, PinnedByPackage
<1>3. DependencyVersion(p, d) = package[p].lock[d.source]
  BY <1>2, LockAssumption DEF DependencyVersion, PinnedVersion
<1>4. /\ d.source \in Sources /\ d.version \in Tags
      /\ <<d.source, d.version>> \in Published
  BY DEF Dependency
<1>5. CASE stack' = [stack EXCEPT ![p] =
                      <<Resolved(d.source, DependencyVersion(p, d), "dependency")>>]
  <2>1. package[p].lock[d.source] \in Versions /\ package[p].lock[d.source] \notin Tags
    BY <1>2, LockAssumption DEF Versions
  <2>2. stack' = [stack EXCEPT ![p] =
                   <<Resolved(d.source, package[p].lock[d.source], "dependency")>>]
    BY <1>3, <1>5
  <2>. QED  BY <1>1, <1>2, <1>4, <2>1, <2>2, BeginNext
<1>6. CASE stack' = [stack EXCEPT ![p] =
                      <<Resolved(d.source, ComponentVersion(p, d), "component")>>]
  <2>1. d.version \in Versions  BY <1>4 DEF Versions
  <2>2. stack' = [stack EXCEPT ![p] = <<Resolved(d.source, d.version, "component")>>]
    BY <1>6 DEF ComponentVersion
  <2>. QED  BY <1>1, <1>4, <2>1, <2>2, BeginNext
<1>. QED  BY <1>5, <1>6 DEF Use

LEMMA StopsNext == ASSUME IInv, NEW p \in Procs, Stops(p)  PROVE IInv'
<1>1. /\ Abandon(p) /\ UNCHANGED <<tags, moves, entries, locks, results, used>>
      /\ faults' \in 0..MaxFaults
  BY LockAssumption DEF Stops, IInv, TypeOK
<1>2. /\ stack' \in [Procs -> Seq(Frame)] /\ package' \in [Procs -> Package \cup {NoPackage}]
      /\ CallsInv' /\ ResultsInv' /\ UseInv'
  BY <1>1, AbandonNext
<1>. QED  BY <1>1, <1>2 DEF IInv, TypeOK, DependenciesFollowLock

LEMMA EndsNext ==
  ASSUME IInv, NEW p \in Procs,
         CommandEnds(p) \/ \E d \in Dependency : CircularDependency(p, d)
  PROVE  IInv'
<1>1. Abandon(p) /\ UNCHANGED <<tags, moves, entries, locks, faults, results, used>>
  BY DEF CommandEnds, CircularDependency
<1>2. /\ stack' \in [Procs -> Seq(Frame)] /\ package' \in [Procs -> Package \cup {NoPackage}]
      /\ CallsInv' /\ ResultsInv' /\ UseInv'
  BY <1>1, AbandonNext
<1>. QED  BY <1>1, <1>2 DEF IInv, TypeOK, DependenciesFollowLock

\* The innermost call goes on by itself.
LEMMA BecomeNext ==
  ASSUME IInv, NEW p \in Procs, stack[p] # <<>>, NEW f \in Frame, Become(p, f),
         f.source = Top(p).source, f.commit = Top(p).commit, f.caller = Top(p).caller,
         f.version = Top(p).version,
         f.at = "save" => f.changed /\ f.todo = {}, f.at # "fetch",
         entries'[Entry(f)] # Unpinned, f.todo \subseteq Declared(f, entries'),
         \A d \in Declared(f, entries') \ f.todo : Pulled(d, f.lock, results),
         Grown(entries, entries', results, results'), UNCHANGED <<package, results>>
  PROVE  stack' \in [Procs -> Seq(Frame)] /\ CallsInv' /\ ResultsInv' /\ UseInv'
<1>. DEFINE s == stack[p]
            t == Append(Front(s), f)
<1>1. /\ s \in Seq(Frame) /\ Len(s) \in Nat \ {0} /\ Top(p) = s[Len(s)] /\ Last(s) = Top(p)
      /\ FrameInv(s, Len(s), entries, results)
  BY TopFacts DEF Top
<1>. HIDE DEF Frame
<1>2. t \in Seq(Frame) /\ Len(t) = Len(s) /\ t[Len(s)] = f
  BY ONLY <1>1, s # <<>>, f \in Frame, LastReplaced
<1>3. /\ stack' \in [Procs -> Seq(Frame)] /\ stack'[p] = t
      /\ \A q \in Procs \ {p} : stack'[q] = stack[q]
  <2>1. stack \in [Procs -> Seq(Frame)] /\ stack' = [stack EXCEPT ![p] = t]
    BY DEF IInv, TypeOK, Become
  <2>. HIDE DEF t
  <2>. QED  BY ONLY <1>2, <2>1, p \in Procs
<1>4. FrameInv(t, Len(s), entries', results')
  <2>1. f.version \in Tags => <<f.source, f.version>> \in Published
    BY <1>1 DEF FrameInv
  <2>. HIDE DEF t
  <2>. QED  BY <1>2, <2>1 DEF FrameInv
<1>5. StackInv(stack'[p], entries', results')
  <2>1. StackInv(s, entries, results)  BY DEF IInv, CallsInv
  <2>2. f.source = Last(s).source /\ f.commit = Last(s).commit  BY <1>1
  <2>3. \A x : x = t => FrameInv(x, Len(s), entries', results')  BY <1>4
  <2>. HIDE DEF s
  <2>4. \A x : x = t => StackInv(x, entries', results')
    BY ONLY <1>1, s # <<>>, f \in Frame, <2>1, <2>2, <2>3, StackReplaced,
            Grown(entries, entries', results, results')
  <2>. QED  BY <1>3, <2>4
<1>6. CallsInv' /\ ResultsInv'  BY <1>3, <1>5, StepOf
<1>7. t[1].source = s[1].source /\ t[1].commit = s[1].commit /\ t[1].caller = s[1].caller
  BY <1>1, FirstReplaced
<1>8. UseInv'
  <2>. HIDE DEF t
  <2>. QED  BY <1>3, <1>7, UseKept
<1>. QED  BY <1>3, <1>6, <1>8

LEMMA FetchNext == ASSUME IInv, NEW p \in Procs, Fetch(p)  PROVE IInv'
<1>. DEFINE f == Top(p)
            e == Entry(f)
            content == Content(f)
            lock == IF entries[e] # Unpinned THEN locks[e] ELSE Shipped[<<f.source, content>>]
            g == [f EXCEPT !.at = "deps", !.lock = lock,
                           !.todo = Manifest[<<f.source, content>>]]
<1>1. /\ stack[p] # <<>> /\ f.at = "fetch"
      /\ entries' = [entries EXCEPT ![e] = content]
      /\ locks' = [locks EXCEPT ![e] = lock]
      /\ Become(p, g)
      /\ UNCHANGED <<tags, moves, package, faults, results, used>>
  BY DEF Fetch, Running
<1>2. f \in Frame /\ FrameInv(stack[p], Len(stack[p]), entries, results)
      /\ f = stack[p][Len(stack[p])]
  BY <1>1, TopFacts
<1>3. /\ f.source \in Sources /\ f.commit \in Commits /\ e \in Sources \X Commits
      /\ f.version \in Versions /\ (f.version \in Tags => <<f.source, f.version>> \in Published)
      /\ e = <<f.source, f.commit>>
  BY <1>2 DEF Frame, FrameInv, Entry
<1>4. /\ entries \in [Sources \X Commits -> Pins] /\ locks \in [Sources \X Commits -> Lock]
      /\ tags \in [Published -> Commits]
  BY DEF IInv, TypeOK
<1>5. content \in Commits
  <2>1. CommitOf(f.source, f.version) \in Commits
    BY <1>3, <1>4 DEF CommitOf, Versions
  <2>2. entries[e] \in Commits \cup {Unpinned}  BY <1>3, <1>4 DEF Pins
  <2>. QED  BY <2>1, <2>2 DEF Content
<1>6. lock \in Lock /\ Manifest[<<f.source, content>>] \subseteq Dependency
  <2>1. <<f.source, content>> \in Sources \X Commits  BY <1>3, <1>5
  <2>. QED  BY <1>3, <1>4, <2>1, LockAssumption
<1>7. g \in Frame  BY <1>2, <1>6 DEF Frame
<1>8. /\ g.source = f.source /\ g.commit = f.commit /\ g.caller = f.caller
      /\ g.version = f.version /\ g.at = "deps" /\ g.todo = Manifest[<<f.source, content>>]
  BY <1>2 DEF Frame
<1>9. Entry(g) = e  BY <1>8 DEF Entry
<1>. HIDE DEF Frame, g, lock
<1>10. /\ entries'[e] = content /\ entries' \in [Sources \X Commits -> Pins]
       /\ locks' \in [Sources \X Commits -> Lock]
  <2>. HIDE DEF e, content
  <2>. QED  BY <1>1, <1>3, <1>4, <1>5, <1>6 DEF Pins
<1>11. Declared(g, entries') = g.todo  BY <1>8, <1>9, <1>10 DEF Declared
<1>12. Grown(entries, entries', results, results')
  <2>1. entries[e] # Unpinned => content = entries[e]  BY DEF Content
  <2>. HIDE DEF e, content
  <2>. QED  BY <1>1, <1>3, <1>4, <2>1 DEF Grown
<1>13. content # Unpinned  BY <1>5, LockAssumption
<1>14. stack' \in [Procs -> Seq(Frame)] /\ CallsInv' /\ ResultsInv' /\ UseInv'
  <2>. HIDE DEF e, content, f
  <2>1. stack[p] # <<>> /\ Become(p, g) /\ package' = package /\ results' = results
    BY <1>1
  <2>2. /\ g.at # "fetch" /\ g.at # "save" /\ entries'[Entry(g)] # Unpinned
        /\ g.todo \subseteq Declared(g, entries')
        /\ \A d \in Declared(g, entries') \ g.todo : Pulled(d, g.lock, results)
    BY <1>8, <1>9, <1>10, <1>11, <1>13
  <2>3. /\ g.source = Top(p).source /\ g.commit = Top(p).commit
        /\ g.caller = Top(p).caller /\ g.version = Top(p).version
    BY <1>8 DEF f
  <2>. QED  BY <1>7, <1>12, <2>1, <2>2, <2>3, BecomeNext
<1>15. TypeOK'
  <2>. HIDE DEF e, content, f
  <2>. QED  BY <1>1, <1>10, <1>14 DEF IInv, TypeOK
<1>. QED  BY <1>1, <1>14, <1>15 DEF IInv, DependenciesFollowLock

\* The lock is written in two steps, and the call goes on in between.
LEMMA SaveNext == ASSUME IInv, NEW p \in Procs, TruncateLock(p) \/ SaveLock(p)  PROVE IInv'
<1>. DEFINE f == Top(p)
            g == [f EXCEPT !.at = "save"]
            h == [f EXCEPT !.at = "deps", !.changed = FALSE]
<1>1. /\ stack[p] # <<>> /\ f.at \in {"deps", "save"}
      /\ UNCHANGED <<tags, moves, entries, package, faults, results, used>>
      /\ (Become(p, g) /\ f.todo = {} /\ f.changed) \/ Become(p, h)
  BY DEF TruncateLock, SaveLock, Running
<1>2. /\ f \in Frame /\ FrameInv(stack[p], Len(stack[p]), entries, results)
      /\ f = stack[p][Len(stack[p])]
  BY <1>1, TopFacts
<1>3. /\ f.lock \in Lock /\ Entry(f) \in Sources \X Commits /\ NoLock \in Lock
  BY <1>2 DEF Frame, Entry, NoLock, Lock, Pins
<1>4. locks' \in [Sources \X Commits -> Lock]
  <2>1. locks \in [Sources \X Commits -> Lock]  BY DEF IInv, TypeOK
  <2>2. \E lock \in Lock : locks' = [locks EXCEPT ![Entry(f)] = lock]
    BY <1>3 DEF TruncateLock, SaveLock
  <2>. HIDE DEF f, Lock
  <2>. QED  BY <1>3, <2>1, <2>2
<1>5. /\ g \in Frame /\ g.source = f.source /\ g.commit = f.commit /\ g.caller = f.caller
      /\ g.version = f.version /\ g.at = "save" /\ g.todo = f.todo /\ g.lock = f.lock
      /\ g.changed = f.changed
      /\ h \in Frame /\ h.source = f.source /\ h.commit = f.commit /\ h.caller = f.caller
      /\ h.version = f.version /\ h.at = "deps" /\ h.todo = f.todo /\ h.lock = f.lock
  BY <1>2 DEF Frame
<1>6. /\ entries[Entry(f)] # Unpinned /\ f.todo \subseteq Declared(f, entries)
      /\ \A d \in Declared(f, entries) \ f.todo : Pulled(d, f.lock, results)
  <2>. HIDE DEF f
  <2>1. f.at # "fetch"  BY <1>1
  <2>. QED  BY <1>2, <2>1 DEF FrameInv
<1>7. /\ Entry(g) = Entry(f) /\ Declared(g, entries) = Declared(f, entries)
      /\ Entry(h) = Entry(f) /\ Declared(h, entries) = Declared(f, entries)
  BY <1>5 DEF Entry, Declared
<1>. HIDE DEF Frame, g, h
<1>8. Grown(entries, entries', results, results') /\ entries' = entries  BY <1>1 DEF Grown
<1>9. stack' \in [Procs -> Seq(Frame)] /\ CallsInv' /\ ResultsInv' /\ UseInv'
  <2>1. CASE Become(p, g) /\ f.todo = {} /\ f.changed
    BY <1>1, <1>5, <1>6, <1>7, <1>8, <2>1, BecomeNext
  <2>2. CASE Become(p, h)
    BY <1>1, <1>5, <1>6, <1>7, <1>8, <2>2, BecomeNext
  <2>. QED  BY <1>1, <2>1, <2>2
<1>10. TypeOK'
  <2>. HIDE DEF f
  <2>. QED  BY <1>1, <1>4, <1>9 DEF IInv, TypeOK
<1>. QED  BY <1>1, <1>9, <1>10 DEF IInv, DependenciesFollowLock

LEMMA PullDependencyNext ==
  ASSUME IInv, NEW p \in Procs, NEW d \in Dependency, PullDependency(p, d)  PROVE IInv'
<1>. DEFINE s == stack[p]
            n == Len(s)
            c == Top(p)
            version == PinnedVersion(d, c.lock)
            f == [c EXCEPT !.todo = @ \ {d}]
            g == Resolved(d.source, version, "pull")
            t == Front(s) \o <<f, g>>
<1>1. /\ s # <<>> /\ c.at = "deps" /\ d \in c.todo /\ d.source \notin Seen(p)
      /\ stack' = [stack EXCEPT ![p] = t]
      /\ UNCHANGED <<tags, moves, entries, locks, package, faults, results, used>>
  BY DEF PullDependency, Running, NotCircular
<1>2. /\ s \in Seq(Frame) /\ n \in Nat \ {0} /\ c = s[n] /\ c = Last(s) /\ c \in Frame
      /\ FrameInv(s, n, entries, results) /\ StackInv(s, entries, results)
  BY <1>1, TopFacts DEF Top, IInv, CallsInv
<1>3. /\ d.source \in Sources /\ d.version \in Tags /\ <<d.source, d.version>> \in Published
  BY DEF Dependency
<1>4. /\ c.lock[d.source] \in Pins
      /\ c.lock[d.source] # Unpinned => version = c.lock[d.source] /\ version \in Commits
      /\ c.lock[d.source] = Unpinned => version = d.version
  BY <1>2, <1>3 DEF Frame, Lock, Pins, PinnedVersion
<1>5. version \in Versions /\ (version \in Tags => <<d.source, version>> \in Published)
  BY <1>3, <1>4, LockAssumption DEF Versions
<1>6. g \in Frame
  <2>. HIDE DEF version, Frame
  <2>. QED  BY <1>3, <1>5, CallBegins DEF IInv
<1>7. /\ g.source = d.source /\ g.version = version /\ g.at = "fetch" /\ ~g.changed
      /\ c.lock[d.source] # Unpinned => g.commit = c.lock[d.source]
  BY <1>4 DEF Resolved, CommitOf
<1>8. /\ f \in Frame /\ f.source = c.source /\ f.commit = c.commit /\ f.caller = c.caller
      /\ f.version = c.version /\ f.at = "deps" /\ f.lock = c.lock /\ f.todo = c.todo \ {d}
  <2>. HIDE DEF c
  <2>. QED  BY <1>1, <1>2 DEF Frame
<1>. HIDE DEF Frame, f, g, c
<1>9. t \in Seq(Frame) /\ Len(t) = n + 1 /\ t[n] = f /\ t[n + 1] = g
  <2>1. s \in Seq(Frame) /\ s # <<>> /\ f \in Frame /\ g \in Frame  BY <1>1, <1>2, <1>6, <1>8
  <2>. HIDE DEF s
  <2>. QED  BY ONLY <2>1, CallPushed DEF n
<1>. HIDE DEF t, version
<1>10. FrameInv(t, n, entries, results)
  <2>1. Entry(f) = Entry(c) /\ Declared(f, entries) = Declared(c, entries)
    BY <1>8 DEF Entry, Declared
  <2>2. n # Len(t)  BY <1>2, <1>9
  <2>3. /\ c.version \in Tags => <<c.source, c.version>> \in Published
        /\ entries[Entry(c)] # Unpinned
        /\ c.todo \subseteq Declared(c, entries)
        /\ \A x \in Declared(c, entries) \ c.todo : Pulled(x, c.lock, results)
    BY <1>1, <1>2 DEF FrameInv
  <2>4. \A x \in Declared(f, entries) \ f.todo :
          Pulled(x, f.lock, results) \/ t[n + 1].source = x.source
    BY <1>7, <1>8, <1>9, <2>1, <2>3
  <2>5. \E x \in Declared(f, entries) : x.source = t[n + 1].source
    BY <1>1, <1>7, <1>9, <2>1, <2>3
  <2>6. f.lock[t[n + 1].source] \in {Unpinned, t[n + 1].commit}
    BY <1>7, <1>8, <1>9
  <2>7. f.todo \subseteq Declared(f, entries)  BY <1>8, <2>1, <2>3
  <2>8. t[n].at = "deps"  BY <1>8, <1>9
  <2>9. /\ t[n].version \in Tags => <<t[n].source, t[n].version>> \in Published
        /\ entries[Entry(t[n])] # Unpinned
    BY <1>8, <1>9, <2>1, <2>3
  <2>. QED  BY <1>9, <2>2, <2>4, <2>5, <2>6, <2>7, <2>8, <2>9 DEF FrameInv
<1>11. FrameInv(t, n + 1, entries, results)
  BY <1>5, <1>7, <1>9 DEF FrameInv
<1>12. \A i \in 1..n : g.source # s[i].source
  <2>1. DOMAIN s = 1..n  BY ONLY <1>2, LenProperties
  <2>. QED  BY <1>1, <1>7, <2>1 DEF Seen
<1>13. Grown(entries, entries, results, results)  BY DEF Grown
<1>14. StackInv(t, entries, results)
  <2>1. f.source = Last(s).source /\ f.commit = Last(s).commit  BY <1>2, <1>8
  <2>2. t = Front(s) \o <<f, g>>  BY DEF t
  <2>3. s \in Seq(Frame) /\ s # <<>> /\ f \in Frame /\ g \in Frame  BY <1>1, <1>2, <1>6, <1>8
  <2>. HIDE DEF s
  <2>4. /\ FrameInv(t, Len(s), entries, results)
        /\ FrameInv(t, Len(s) + 1, entries, results)
        /\ \A i \in 1..Len(s) : g.source # s[i].source
        /\ StackInv(s, entries, results)
    BY <1>2, <1>10, <1>11, <1>12
  <2>. QED  BY ONLY <2>1, <2>2, <2>3, <2>4, <1>13, StackPushed
<1>15. /\ stack' \in [Procs -> Seq(Frame)] /\ stack'[p] = t
       /\ \A q \in Procs \ {p} : stack'[q] = stack[q]
  <2>1. stack \in [Procs -> Seq(Frame)]  BY DEF IInv, TypeOK
  <2>. QED  BY ONLY <1>1, <1>9, <2>1, p \in Procs
<1>16. CallsInv' /\ ResultsInv'
  BY <1>1, <1>13, <1>14, <1>15, StepOf
<1>17. t[1].source = s[1].source /\ t[1].commit = s[1].commit /\ t[1].caller = s[1].caller
  <2>1. f.source = Last(s).source /\ f.commit = Last(s).commit /\ f.caller = Last(s).caller
    BY <1>2, <1>8
  <2>2. t = Front(s) \o <<f, g>>  BY DEF t
  <2>. QED  BY ONLY <1>1, <1>2, <1>6, <1>8, <2>1, <2>2, FirstPushed
<1>18. UseInv'  BY <1>1, <1>15, <1>17, UseKept
<1>19. TypeOK'  BY <1>1, <1>15 DEF IInv, TypeOK
<1>. QED  BY <1>1, <1>16, <1>18, <1>19 DEF IInv, DependenciesFollowLock

\* What a call returns pins what it declares.
LEMMA ReturnedFacts ==
  ASSUME IInv, NEW p \in Procs, Returning(p), results' = results \cup {Returned(Top(p))},
         entries' = entries
  PROVE  /\ Returned(Top(p)) \in Package
         /\ ResultInv(Returned(Top(p)), entries', results')
         /\ Grown(entries, entries', results, results')
<1>. DEFINE f == Top(p)
            r == Returned(f)
<1>1. stack[p] # <<>> /\ f.at = "deps" /\ f.todo = {}  BY DEF Returning, Running
<1>2. f \in Frame /\ FrameInv(stack[p], Len(stack[p]), entries, results)
      /\ f = stack[p][Len(stack[p])]
  BY <1>1, TopFacts
<1>3. r \in Package  BY <1>2 DEF Frame, Returned, Package
<1>4. Entry(r) = Entry(f) /\ r.source = f.source /\ r.lock = f.lock  BY DEF Returned, Entry
<1>. HIDE DEF f, r, Frame
<1>5. /\ entries[Entry(f)] # Unpinned
      /\ \A d \in Declared(f, entries) : Pulled(d, f.lock, results)
  BY <1>1, <1>2 DEF FrameInv
<1>6. Grown(entries, entries', results, results')  BY DEF Grown
<1>7. \A d : Pulled(d, f.lock, results) => Pulled(d, f.lock, results')
  BY <1>6 DEF Pulled, Grown
<1>8. ResultInv(r, entries', results')
  BY <1>4, <1>5, <1>7 DEF ResultInv, Declared
<1>. QED  BY <1>3, <1>6, <1>8 DEF f, r

LEMMA ReturnDependencyNext ==
  ASSUME IInv, NEW p \in Procs, ReturnDependency(p)  PROVE IInv'
<1>. DEFINE s == stack[p]
            n == Len(s)
            f == Top(p)
            c == Last(Front(s))
            g == Pin(c, f)
            t == Append(Front(Front(s)), g)
<1>1. /\ s # <<>> /\ n > 1 /\ Returning(p) /\ f.at = "deps" /\ f.todo = {}
      /\ stack' = [stack EXCEPT ![p] = t] /\ results' = results \cup {Returned(f)}
      /\ UNCHANGED <<tags, moves, entries, locks, package, faults, used>>
  BY DEF ReturnDependency, Returning, Running
<1>2. /\ s \in Seq(Frame) /\ n \in Nat \ {0} /\ f = s[n] /\ f \in Frame
      /\ FrameInv(s, n, entries, results) /\ StackInv(s, entries, results)
  BY <1>1, TopFacts DEF IInv, CallsInv
<1>3. /\ Returned(f) \in Package
      /\ ResultInv(Returned(f), entries', results')
      /\ Grown(entries, entries', results, results')
  BY <1>1, ReturnedFacts
<1>4. c \in Frame /\ c = s[n - 1]
  <2>. HIDE DEF Frame
  <2>. QED  BY ONLY <1>1, <1>2, LastPopped
<1>5. n - 1 \in 1..n /\ n - 1 # n /\ (n - 1) + 1 = n
  <2>. HIDE DEF n
  <2>. QED  BY ONLY <1>1, <1>2
<1>. DEFINE m == n - 1
<1>6. FrameInv(s, m, entries, results)  BY <1>2, <1>5 DEF StackInv
<1>7. /\ c.at \in {"fetch", "deps", "save"} /\ c.lock \in Lock /\ f.source \in Sources
      /\ f.commit \in Commits
  BY <1>2, <1>4 DEF Frame
<1>. HIDE DEF Frame
<1>8. /\ c.version \in Tags => <<c.source, c.version>> \in Published
      /\ c.at = "deps" /\ entries[Entry(c)] # Unpinned
      /\ c.todo \subseteq Declared(c, entries)
      /\ \A d \in Declared(c, entries) \ c.todo :
           Pulled(d, c.lock, results) \/ f.source = d.source
      /\ c.lock[f.source] \in {Unpinned, f.commit}
  <2>. HIDE DEF f, c, n
  <2>1. m # Len(s) /\ s[m] = c /\ s[m + 1] = f  BY <1>2, <1>4, <1>5 DEF n
  <2>. QED  BY <1>6, <1>7, <2>1 DEF FrameInv
<1>9. /\ g \in Frame /\ g.source = c.source /\ g.commit = c.commit /\ g.caller = c.caller
      /\ g.version = c.version /\ g.at = c.at /\ g.todo = c.todo
      /\ g.lock = [c.lock EXCEPT ![f.source] = f.commit]
  <2>1. CASE c.lock[f.source] = Unpinned
    <3>1. [c.lock EXCEPT ![f.source] = f.commit] \in Lock  BY <1>7 DEF Lock, Pins
    <3>2. g = [c EXCEPT !.lock = [c.lock EXCEPT ![f.source] = f.commit], !.changed = TRUE]
      BY <2>1 DEF Pin
    <3>. HIDE DEF c, f, g, Lock
    <3>. QED  BY <1>4, <3>1, <3>2 DEF Frame
  <2>2. CASE c.lock[f.source] # Unpinned
    <3>1. g = c /\ c.lock[f.source] = f.commit  BY <1>8, <2>2 DEF Pin
    <3>2. c.lock = [c.lock EXCEPT ![f.source] = f.commit]  BY <1>7, <3>1 DEF Lock
    <3>. HIDE DEF c, f, g
    <3>. QED  BY <1>4, <3>1, <3>2
  <2>. QED  BY <2>1, <2>2
<1>. HIDE DEF f, c, g
<1>10. Entry(g) = Entry(c) /\ Declared(g, entries) = Declared(c, entries)
  BY <1>9 DEF Entry, Declared
<1>11. Declared(c, entries) \subseteq Dependency
  <2>1. entries[Entry(c)] \in Commits /\ c.source \in Sources
    BY <1>4, <1>8 DEF IInv, TypeOK, Frame, Entry, Pins
  <2>2. <<c.source, entries[Entry(c)]>> \in Sources \X Commits  BY <2>1
  <2>. QED  BY <2>2, LockAssumption DEF Declared
<1>12. ASSUME NEW d \in Declared(g, entries) \ g.todo  PROVE Pulled(d, g.lock, results')
  <2>0. d \in Declared(c, entries) \ c.todo /\ d \in Dependency  BY <1>9, <1>10, <1>11
  <2>1. d \in Declared(c, entries) \ c.todo /\ d.source \in Sources
    BY <2>0 DEF Dependency
  <2>2. CASE f.source = d.source
    <3>1. g.lock[d.source] = f.commit  BY <1>7, <1>9, <2>2 DEF Lock
    <3>2. Returned(f).source = f.source /\ Returned(f).commit = f.commit  BY DEF Returned
    <3>. QED  BY <1>1, <2>2, <3>1, <3>2 DEF Pulled
  <2>3. CASE f.source # d.source
    <3>1. g.lock[d.source] = c.lock[d.source]  BY <1>7, <1>9, <2>1, <2>3 DEF Lock
    <3>2. Pulled(d, c.lock, results)  BY <1>8, <2>1, <2>3
    <3>. QED  BY <1>1, <3>1, <3>2 DEF Pulled
  <2>. QED  BY <2>2, <2>3
<1>13. t \in Seq(Frame) /\ Len(t) = m /\ t[m] = g
  <2>1. s \in Seq(Frame) /\ Len(s) > 1 /\ g \in Frame  BY <1>1, <1>2, <1>9
  <2>. HIDE DEF s
  <2>. QED  BY ONLY <2>1, LastPopped DEF m, n
<1>. HIDE DEF t
<1>14. FrameInv(t, m, entries', results')
  <2>1. t[m].at = "deps" /\ (t[m].version \in Tags => <<t[m].source, t[m].version>> \in Published)
    BY <1>8, <1>9, <1>13
  <2>2. entries[Entry(t[m])] # Unpinned /\ t[m].todo \subseteq Declared(t[m], entries)
    BY <1>8, <1>9, <1>10, <1>13
  <2>3. \A d \in Declared(t[m], entries) \ t[m].todo : Pulled(d, t[m].lock, results')
    BY <1>12, <1>13
  <2>. HIDE DEF m
  <2>. QED  BY <1>1, <1>13, <2>1, <2>2, <2>3 DEF FrameInv
<1>15. StackInv(t, entries', results')
  <2>1. g.source = Last(Front(s)).source /\ g.commit = Last(Front(s)).commit
    BY <1>9 DEF c
  <2>2. t = Append(Front(Front(s)), g)  BY DEF t
  <2>3. \A x : x = t => FrameInv(x, Len(s) - 1, entries', results')  BY <1>14
  <2>. HIDE DEF s
  <2>4. \A x : x = t => StackInv(x, entries', results')
    BY ONLY <1>1, <1>2, <1>3, <1>9, <2>1, <2>2, <2>3, StackPopped
  <2>. QED  BY <2>4
<1>16. /\ stack' \in [Procs -> Seq(Frame)] /\ stack'[p] = t
       /\ \A q \in Procs \ {p} : stack'[q] = stack[q]
  <2>1. stack \in [Procs -> Seq(Frame)]  BY DEF IInv, TypeOK
  <2>. QED  BY ONLY <1>1, <1>13, <2>1, p \in Procs
<1>17. CallsInv' /\ ResultsInv'
  BY <1>1, <1>3, <1>15, <1>16, StepOf
<1>18. t[1].source = s[1].source /\ t[1].commit = s[1].commit /\ t[1].caller = s[1].caller
  <2>1. /\ g.source = Last(Front(s)).source /\ g.commit = Last(Front(s)).commit
        /\ g.caller = Last(Front(s)).caller
    BY <1>9 DEF c
  <2>2. t = Append(Front(Front(s)), g)  BY DEF t
  <2>. QED  BY ONLY <1>1, <1>2, <1>9, <2>1, <2>2, FirstPopped
<1>19. UseInv'  BY <1>1, <1>16, <1>18, UseKept
<1>20. TypeOK'  BY <1>1, <1>3, <1>16 DEF IInv, TypeOK
<1>. QED  BY <1>1, <1>17, <1>19, <1>20 DEF IInv, DependenciesFollowLock

\* A package that is returned to the command, which uses it or has asked for
\* it in the course of using another one.
LEMMA ReturnNext ==
  ASSUME IInv, NEW p \in Procs, ReturnPackage(p) \/ ReturnUsed(p)  PROVE IInv'
<1>. DEFINE s == stack[p]
            f == Top(p)
            r == Returned(f)
<1>1. /\ s # <<>> /\ Len(s) = 1 /\ Returning(p)
      /\ stack' = [stack EXCEPT ![p] = <<>>] /\ results' = results \cup {r}
      /\ UNCHANGED <<tags, moves, entries, locks, faults>>
  BY DEF ReturnPackage, ReturnUsed, Returning, Running
<1>2. f \in Frame /\ f = s[1]  BY <1>1, TopFacts
<1>3. /\ r \in Package /\ ResultInv(r, entries', results')
      /\ Grown(entries, entries', results, results')
  BY <1>1, ReturnedFacts
<1>4. /\ r.source = f.source /\ r.commit = f.commit /\ r.lock = f.lock
      /\ f.caller \in {"pull", "dependency", "component"} /\ f.commit \in Commits
      /\ f.source \in Sources
  BY <1>2 DEF Returned, Frame
<1>5. /\ f.caller = "pull" <=> package[p] = NoPackage
      /\ f.caller = "pull" => f.source = Root
      /\ f.caller = "dependency" => f.commit = package[p].lock[f.source]
  BY <1>1, <1>2 DEF IInv, UseInv, NoPackage, NoLock
<1>. HIDE DEF Frame, f, r
<1>6. /\ stack' \in [Procs -> Seq(Frame)] /\ stack'[p] = <<>>
      /\ \A q \in Procs \ {p} : stack'[q] = stack[q]
  <2>1. stack \in [Procs -> Seq(Frame)] /\ <<>> \in Seq(Frame)
    BY EmptySeq DEF IInv, TypeOK
  <2>. QED  BY <1>1, <2>1
<1>7. CallsInv' /\ ResultsInv'
  <2>1. Len(stack'[p]) = 0  BY <1>6
  <2>2. StackInv(stack'[p], entries', results')  BY <2>1 DEF StackInv
  <2>. QED  BY <1>1, <1>3, <1>6, <2>2, StepOf
<1>8. package \in [Procs -> Package \cup {NoPackage}] /\ results \subseteq Package
      /\ used \subseteq [caller : {"dependency", "component"}, commit : Commits, pin : Pins]
  BY DEF IInv, TypeOK
<1>9. NoPackage' = NoPackage  BY DEF NoPackage, NoLock
<1>10. CASE ReturnPackage(p)
  <2>1. package[p] = NoPackage /\ package' = [package EXCEPT ![p] = r] /\ used' = used
    BY <1>10 DEF ReturnPackage, f, r
  <2>2. package' \in [Procs -> Package \cup {NoPackage}] /\ package'[p] = r
        /\ \A q \in Procs \ {p} : package'[q] = package[q]
    BY <1>3, <1>8, <2>1
  <2>3. r.source = Root /\ r \in results'  BY <1>1, <1>4, <1>5, <2>1
  <2>4. UseInv'
    <3>. HIDE DEF NoPackage
    <3>. QED  BY <1>1, <1>6, <1>9, <2>2, <2>3 DEF IInv, UseInv
  <2>5. TypeOK'  BY <1>1, <1>3, <1>6, <2>1, <2>2 DEF IInv, TypeOK
  <2>. QED  BY <1>7, <2>1, <2>4, <2>5 DEF IInv, DependenciesFollowLock
<1>11. CASE ReturnUsed(p)
  <2>. DEFINE u == [caller |-> f.caller, commit |-> f.commit,
                    pin |-> package[p].lock[f.source]]
  <2>1. package[p] # NoPackage /\ package' = package /\ used' = used \cup {u}
    BY <1>11 DEF ReturnUsed, f
  <2>2. f.caller \in {"dependency", "component"}  BY <1>4, <1>5, <2>1
  <2>3. package[p].lock[f.source] \in Pins
    <3>1. package[p] \in Package  BY <1>8, <2>1
    <3>. QED  BY <1>4, <3>1 DEF Package, Lock
  <2>4. /\ u \in [caller : {"dependency", "component"}, commit : Commits, pin : Pins]
        /\ u.caller = "dependency" => u.commit = u.pin
    BY <1>4, <1>5, <2>2, <2>3
  <2>5. DependenciesFollowLock'
    <3>. HIDE DEF u
    <3>. QED  BY <2>1, <2>4 DEF IInv, DependenciesFollowLock
  <2>6. UseInv'
    <3>1. results \subseteq results'  BY <1>1
    <3>. QED  BY <1>6, <2>1, <3>1, UseKept
  <2>7. TypeOK'
    <3>. HIDE DEF u
    <3>. QED  BY <1>1, <1>3, <1>6, <1>8, <1>9, <2>1, <2>4 DEF IInv, TypeOK
  <2>. QED  BY <1>7, <2>5, <2>6, <2>7 DEF IInv
<1>. QED  BY <1>10, <1>11

LEMMA IInvNext == IInv /\ [Next]_vars => IInv'
<1>. SUFFICES ASSUME IInv, [Next]_vars PROVE IInv'
  OBVIOUS
<1>1. ASSUME NEW p \in Procs, PullStep(p)  PROVE IInv'
  BY <1>1, FetchNext, SaveNext, ReturnDependencyNext, ReturnNext, PullDependencyNext,
     EndsNext DEF PullStep
<1>2. ASSUME NEW p \in Procs, Command(p)  PROVE IInv'
  BY <1>2, PullNext, EndsNext, UseNext DEF Command
<1>3. CASE UNCHANGED vars
  BY <1>3 DEF IInv, TypeOK, CallsInv, ResultsInv, UseInv, DependenciesFollowLock, vars
<1>. QED  BY <1>1, <1>2, <1>3, MoveTagNext, StopsNext DEF Next

LEMMA IInvHolds == Spec => []IInv
BY IInvInit, IInvNext, PTL DEF Spec

\* The variables keep their types, the frames of every pull call included.
THEOREM TypeCorrect == Spec => []TypeOK
<1>1. IInv => TypeOK  BY DEF IInv
<1>. QED  BY <1>1, IInvHolds, PTL

\* Whichever commands run and whatever fails, a package that pull returned
\* pins each dependency it declares, at a commit that pull returned as well
\* (the loop of Resolver.pull over the dependencies).
THEOREM PinsWerePulledHolds == Spec => []PinsWerePulled
<1>1. IInv => PinsWerePulled
  BY DEF IInv, ResultsInv, ResultInv, Pulled, PinsWerePulled
<1>. QED  BY <1>1, IInvHolds, PTL

\* The toolboxes and skills of a run come from the commits its lock pins
\* (ApplyLock), whatever happens to tags and to other commands meanwhile.
THEOREM DependenciesFollowLockHolds == Spec => []DependenciesFollowLock
<1>1. IInv => DependenciesFollowLock  BY DEF IInv
<1>. QED  BY <1>1, IInvHolds, PTL

------------------------------------------------------------------------------
(***************************************************************************)
(* One command at a time.  The lock file of a package that was returned    *)
(* says what was returned, and a call changes the lock of no such package. *)
(***************************************************************************)
FrameHeld(f, L, R) ==
  /\ f.at = "deps" /\ ~f.changed => f.lock = L[Entry(f)]
  /\ f.changed => \A r \in R : Entry(r) # Entry(f)

HeldInv(s, L, R) ==
  /\ \A r \in R : L[Entry(r)] = r.lock
  /\ \A i \in 1..Len(s) : FrameHeld(s[i], L, R)

\* A step that changes the lock of one entry, or returns its package,
\* concerns the call for that entry only.
Concerns(entry, L, L2, R, R2) ==
  /\ \A e \in Sources \X Commits : e # entry => L2[e] = L[e]
  /\ \A r \in R2 : r \in R \/ Entry(r) = entry

LEMMA OthersHeld ==
  ASSUME NEW s \in Seq(Frame), NEW E, NEW R, NEW L, NEW R2, NEW L2,
         StackInv(s, E, R), HeldInv(s, L, R),
         NEW n \in 1..Len(s), NEW i \in 1..Len(s), i # n,
         Concerns(Entry(s[n]), L, L2, R, R2)
  PROVE  FrameHeld(s[i], L2, R2) /\ Entry(s[i]) # Entry(s[n])
<1>1. s[i].source # s[n].source  BY DEF StackInv
<1>2. s[i] \in Frame /\ s[n] \in Frame  BY ElementOfSeq
<1>3. Entry(s[i]) # Entry(s[n])  BY <1>1 DEF Entry
<1>4. Entry(s[i]) \in Sources \X Commits  BY <1>2 DEF Entry, Frame
<1>5. FrameHeld(s[i], L, R)  BY DEF HeldInv
<1>. HIDE DEF Frame
<1>6. L2[Entry(s[i])] = L[Entry(s[i])]  BY <1>3, <1>4 DEF Concerns
<1>. QED  BY <1>3, <1>5, <1>6 DEF FrameHeld, Concerns

\* The innermost call goes on by itself.
LEMMA HeldReplaced ==
  ASSUME NEW s \in Seq(Frame), s # <<>>, NEW f \in Frame, NEW t, t = Append(Front(s), f),
         NEW E, NEW R, NEW L, NEW L2, StackInv(s, E, R), HeldInv(s, L, R),
         \A e \in Sources \X Commits : e # Entry(Last(s)) => L2[e] = L[e],
         \A r \in R : L2[Entry(r)] = L[Entry(r)],
         FrameHeld(f, L2, R)
  PROVE  HeldInv(t, L2, R)
<1>. HIDE DEF Frame
<1>. DEFINE n == Len(s)
<1>1. /\ n \in Nat \ {0} /\ Last(s) = s[n] /\ Len(t) = n /\ t[n] = f
      /\ \A i \in 1..(n - 1) : t[i] = s[i]
  BY LastOf, LastReplaced
<1>2. ASSUME NEW i \in 1..n, i # n  PROVE FrameHeld(t[i], L2, R)
  <2>1. i \in 1..(n - 1) /\ n \in 1..n  BY ONLY <1>1, <1>2
  <2>2. /\ Concerns(Entry(s[n]), L, L2, R, R)
        /\ n \in 1..Len(s) /\ i \in 1..Len(s) /\ i # n
    BY <1>1, <1>2 DEF Concerns
  <2>3. s \in Seq(Frame) /\ StackInv(s, E, R) /\ HeldInv(s, L, R)  OBVIOUS
  <2>. HIDE DEF n
  <2>4. FrameHeld(s[i], L2, R)  BY ONLY <2>2, <2>3, OthersHeld
  <2>. QED  BY <1>1, <2>1, <2>4
<1>. QED  BY <1>1, <1>2 DEF HeldInv

\* The entry of a package that was returned is in the cache, and its lock
\* pins what the package declares.
LEMMA ReturnedPins ==
  ASSUME IInv, NEW r \in results
  PROVE  /\ Entry(r) \in Sources \X Commits /\ entries[Entry(r)] # Unpinned
         /\ \A d \in Manifest[<<r.source, entries[Entry(r)]>>] :
              r.lock[d.source] \in Commits
<1>1. r \in Package /\ ResultInv(r, entries, results)  BY DEF IInv, TypeOK, ResultsInv
<1>2. Entry(r) \in Sources \X Commits  BY <1>1 DEF Package, Entry
<1>3. \A dep \in results : dep.commit \in Commits  BY DEF IInv, TypeOK, Package
<1>. QED  BY <1>1, <1>2, <1>3 DEF ResultInv, Pulled

LEMMA GoesOnHeld ==
  ASSUME IInv, NEW p \in Procs, HeldInv(stack[p], locks, results),
         Fetch(p) \/ TruncateLock(p) \/ SaveLock(p)
  PROVE  HeldInv(stack[p], locks, results)'
<1>. DEFINE s == stack[p]
            f == Top(p)
            e == Entry(f)
<1>1. s # <<>> /\ results' = results
  BY DEF Fetch, TruncateLock, SaveLock, Running
<1>2. /\ s \in Seq(Frame) /\ f \in Frame /\ f = Last(s) /\ f = s[Len(s)]
      /\ Len(s) \in 1..Len(s)
      /\ FrameInv(s, Len(s), entries, results) /\ StackInv(s, entries, results)
  BY <1>1, TopFacts DEF Top, IInv, CallsInv
<1>3. FrameHeld(f, locks, results)  BY <1>2 DEF HeldInv
<1>4. e \in Sources \X Commits  BY <1>2 DEF Entry, Frame
<1>5. locks \in [Sources \X Commits -> Lock]  BY DEF IInv, TypeOK
<1>6. \A r \in results : Entry(r) \in Sources \X Commits /\ entries[Entry(r)] # Unpinned
  BY ReturnedPins
<1>7. stack \in [Procs -> Seq(Frame)]  BY DEF IInv, TypeOK
<1>8. ASSUME NEW g \in Frame, Become(p, g),
             \A x \in Sources \X Commits : x # e => locks'[x] = locks[x],
             locks'[e] = locks[e] \/ (\A r \in results : Entry(r) # e),
             FrameHeld(g, locks', results)
      PROVE  HeldInv(stack[p], locks, results)'
  <2>. HIDE DEF Frame, e
  <2>1. stack'[p] = Append(Front(s), g)  BY <1>7, <1>8 DEF Become
  <2>2. \A r \in results : locks'[Entry(r)] = locks[Entry(r)]
    BY <1>6, <1>8
  <2>3. \A x \in Sources \X Commits : x # Entry(Last(s)) => locks'[x] = locks[x]
    BY <1>2, <1>8 DEF e
  <2>. HIDE DEF s
  <2>4. HeldInv(s, locks, results)  BY DEF s
  <2>5. \A t : t = Append(Front(s), g) => HeldInv(t, locks', results)
    BY ONLY <1>1, <1>2, <1>8, <2>2, <2>3, <2>4, HeldReplaced
  <2>. QED  BY <1>1, <2>1, <2>5
<1>9. CASE Fetch(p)
  <2>. DEFINE content == Content(f)
              lock == IF entries[e] # Unpinned THEN locks[e]
                                               ELSE Shipped[<<f.source, content>>]
              g == [f EXCEPT !.at = "deps", !.lock = lock,
                             !.todo = Manifest[<<f.source, content>>]]
  <2>1. f.at = "fetch" /\ locks' = [locks EXCEPT ![e] = lock] /\ Become(p, g)
    BY <1>9 DEF Fetch, Running
  <2>2. /\ stack' \in [Procs -> Seq(Frame)] /\ g = stack'[p][Len(s)] /\ Len(stack'[p]) = Len(s)
    <3>1. stack' = [stack EXCEPT ![p] = Append(Front(s), g)]  BY <2>1 DEF Become
    <3>2. stack' \in [Procs -> Seq(Frame)]  BY <1>9, FetchNext DEF IInv, TypeOK
    <3>3. stack'[p] = Append(Front(s), g)  BY <1>7, <3>1
    <3>4. Front(s) \in Seq(Frame) /\ Len(Front(s)) = Len(s) - 1 /\ Len(s) \in Nat
      <4>. HIDE DEF Frame
      <4>1. s \in Seq(Frame) /\ s # <<>>  BY <1>1, <1>2
      <4>. QED  BY ONLY <4>1, LastOf
    <3>. HIDE DEF Frame, g, s
    <3>5. Len(Append(Front(s), g)) = Len(s) /\ Append(Front(s), g)[Len(s)] = g
      BY <3>4
    <3>. QED  BY <3>2, <3>3, <3>5
  <2>3. g \in Frame
    <3>. HIDE DEF Frame, g
    <3>1. stack'[p] \in Seq(Frame) /\ Len(s) \in 1..Len(stack'[p])  BY <1>2, <2>2
    <3>. QED  BY <2>2, <3>1, ElementOfSeq
  <2>4. FrameInv(s, Len(s), entries, results) /\ ~f.changed
    <3>. HIDE DEF f
    <3>. QED  BY <1>2, <2>1 DEF FrameInv
  <2>5. g.at = "deps" /\ g.lock = lock /\ Entry(g) = e /\ ~g.changed
    BY <1>2, <2>4 DEF Frame, Entry
  <2>. HIDE DEF g, f, e, lock, Frame
  <2>6. locks'[e] = lock /\ (\A x \in Sources \X Commits : x # e => locks'[x] = locks[x])
    BY <1>4, <1>5, <2>1
  <2>7. FrameHeld(g, locks', results)  BY <2>5, <2>6 DEF FrameHeld
  <2>8. locks'[e] = locks[e] \/ (\A r \in results : Entry(r) # e)
    BY <1>6, <2>6 DEF lock
  <2>. QED  BY <1>8, <2>1, <2>3, <2>6, <2>7, <2>8
<1>10. CASE TruncateLock(p)
  <2>. DEFINE g == [f EXCEPT !.at = "save"]
  <2>1. f.changed /\ locks' = [locks EXCEPT ![e] = NoLock] /\ Become(p, g)
    BY <1>10 DEF TruncateLock
  <2>2. g \in Frame /\ g.at = "save" /\ Entry(g) = e /\ g.changed = f.changed
    BY <1>2 DEF Frame, Entry
  <2>. HIDE DEF g, f, e, Frame
  <2>3. \A r \in results : Entry(r) # e  BY <1>3, <2>1 DEF FrameHeld, e
  <2>4. FrameHeld(g, locks', results)  BY <2>1, <2>2, <2>3 DEF FrameHeld
  <2>5. \A x \in Sources \X Commits : x # e => locks'[x] = locks[x]
    BY <1>4, <1>5, <2>1
  <2>. QED  BY <1>8, <2>1, <2>2, <2>3, <2>4, <2>5
<1>11. CASE SaveLock(p)
  <2>. DEFINE g == [f EXCEPT !.at = "deps", !.changed = FALSE]
  <2>1. f.at = "save" /\ locks' = [locks EXCEPT ![e] = f.lock] /\ Become(p, g)
    BY <1>11 DEF SaveLock, Running
  <2>2. g \in Frame /\ g.at = "deps" /\ Entry(g) = e /\ ~g.changed /\ g.lock = f.lock
    BY <1>2 DEF Frame, Entry
  <2>. HIDE DEF g, f, e, Frame
  <2>3. f.changed  BY <1>2, <2>1 DEF FrameInv
  <2>4. \A r \in results : Entry(r) # e  BY <1>3, <2>3 DEF FrameHeld, e
  <2>5. locks'[e] = f.lock /\ (\A x \in Sources \X Commits : x # e => locks'[x] = locks[x])
    BY <1>4, <1>5, <2>1
  <2>6. FrameHeld(g, locks', results)  BY <2>2, <2>5 DEF FrameHeld
  <2>. QED  BY <1>8, <2>1, <2>2, <2>4, <2>5, <2>6
<1>. QED  BY <1>9, <1>10, <1>11

LEMMA PullDependencyHeld ==
  ASSUME IInv, NEW p \in Procs, HeldInv(stack[p], locks, results),
         NEW d \in Dependency, PullDependency(p, d)
  PROVE  HeldInv(stack[p], locks, results)'
<1>. DEFINE s == stack[p]
            n == Len(s)
            c == Top(p)
            f == [c EXCEPT !.todo = @ \ {d}]
            g == Resolved(d.source, PinnedVersion(d, c.lock), "pull")
            t == Front(s) \o <<f, g>>
<1>1. /\ s # <<>> /\ stack' = [stack EXCEPT ![p] = t] /\ UNCHANGED <<locks, results>>
  BY DEF PullDependency, Running
<1>2. /\ s \in Seq(Frame) /\ c \in Frame /\ c = Last(s) /\ c = s[n] /\ n \in 1..n
      /\ n \in Nat \ {0}
  BY <1>1, TopFacts DEF Top
<1>3. stack' \in [Procs -> Seq(Frame)]
  BY PullDependencyNext DEF IInv, TypeOK
<1>4. stack'[p] = t  BY <1>1 DEF IInv, TypeOK
<1>5. /\ f.at = c.at /\ f.changed = c.changed /\ f.lock = c.lock /\ Entry(f) = Entry(c)
      /\ g.at = "fetch" /\ ~g.changed
  BY <1>2 DEF Resolved, Frame, Entry
<1>. HIDE DEF Frame, f, g, c
<1>6. Len(t) = n + 1 /\ t[n] = f /\ t[n + 1] = g /\ \A i \in 1..(n - 1) : t[i] = s[i]
  <2>. DEFINE S == Frame \cup {f, g}
  <2>1. s \in [1..n -> S] /\ n \in Nat
    <3>1. s \in [1..n -> Frame]  BY <1>2, LenProperties
    <3>. QED  BY <1>2, <3>1
  <2>2. s \in Seq(S)
    <3>. HIDE DEF S, n
    <3>. QED  BY ONLY <2>1
  <2>3. s # <<>> /\ f \in S /\ g \in S  BY <1>1
  <2>. HIDE DEF S, s
  <2>. QED  BY ONLY <2>2, <2>3, CallPushed DEF n
<1>7. ASSUME NEW i \in 1..(n + 1)  PROVE FrameHeld(t[i], locks, results)
  <2>1. i = n + 1 \/ i = n \/ (i \in 1..(n - 1) /\ i \in 1..n)
    <3>. HIDE DEF n
    <3>. QED  BY ONLY <1>2
  <2>2. \A k \in 1..n : FrameHeld(s[k], locks, results)  BY DEF HeldInv
  <2>3. FrameHeld(f, locks, results)  BY <1>2, <1>5, <2>2 DEF FrameHeld
  <2>4. FrameHeld(g, locks, results)  BY <1>5 DEF FrameHeld
  <2>. HIDE DEF t
  <2>. QED  BY <1>6, <2>1, <2>2, <2>3, <2>4
<1>. HIDE DEF t
<1>. QED  BY <1>1, <1>4, <1>6, <1>7 DEF HeldInv

\* When the package a call is for is returned, the caller changes its lock
\* only if no package was returned that has it.
LEMMA ReturnDependencyHeld ==
  ASSUME IInv, NEW p \in Procs, HeldInv(stack[p], locks, results), ReturnDependency(p)
  PROVE  HeldInv(stack[p], locks, results)'
<1>. DEFINE s == stack[p]
            n == Len(s)
            m == n - 1
            f == Top(p)
            c == Last(Front(s))
            g == Pin(c, f)
            t == Append(Front(Front(s)), g)
<1>1. /\ s # <<>> /\ n > 1 /\ f.at = "deps" /\ ~f.changed
      /\ stack' = [stack EXCEPT ![p] = t] /\ results' = results \cup {Returned(f)}
      /\ locks' = locks
  BY DEF ReturnDependency, Returning, Running
<1>2. /\ s \in Seq(Frame) /\ n \in Nat \ {0} /\ f = s[n] /\ f \in Frame
      /\ StackInv(s, entries, results) /\ n \in 1..n
  BY <1>1, TopFacts DEF IInv, CallsInv
<1>3. c \in Frame /\ c = s[m]
  <2>. HIDE DEF Frame
  <2>. QED  BY ONLY <1>1, <1>2, LastPopped
<1>4. m \in 1..n /\ m # n /\ m + 1 = n /\ m \in Nat
  <2>. HIDE DEF n
  <2>. QED  BY ONLY <1>1, <1>2
<1>5. FrameInv(s, m, entries, results)  BY <1>2, <1>4 DEF StackInv
<1>6. c.lock \in Lock /\ f.source \in Sources /\ f.commit \in Commits
      /\ c.at \in {"fetch", "deps", "save"} /\ c.changed \in BOOLEAN
  BY <1>2, <1>3 DEF Frame
<1>7. Entry(Returned(f)) = Entry(f) /\ Returned(f).lock = f.lock  BY DEF Returned, Entry
<1>8. /\ g \in Frame /\ g.at = c.at /\ Entry(g) = Entry(c)
      /\ c.lock[f.source] # Unpinned => g = c
      /\ c.lock[f.source] = Unpinned => g.changed
  <2>1. CASE c.lock[f.source] = Unpinned
    <3>1. [c.lock EXCEPT ![f.source] = f.commit] \in Lock  BY <1>6 DEF Lock, Pins
    <3>2. g = [c EXCEPT !.lock = [c.lock EXCEPT ![f.source] = f.commit], !.changed = TRUE]
      BY <2>1 DEF Pin
    <3>. HIDE DEF c, f, g, Lock
    <3>3. g \in Frame /\ g.at = c.at /\ g.source = c.source /\ g.commit = c.commit /\ g.changed
      BY <1>3, <3>1, <3>2 DEF Frame
    <3>. QED  BY <2>1, <3>3 DEF Entry
  <2>2. CASE c.lock[f.source] # Unpinned
    <3>1. g = c  BY <2>2 DEF Pin
    <3>. HIDE DEF c, f, g
    <3>. QED  BY <1>3, <2>2, <3>1
  <2>. QED  BY <2>1, <2>2
<1>. HIDE DEF Frame, f, g, c
<1>9. /\ c.at = "deps" /\ \E d \in Declared(c, entries) : d.source = f.source
  <2>1. m # Len(s) /\ s[m + 1] = f  BY <1>2, <1>4
  <2>. HIDE DEF s, m, n
  <2>. QED  BY <1>3, <1>5, <1>6, <2>1 DEF FrameInv
<1>10. f.lock = locks[Entry(f)]  BY <1>1, <1>2 DEF HeldInv, FrameHeld
<1>11. \A r \in results' : locks[Entry(r)] = r.lock
  BY <1>1, <1>7, <1>10 DEF HeldInv
<1>12. ASSUME NEW i \in 1..m
       PROVE  FrameHeld(s[i], locks, results') /\ Entry(s[i]) # Entry(f)
  <2>1. i \in 1..n /\ i # n
    <3>. HIDE DEF n
    <3>. QED  BY ONLY <1>4
  <2>2. Concerns(Entry(s[n]), locks, locks, results, results')
    BY <1>1, <1>2, <1>7 DEF Concerns
  <2>3. FrameHeld(s[i], locks, results') /\ Entry(s[i]) # Entry(s[n])
    <3>1. HeldInv(s, locks, results)  OBVIOUS
    <3>. HIDE DEF s
    <3>. QED  BY ONLY <1>2, <2>1, <2>2, <3>1, OthersHeld
  <2>. QED  BY <1>2, <2>3
<1>13. m \in 1..m
  <2>. HIDE DEF n
  <2>. QED  BY ONLY <1>4
<1>14. FrameHeld(c, locks, results') /\ Entry(c) # Entry(f)  BY <1>3, <1>12, <1>13
<1>15. ASSUME c.lock[f.source] = Unpinned, NEW r \in results'  PROVE Entry(r) # Entry(c)
  <2>1. CASE r = Returned(f)  BY <1>7, <1>14, <2>1
  <2>2. CASE c.changed  BY <1>14, <2>2 DEF FrameHeld
  <2>3. ASSUME r \in results, ~c.changed, Entry(r) = Entry(c)  PROVE FALSE
    <3>1. c.lock = r.lock  BY <1>9, <1>11, <1>14, <2>3 DEF FrameHeld
    <3>2. PICK d \in Declared(c, entries) : d.source = f.source  BY <1>9
    <3>3. Declared(c, entries) = Manifest[<<r.source, entries[Entry(r)]>>]
      BY <2>3 DEF Declared, Entry
    <3>4. r.lock[d.source] \in Commits  BY <2>3, <3>2, <3>3, ReturnedPins
    <3>. QED  BY <1>15, <3>1, <3>2, <3>4, LockAssumption
  <2>. QED  BY <1>1, <2>1, <2>2, <2>3
<1>16. FrameHeld(g, locks, results')
  <2>1. CASE c.lock[f.source] # Unpinned  BY <1>8, <1>14, <2>1
  <2>2. CASE c.lock[f.source] = Unpinned  BY <1>8, <1>15, <2>2 DEF FrameHeld
  <2>. QED  BY <2>1, <2>2
<1>17. Len(t) = m /\ t[m] = g /\ \A i \in 1..(m - 1) : t[i] = s[i]
  <2>1. s \in Seq(Frame) /\ Len(s) > 1 /\ g \in Frame  BY <1>1, <1>2, <1>8
  <2>2. n - 2 = m - 1
    <3>. HIDE DEF n
    <3>. QED  BY ONLY <1>2
  <2>. HIDE DEF s
  <2>3. Len(t) = Len(s) - 1 /\ t[Len(s) - 1] = g /\ \A i \in 1..(Len(s) - 2) : t[i] = s[i]
    BY ONLY <2>1, LastPopped
  <2>. QED  BY ONLY <2>2, <2>3 DEF m, n
<1>18. stack'[p] = t  BY <1>1 DEF IInv, TypeOK
<1>. HIDE DEF t
<1>19. ASSUME NEW i \in 1..m  PROVE FrameHeld(t[i], locks, results')
  <2>1. i = m \/ i \in 1..(m - 1)
    <3>. HIDE DEF m
    <3>. QED  BY ONLY <1>4
  <2>. QED  BY <1>12, <1>16, <1>17, <2>1
<1>. HIDE DEF m
<1>. QED  BY <1>1, <1>11, <1>17, <1>18, <1>19 DEF HeldInv

LEMMA ReturnHeld ==
  ASSUME IInv, NEW p \in Procs, HeldInv(stack[p], locks, results),
         ReturnPackage(p) \/ ReturnUsed(p)
  PROVE  HeldInv(stack[p], locks, results)'
<1>. DEFINE f == Top(p)
<1>1. /\ stack[p] # <<>> /\ f.at = "deps" /\ ~f.changed /\ locks' = locks
      /\ stack' = [stack EXCEPT ![p] = <<>>] /\ results' = results \cup {Returned(f)}
  BY DEF ReturnPackage, ReturnUsed, Returning, Running
<1>2. FrameHeld(f, locks, results)
  BY <1>1, TopFacts DEF HeldInv
<1>3. Entry(Returned(f)) = Entry(f) /\ Returned(f).lock = f.lock  BY DEF Returned, Entry
<1>4. Len(stack'[p]) = 0  BY <1>1 DEF IInv, TypeOK
<1>. QED  BY <1>1, <1>2, <1>3, <1>4 DEF HeldInv, FrameHeld

LEMMA HeldNext ==
  ASSUME NEW p, Procs = {p}
  PROVE  IInv /\ HeldInv(stack[p], locks, results) /\ [Next]_vars
           => HeldInv(stack[p], locks, results)'
<1>. SUFFICES ASSUME IInv, HeldInv(stack[p], locks, results), [Next]_vars
     PROVE  HeldInv(stack[p], locks, results)'
  OBVIOUS
<1>. HIDE DEF Frame
<1>1. p \in Procs /\ stack \in [Procs -> Seq(Frame)]  BY DEF IInv, TypeOK
<1>2. ASSUME stack'[p] = <<>>, UNCHANGED <<locks, results>>
      PROVE  HeldInv(stack[p], locks, results)'
  <2>1. Len(stack'[p]) = 0  BY <1>2
  <2>. QED  BY <1>2, <2>1 DEF HeldInv
<1>3. ASSUME UNCHANGED <<stack, locks, results>>
      PROVE  HeldInv(stack[p], locks, results)'
  BY <1>3
<1>4. ASSUME NEW source, NEW version, NEW caller, UNCHANGED <<locks, results>>,
             stack' = [stack EXCEPT ![p] = <<Resolved(source, version, caller)>>]
      PROVE  HeldInv(stack[p], locks, results)'
  <2>. DEFINE f == Resolved(source, version, caller)
  <2>1. f.at = "fetch" /\ ~f.changed  BY DEF Resolved
  <2>. HIDE DEF f
  <2>2. stack'[p] = <<f>>  BY <1>1, <1>4 DEF f
  <2>3. Len(stack'[p]) = 1 /\ stack'[p][1] = f  BY <2>2
  <2>4. FrameHeld(f, locks, results)  BY <2>1 DEF FrameHeld
  <2>. QED  BY <1>4, <2>3, <2>4 DEF HeldInv
<1>5. CASE MoveTag  BY <1>3, <1>5 DEF MoveTag
<1>6. CASE Fetch(p) \/ TruncateLock(p) \/ SaveLock(p)  BY <1>1, <1>6, GoesOnHeld
<1>7. CASE ReturnDependency(p)  BY <1>1, <1>7, ReturnDependencyHeld
<1>8. CASE ReturnPackage(p) \/ ReturnUsed(p)  BY <1>1, <1>8, ReturnHeld
<1>9. ASSUME NEW d \in Dependency, PullDependency(p, d)
      PROVE  HeldInv(stack[p], locks, results)'
  BY <1>1, <1>9, PullDependencyHeld
<1>10. CASE Stops(p) \/ CommandEnds(p) \/ \E d \in Dependency : CircularDependency(p, d)
  <2>1. stack'[p] = <<>> /\ UNCHANGED <<locks, results>>
    BY <1>1, <1>10 DEF Stops, CommandEnds, CircularDependency, Abandon
  <2>. QED  BY <1>2, <2>1
<1>11. CASE Pull(p)  BY <1>4, <1>11 DEF Pull
<1>12. ASSUME NEW d \in Dependency, Use(p, d)  PROVE HeldInv(stack[p], locks, results)'
  <2>1. PICK call \in {Resolved(d.source, DependencyVersion(p, d), "dependency"),
                       Resolved(d.source, ComponentVersion(p, d), "component")} :
          stack' = [stack EXCEPT ![p] = <<call>>]
    BY <1>12 DEF Use
  <2>2. UNCHANGED <<locks, results>>  BY <1>12 DEF Use
  <2>3. CASE call = Resolved(d.source, DependencyVersion(p, d), "dependency")
    BY <1>4, <2>1, <2>2, <2>3
  <2>4. CASE call = Resolved(d.source, ComponentVersion(p, d), "component")
    BY <1>4, <2>1, <2>2, <2>4
  <2>. QED  BY <2>1, <2>3, <2>4
<1>13. CASE UNCHANGED vars  BY <1>3, <1>13 DEF vars
<1>. QED
  BY <1>5, <1>6, <1>7, <1>8, <1>9, <1>10, <1>11, <1>12, <1>13
  DEF Next, PullStep, Command

\* The promise of orh.lock: with one command at a time, and whatever tags
\* move and whichever pulls fail or are killed, in the middle of writing a
\* lock too, a commit that is pulled again comes with the same pins.
THEOREM ReproducibleHolds ==
  ASSUME NEW p, Procs = {p}
  PROVE  Spec => []Reproducible
<1>1. Init => HeldInv(stack[p], locks, results)
  <2>1. Init => Len(stack[p]) = 0  BY DEF Init
  <2>. QED  BY <2>1 DEF Init, HeldInv
<1>2. IInv /\ HeldInv(stack[p], locks, results) /\ [Next]_vars
        => HeldInv(stack[p], locks, results)'
  BY HeldNext
<1>3. IInv /\ HeldInv(stack[p], locks, results) => Reproducible
  BY DEF HeldInv, Reproducible, Entry
<1>. QED  BY <1>1, <1>2, <1>3, IInvHolds, PTL DEF Spec

==============================================================================
