--------------------------- MODULE RcEvents_proofs ---------------------------
(***************************************************************************)
(* Of key presses, for any inputs, any periods and any interleaving of the *)
(* updater with thread2: a press is never reported three times, a result   *)
(* that thread2 compares itself never twice.  And if thread2's turn and    *)
(* its delay fit into the updater's period, every press is reported once.  *)
(*                                                                         *)
(* The first part says at which places of thread2's loop which input is    *)
(* read; the others speak of what of the loop lies ahead of thread2 only.  *)
(***************************************************************************)
EXTENDS RcEvents, SequenceTheorems, TLAPS

-----------------------------------------------------------------------------
(* The places of the loop.                                                 *)

\* The inputs of each kind.
K == ToSet(Keys)
P == ToSet(Pairs)
R == ToSet(Results)
\* The steps of the loop.
OpName == {"check", "note", "result", "down", "fall", "first", "second", "report"}
Op == [op : OpName] \cup [op : OpName, of : Input]

\* The places after which the falls, the pairs and the reports begin.
Falls == 2 + Len(Results) + Len(Keys) + Len(Buttons)
Edges == Falls + Len(Keys)
Reports == Edges + 2 * Len(Pairs)

\* The inputs of a sequence are those at its places.
LEMMA Elements ==
  ASSUME NEW s \in Seq(Input) PROVE ToSet(s) = {s[k] : k \in 1..Len(s)}
BY LenProperties DEF ToSet

\* u is s followed by t.
IsJoin(u, s, t) ==
  /\ Len(u) = Len(s) + Len(t) /\ Len(s) \in Nat /\ Len(t) \in Nat
  /\ \A k \in 1..Len(s) : u[k] = s[k]
  /\ \A k \in 1..Len(t) : u[Len(s) + k] = t[k]
  /\ \A k \in 1..Len(u) : k \in 1..Len(s) \/ \E j \in 1..Len(t) : k = Len(s) + j

\* That is what a concatenation is.
LEMMA Joined ==
  ASSUME NEW S, NEW s \in Seq(S), NEW t \in Seq(S), NEW u, u = s \o t
  PROVE  u \in Seq(S) /\ IsJoin(u, s, t)
<1>1. u \in Seq(S) /\ Len(u) = Len(s) + Len(t)
  BY ConcatProperties
<1>2. \A k \in 1..Len(s) + Len(t) : u[k] = IF k <= Len(s) THEN s[k] ELSE t[k - Len(s)]
  BY ConcatProperties
<1>3. Len(s) \in Nat /\ Len(t) \in Nat
  BY LenProperties
<1>4. \A k \in 1..Len(t) : Len(s) + k \in 1..Len(s) + Len(t) /\ Len(s) + k - Len(s) = k
                          /\ ~ (Len(s) + k <= Len(s))
  BY <1>3
<1>5. \A k \in 1..Len(t) : u[Len(s) + k] = t[k]
  BY <1>2, <1>4
<1>6. \A k \in 1..Len(s) : u[k] = s[k]
  BY <1>2, <1>3
<1>7. ASSUME NEW k \in 1..Len(u), k \notin 1..Len(s)
      PROVE  \E j \in 1..Len(t) : k = Len(s) + j
  <2>1. k - Len(s) \in 1..Len(t) /\ k = Len(s) + (k - Len(s))
    BY <1>1, <1>3, <1>7
  <2> QED BY <2>1
<1>8. \A k \in 1..Len(u) : k \in 1..Len(s) \/ \E j \in 1..Len(t) : k = Len(s) + j
  BY <1>7
<1> QED BY <1>1, <1>3, <1>5, <1>6, <1>8 DEF IsJoin

\* No input is of two kinds or twice of one.
LEMMA Kinds ==
  /\ Keys \in Seq(Input) /\ Buttons \in Seq(Input) /\ Pairs \in Seq(Input)
  /\ Results \in Seq(Input)
  /\ Len(Keys) \in Nat /\ Len(Buttons) \in Nat /\ Len(Pairs) \in Nat /\ Len(Results) \in Nat
  /\ Len(Buttons) <= Len(Pairs)
  /\ Input = K \cup P \cup R /\ K \cap P = {} /\ K \cap R = {} /\ P \cap R = {}
  /\ \A j, k \in 1..Len(Keys) : Keys[j] = Keys[k] => j = k
  /\ \A j, k \in 1..Len(Pairs) : Pairs[j] = Pairs[k] => j = k
  /\ \A j, k \in 1..Len(Results) : Results[j] = Results[k] => j = k
<1> DEFINE kp == Keys \o Pairs
           every == kp \o Results
<1>1. /\ Keys \in Seq(Input) /\ Buttons \in Seq(Input) /\ Levers \in Seq(Input)
      /\ Results \in Seq(Input) /\ IsInjective(every)
  BY InputAssumption
<1>2. Pairs \in Seq(Input) /\ Len(Pairs) = Len(Buttons) + Len(Levers)
  BY <1>1, ConcatProperties DEF Pairs
<1>13. kp = Keys \o Pairs /\ every = kp \o Results
  OBVIOUS
<1> HIDE DEF kp, every
<1>3. kp \in Seq(Input) /\ IsJoin(kp, Keys, Pairs)
  BY <1>1, <1>2, <1>13, Joined
<1>4. every \in Seq(Input) /\ IsJoin(every, kp, Results)
  BY <1>1, <1>3, <1>13, Joined
<1>5. /\ Len(Keys) \in Nat /\ Len(Buttons) \in Nat /\ Len(Levers) \in Nat
      /\ Len(Pairs) \in Nat /\ Len(Results) \in Nat /\ DOMAIN every = 1..Len(every)
  BY <1>1, <1>2, <1>4, LenProperties
<1>6. Input = ToSet(every)
  BY <1>13 DEF Input
<1>7. \A j, k \in 1..Len(every) : every[j] = every[k] => j = k
  BY <1>1, <1>5 DEF IsInjective
<1>8. /\ \A k \in 1..Len(Keys) : k \in 1..Len(every) /\ every[k] = Keys[k]
      /\ \A k \in 1..Len(Pairs) : Len(Keys) + k \in 1..Len(every) /\ every[Len(Keys) + k] = Pairs[k]
      /\ \A k \in 1..Len(Results) : /\ Len(kp) + k \in 1..Len(every)
                                    /\ every[Len(kp) + k] = Results[k]
  <2>1. /\ \A k \in 1..Len(Keys) : k \in 1..Len(kp) /\ k \in 1..Len(every)
        /\ \A k \in 1..Len(Pairs) : Len(Keys) + k \in 1..Len(kp) /\ Len(Keys) + k \in 1..Len(every)
        /\ \A k \in 1..Len(Results) : Len(kp) + k \in 1..Len(every)
    BY <1>3, <1>4, <1>5 DEF IsJoin
  <2> QED BY <1>3, <1>4, <2>1 DEF IsJoin
<1>9. /\ \A j, k \in 1..Len(Keys) : Keys[j] = Keys[k] => j = k
      /\ \A j, k \in 1..Len(Pairs) : Pairs[j] = Pairs[k] => j = k
      /\ \A j, k \in 1..Len(Results) : Results[j] = Results[k] => j = k
  BY <1>3, <1>5, <1>7, <1>8 DEF IsJoin
<1>10. /\ K = {Keys[k] : k \in 1..Len(Keys)} /\ P = {Pairs[k] : k \in 1..Len(Pairs)}
       /\ R = {Results[k] : k \in 1..Len(Results)} /\ Input = {every[k] : k \in 1..Len(every)}
  BY <1>1, <1>2, <1>4, <1>6, Elements DEF K, P, R
<1>11. K \cap P = {} /\ K \cap R = {} /\ P \cap R = {}
  <2>1. \A j \in 1..Len(Keys), k \in 1..Len(Pairs) : Keys[j] # Pairs[k]
    BY <1>5, <1>7, <1>8
  <2>2. \A j \in 1..Len(Keys), k \in 1..Len(Results) : Keys[j] # Results[k]
    BY <1>3, <1>5, <1>7, <1>8 DEF IsJoin
  <2>3. \A j \in 1..Len(Pairs), k \in 1..Len(Results) : Pairs[j] # Results[k]
    BY <1>3, <1>5, <1>7, <1>8 DEF IsJoin
  <2> QED BY <1>10, <2>1, <2>2, <2>3
<1>12. Input = K \cup P \cup R
  <2>1. K \subseteq Input /\ P \subseteq Input /\ R \subseteq Input
    BY <1>8, <1>10
  <2>2. \A k \in 1..Len(kp) : kp[k] \in K \cup P
    BY <1>3, <1>10 DEF IsJoin
  <2>3. \A k \in 1..Len(Results) : Results[k] \in R
    BY <1>10
  <2>4. \A k \in 1..Len(every) : every[k] \in K \cup P \cup R
    BY <1>4, <2>2, <2>3 DEF IsJoin
  <2>5. ASSUME NEW x \in Input PROVE x \in K \cup P \cup R
    <3>1. PICK k \in 1..Len(every) : x = every[k]
      BY <1>10, Zenon
    <3> QED BY <2>4, <3>1, Zenon
  <2>6. Input \subseteq K \cup P \cup R
    BY <2>5, Zenon
  <2> QED BY <2>1, <2>6, Zenon
<1> QED BY <1>1, <1>2, <1>5, <1>9, <1>11, <1>12

\* A list of queries is a sequence of steps.
LEMMA Queries ==
  ASSUME NEW op \in OpName, NEW s \in Seq(Input)
  PROVE  /\ Ops(op, s) \in Seq(Op) /\ Len(Ops(op, s)) = Len(s)
         /\ \A k \in 1..Len(s) : Ops(op, s)[k].op = op /\ Ops(op, s)[k].of = s[k]
<1>1. Len(s) \in Nat /\ DOMAIN s = 1..Len(s) /\ \A k \in 1..Len(s) : s[k] \in Input
  BY LenProperties, ElementOfSeq
<1>2. Ops(op, s) = [k \in 1..Len(s) |-> [op |-> op, of |-> s[k]]]
  BY <1>1 DEF Ops
<1>3. Ops(op, s) \in [1..Len(s) -> Op]
  BY <1>1, <1>2 DEF Op
<1>4. Ops(op, s) \in Seq(Op)
  BY <1>1, <1>3, SeqDef
<1>5. Len(Ops(op, s)) = Len(s)
  BY <1>1, <1>2, <1>4, LenProperties
<1> QED BY <1>2, <1>4, <1>5

\* The two reads of a pair are next to each other.
LEMMA Reads ==
  /\ PairOps \in Seq(Op) /\ Len(PairOps) = 2 * Len(Pairs)
  /\ \A k \in 1..Len(Pairs) : /\ PairOps[2 * k - 1].op = "first" /\ PairOps[2 * k - 1].of = Pairs[k]
                              /\ PairOps[2 * k].op = "second" /\ PairOps[2 * k].of = Pairs[k]
<1>1. Len(Pairs) \in Nat /\ \A k \in 1..Len(Pairs) : Pairs[k] \in Input
  BY Kinds, LenProperties, ElementOfSeq
<1>2. \A k \in 1..2 * Len(Pairs) : (k + 1) \div 2 \in 1..Len(Pairs)
  BY <1>1
<1>3. PairOps \in [1..2 * Len(Pairs) -> Op]
  <2> SUFFICES ASSUME NEW k \in 1..2 * Len(Pairs)
               PROVE  [op |-> IF k % 2 = 1 THEN "first" ELSE "second",
                       of |-> Pairs[(k + 1) \div 2]] \in Op
    BY DEF PairOps
  <2>1. Pairs[(k + 1) \div 2] \in Input
    BY <1>1, <1>2
  <2>2. \A w \in {"first", "second"}, x \in Input : [op |-> w, of |-> x] \in Op
    BY DEF Op, OpName
  <2>3. (IF k % 2 = 1 THEN "first" ELSE "second") \in {"first", "second"}
    OBVIOUS
  <2> HIDE DEF Op
  <2> QED BY <2>1, <2>2, <2>3
<1>4. 2 * Len(Pairs) \in Nat
  BY <1>1
<1>5. PairOps \in Seq(Op) /\ Len(PairOps) = 2 * Len(Pairs)
  BY <1>3, <1>4, SeqDef, LenProperties
<1>6. ASSUME NEW k \in 1..Len(Pairs)
      PROVE  /\ PairOps[2 * k - 1].op = "first" /\ PairOps[2 * k - 1].of = Pairs[k]
             /\ PairOps[2 * k].op = "second" /\ PairOps[2 * k].of = Pairs[k]
  <2>1. /\ 2 * k - 1 \in 1..2 * Len(Pairs) /\ 2 * k \in 1..2 * Len(Pairs)
        /\ (2 * k - 1) % 2 = 1 /\ (2 * k) % 2 = 0
        /\ (2 * k - 1 + 1) \div 2 = k /\ (2 * k + 1) \div 2 = k
    BY <1>1
  <2> QED BY <2>1 DEF PairOps
<1> QED BY <1>5, <1>6

\* The loop is its parts, one after the other.
LEMMA Parts ==
  /\ Loop \in Seq(Op) /\ Len(Loop) = Reports + Len(Results) /\ AfterDowns = Falls + 1
  /\ Loop[1].op = "check" /\ Loop[2].op = "note"
  /\ \A k \in 1..Len(Results) : Loop[2 + k].op = "result" /\ Loop[2 + k].of = Results[k]
  /\ \A k \in 1..Len(Keys) + Len(Buttons) : Loop[2 + Len(Results) + k].op = "down"
  /\ \A k \in 1..Len(Keys) : Loop[Falls + k].op = "fall" /\ Loop[Falls + k].of = Keys[k]
  /\ \A k \in 1..Len(Pairs) : /\ Loop[Edges + (2 * k - 1)].op = "first" /\ Loop[Edges + (2 * k - 1)].of = Pairs[k]
                              /\ Loop[Edges + 2 * k].op = "second" /\ Loop[Edges + 2 * k].of = Pairs[k]
  /\ \A k \in 1..Len(Results) : Loop[Reports + k].op = "report" /\ Loop[Reports + k].of = Results[k]
  /\ \A p \in 1..Len(Loop) :
       \/ p \in {1, 2}
       \/ \E k \in 1..Len(Results) : p = 2 + k
       \/ \E k \in 1..Len(Keys) + Len(Buttons) : p = 2 + Len(Results) + k
       \/ \E k \in 1..Len(Keys) : p = Falls + k
       \/ \E k \in 1..Len(Pairs) : p = Edges + (2 * k - 1) \/ p = Edges + 2 * k
       \/ \E k \in 1..Len(Results) : p = Reports + k
<1> DEFINE a == <<[op |-> "check"], [op |-> "note"]>>
           b == Ops("result", Results)
           c == Downs
           d == Ops("fall", Keys)
           e == PairOps
           f == Ops("report", Results)
           ab == a \o b
           abc == ab \o c
           abcd == abc \o d
           abcde == abcd \o e
<1>0. /\ Loop = abcde \o f /\ abcde = abcd \o e /\ abcd = abc \o d /\ abc = ab \o c /\ ab = a \o b
  BY DEF Loop
<1>1. a \in Seq(Op) /\ Len(a) = 2 /\ a[1].op = "check" /\ a[2].op = "note"
  BY DEF Op, OpName
<1>2. /\ b \in Seq(Op) /\ Len(b) = Len(Results)
      /\ \A k \in 1..Len(Results) : b[k].op = "result" /\ b[k].of = Results[k]
  BY Kinds, Queries DEF OpName
<1>3. /\ c \in Seq(Op) /\ Len(c) = Len(Keys) + Len(Buttons)
      /\ \A k \in 1..Len(Keys) + Len(Buttons) : c[k].op = "down"
  <2> DEFINE kb == Keys \o Buttons
  <2>1. kb \in Seq(Input) /\ Len(kb) = Len(Keys) + Len(Buttons) /\ Downs = Ops("down", kb)
    BY Kinds, ConcatProperties DEF Downs
  <2> HIDE DEF kb
  <2>2. /\ Ops("down", kb) \in Seq(Op) /\ Len(Ops("down", kb)) = Len(kb)
        /\ \A k \in 1..Len(kb) : Ops("down", kb)[k].op = "down" /\ Ops("down", kb)[k].of = kb[k]
    BY <2>1, Queries DEF OpName
  <2> QED BY <2>1, <2>2
<1>4. /\ d \in Seq(Op) /\ Len(d) = Len(Keys)
      /\ \A k \in 1..Len(Keys) : d[k].op = "fall" /\ d[k].of = Keys[k]
  BY Kinds, Queries DEF OpName
<1>5. /\ e \in Seq(Op) /\ Len(e) = 2 * Len(Pairs)
      /\ \A k \in 1..Len(Pairs) : /\ e[2 * k - 1].op = "first" /\ e[2 * k - 1].of = Pairs[k]
                                  /\ e[2 * k].op = "second" /\ e[2 * k].of = Pairs[k]
  BY Reads
<1>6. /\ f \in Seq(Op) /\ Len(f) = Len(Results)
      /\ \A k \in 1..Len(Results) : f[k].op = "report" /\ f[k].of = Results[k]
  BY Kinds, Queries DEF OpName
<1>7. AfterDowns = Falls + 1
  BY <1>3, Kinds DEF AfterDowns, Falls
<1> HIDE DEF a, b, c, d, e, f, ab, abc, abcd, abcde
<1>8. ab \in Seq(Op) /\ IsJoin(ab, a, b)
  BY <1>0, <1>1, <1>2, Joined
<1>9. abc \in Seq(Op) /\ IsJoin(abc, ab, c)
  BY <1>0, <1>8, <1>3, Joined
<1>10. abcd \in Seq(Op) /\ IsJoin(abcd, abc, d)
  BY <1>0, <1>9, <1>4, Joined
<1>11. abcde \in Seq(Op) /\ IsJoin(abcde, abcd, e)
  BY <1>0, <1>10, <1>5, Joined
<1>12. Loop \in Seq(Op) /\ IsJoin(Loop, abcde, f)
  BY <1>0, <1>11, <1>6, Joined
<1>13. /\ Len(ab) = 2 + Len(Results) /\ Len(abc) = Falls /\ Len(abcd) = Edges /\ Len(abcde) = Reports
       /\ Len(Loop) = Reports + Len(Results)
       /\ Falls \in Nat /\ Edges \in Nat /\ Reports \in Nat /\ 2 * Len(Pairs) \in Nat
  BY <1>1, <1>2, <1>3, <1>4, <1>5, <1>6, <1>8, <1>9, <1>10, <1>11, <1>12, Kinds
     DEF IsJoin, Falls, Edges, Reports
<1>14. /\ 2 + Len(Results) <= Falls /\ Falls <= Edges /\ Edges <= Reports
  BY Kinds, <1>13 DEF Falls, Edges, Reports
\* A place of a prefix is a place of the loop.
<1>15. /\ \A p \in 1..Reports : Loop[p] = abcde[p]
       /\ \A p \in 1..Edges : Loop[p] = abcd[p]
       /\ \A p \in 1..Falls : Loop[p] = abc[p]
       /\ \A p \in 1..2 + Len(Results) : Loop[p] = ab[p]
       /\ \A p \in 1..2 : Loop[p] = a[p]
  <2>1. \A p \in 1..Reports : Loop[p] = abcde[p]
    BY <1>12, <1>13 DEF IsJoin
  <2>2. \A p \in 1..Edges : p \in 1..Reports /\ abcde[p] = abcd[p]
    BY <1>11, <1>13, <1>14 DEF IsJoin
  <2>3. \A p \in 1..Falls : p \in 1..Edges /\ abcd[p] = abc[p]
    BY <1>10, <1>13, <1>14 DEF IsJoin
  <2>4. \A p \in 1..2 + Len(Results) : p \in 1..Falls /\ abc[p] = ab[p]
    BY <1>9, <1>13, <1>14, Kinds DEF IsJoin
  <2>5. \A p \in 1..2 : p \in 1..2 + Len(Results) /\ ab[p] = a[p]
    BY <1>8, <1>1, Kinds DEF IsJoin
  <2> QED BY <2>1, <2>2, <2>3, <2>4, <2>5
<1>16. \A k \in 1..Len(Results) : Loop[2 + k].op = "result" /\ Loop[2 + k].of = Results[k]
  <2>1. \A k \in 1..Len(Results) : 2 + k \in 1..2 + Len(Results) /\ ab[2 + k] = b[k]
    BY <1>1, <1>2, <1>8, Kinds DEF IsJoin
  <2> QED BY <1>2, <1>15, <2>1
<1>17. \A k \in 1..Len(Keys) + Len(Buttons) : Loop[2 + Len(Results) + k].op = "down"
  <2>1. \A k \in 1..Len(Keys) + Len(Buttons) : /\ 2 + Len(Results) + k \in 1..Falls
                                              /\ abc[2 + Len(Results) + k] = c[k]
    BY <1>3, <1>9, <1>13, Kinds DEF IsJoin, Falls
  <2> QED BY <1>3, <1>15, <2>1
<1>18. \A k \in 1..Len(Keys) : Loop[Falls + k].op = "fall" /\ Loop[Falls + k].of = Keys[k]
  <2>1. \A k \in 1..Len(Keys) : Falls + k \in 1..Edges /\ abcd[Falls + k] = d[k]
    BY <1>4, <1>10, <1>13, Kinds DEF IsJoin, Edges
  <2> QED BY <1>4, <1>15, <2>1
<1>19. \A k \in 1..Len(Pairs) : /\ Loop[Edges + (2 * k - 1)].op = "first" /\ Loop[Edges + (2 * k - 1)].of = Pairs[k]
                               /\ Loop[Edges + 2 * k].op = "second" /\ Loop[Edges + 2 * k].of = Pairs[k]
  <2>1. \A j \in 1..2 * Len(Pairs) : Edges + j \in 1..Reports /\ abcde[Edges + j] = e[j]
    BY <1>5, <1>11, <1>13, Kinds DEF IsJoin, Reports
  <2>2. \A k \in 1..Len(Pairs) : 2 * k - 1 \in 1..2 * Len(Pairs) /\ 2 * k \in 1..2 * Len(Pairs)
    BY Kinds
  <2>3. ASSUME NEW k \in 1..Len(Pairs)
        PROVE  /\ Loop[Edges + (2 * k - 1)].op = "first" /\ Loop[Edges + (2 * k - 1)].of = Pairs[k]
               /\ Loop[Edges + 2 * k].op = "second" /\ Loop[Edges + 2 * k].of = Pairs[k]
    <3>1. /\ Loop[Edges + (2 * k - 1)] = e[2 * k - 1]
          /\ Loop[Edges + 2 * k] = e[2 * k]
      BY <1>15, <2>1, <2>2, Zenon
    <3>2. /\ e[2 * k - 1].op = "first" /\ e[2 * k - 1].of = Pairs[k]
          /\ e[2 * k].op = "second" /\ e[2 * k].of = Pairs[k]
      BY <1>5, Zenon
    <3> QED BY <3>1, <3>2, Zenon
  <2> QED BY <2>3, Zenon
<1>20. \A k \in 1..Len(Results) : Loop[Reports + k].op = "report" /\ Loop[Reports + k].of = Results[k]
  BY <1>6, <1>12, <1>13 DEF IsJoin
<1>21. ASSUME NEW p \in 1..Len(Loop)
       PROVE  \/ p \in {1, 2}
              \/ \E k \in 1..Len(Results) : p = 2 + k
              \/ \E k \in 1..Len(Keys) + Len(Buttons) : p = 2 + Len(Results) + k
              \/ \E k \in 1..Len(Keys) : p = Falls + k
              \/ \E k \in 1..Len(Pairs) : p = Edges + (2 * k - 1) \/ p = Edges + 2 * k
              \/ \E k \in 1..Len(Results) : p = Reports + k
  <2>1. p \in 1..Reports \/ \E k \in 1..Len(Results) : p = Reports + k
    BY <1>6, <1>12, <1>13 DEF IsJoin
  <2>2. p \in 1..Reports => p \in 1..Edges \/ \E j \in 1..2 * Len(Pairs) : p = Edges + j
    BY <1>5, <1>11, <1>13 DEF IsJoin
  <2>3. \A j \in 1..2 * Len(Pairs) : \E k \in 1..Len(Pairs) : j = 2 * k - 1 \/ j = 2 * k
    <3>1. \A j \in 1..2 * Len(Pairs) : /\ (j + 1) \div 2 \in 1..Len(Pairs)
                                       /\ j = 2 * ((j + 1) \div 2) - 1 \/ j = 2 * ((j + 1) \div 2)
      BY Kinds
    <3> QED BY <3>1
  <2>4. p \in 1..Edges => p \in 1..Falls \/ \E k \in 1..Len(Keys) : p = Falls + k
    BY <1>4, <1>10, <1>13 DEF IsJoin
  <2>5. p \in 1..Falls => \/ p \in 1..2 + Len(Results)
                         \/ \E k \in 1..Len(Keys) + Len(Buttons) : p = 2 + Len(Results) + k
    BY <1>3, <1>9, <1>13 DEF IsJoin
  <2>6. p \in 1..2 + Len(Results) => p \in 1..2 \/ \E k \in 1..Len(Results) : p = 2 + k
    BY <1>1, <1>2, <1>8, <1>13 DEF IsJoin
  <2>7. p \in 1..2 => p \in {1, 2}
    OBVIOUS
  <2> QED BY <2>1, <2>2, <2>3, <2>4, <2>5, <2>6, <2>7
<1>22. Loop[1].op = "check" /\ Loop[2].op = "note"
  BY <1>1, <1>15
<1> QED BY <1>7, <1>12, <1>13, <1>16, <1>17, <1>18, <1>19, <1>20, <1>21, <1>22

\* Where each step of the loop stands.
LEMMA Where ==
  ASSUME NEW p \in 1..Len(Loop)
  PROVE  /\ Loop[p].op = "check" => p = 1
         /\ Loop[p].op = "note" => p = 2
         /\ Loop[p].op = "result" => \E k \in 1..Len(Results) : p = 2 + k /\ Loop[p].of = Results[k]
         /\ Loop[p].op = "down" => p > 2 + Len(Results) /\ p <= Falls
         /\ Loop[p].op = "fall" => \E k \in 1..Len(Keys) : p = Falls + k /\ Loop[p].of = Keys[k]
         /\ Loop[p].op = "first" =>
              \E k \in 1..Len(Pairs) : p = Edges + (2 * k - 1) /\ Loop[p].of = Pairs[k]
         /\ Loop[p].op = "second" =>
              \E k \in 1..Len(Pairs) : p = Edges + 2 * k /\ Loop[p].of = Pairs[k]
         /\ Loop[p].op = "report" =>
              \E k \in 1..Len(Results) : p = Reports + k /\ Loop[p].of = Results[k]
<1>0. Loop[1].op = "check" /\ Loop[2].op = "note"
  BY Parts
<1>1. CASE p \in {1, 2}
  BY <1>0, <1>1
<1>2. CASE \E k \in 1..Len(Results) : p = 2 + k
  <2>1. Loop[p].op = "result"
    <3>1. PICK k \in 1..Len(Results) : p = 2 + k
      BY <1>2
    <3>2. Loop[2 + k].op = "result"
      BY <3>1, Parts, Zenon
    <3> QED BY <3>1, <3>2, Zenon
  <2>2. \E k \in 1..Len(Results) : p = 2 + k /\ Loop[p].of = Results[k]
    <3>1. PICK k \in 1..Len(Results) : p = 2 + k
      BY <1>2
    <3>2. Loop[2 + k].of = Results[k]
      BY <3>1, Parts, Zenon
    <3> QED BY <3>1, <3>2, Zenon
  <2> QED BY <2>1, <2>2
<1>3. CASE \E k \in 1..Len(Keys) + Len(Buttons) : p = 2 + Len(Results) + k
  <2>1. p > 2 + Len(Results) /\ p <= Falls
    BY <1>3, Kinds DEF Falls
  <2>2. Loop[p].op = "down"
    BY <1>3, Parts
  <2> QED BY <2>1, <2>2
<1>4. CASE \E k \in 1..Len(Keys) : p = Falls + k
  <2>1. PICK k \in 1..Len(Keys) : p = Falls + k
    BY <1>4, Zenon
  <2>2. Loop[Falls + k].op = "fall" /\ Loop[Falls + k].of = Keys[k]
    BY <2>1, Parts, Zenon
  <2>3. Loop[p].op = "fall"
    BY <2>1, <2>2, Zenon
  <2>4. \E j \in 1..Len(Keys) : p = Falls + j /\ Loop[p].of = Keys[j]
    BY <2>1, <2>2, Zenon
  <2> QED BY <2>3, <2>4
<1>5. CASE \E k \in 1..Len(Pairs) : p = Edges + (2 * k - 1)
  <2>1. PICK k \in 1..Len(Pairs) : p = Edges + (2 * k - 1)
    BY <1>5, Zenon
  <2>2. Loop[Edges + (2 * k - 1)].op = "first" /\ Loop[Edges + (2 * k - 1)].of = Pairs[k]
    BY <2>1, Parts, Zenon
  <2>3. Loop[p].op = "first"
    BY <2>1, <2>2, Zenon
  <2>4. \E j \in 1..Len(Pairs) : p = Edges + (2 * j - 1) /\ Loop[p].of = Pairs[j]
    BY <2>1, <2>2, Zenon
  <2> QED BY <2>3, <2>4
<1>6. CASE \E k \in 1..Len(Pairs) : p = Edges + 2 * k
  <2>1. PICK k \in 1..Len(Pairs) : p = Edges + 2 * k
    BY <1>6, Zenon
  <2>2. Loop[Edges + 2 * k].op = "second" /\ Loop[Edges + 2 * k].of = Pairs[k]
    BY <2>1, Parts, Zenon
  <2>3. Loop[p].op = "second"
    BY <2>1, <2>2, Zenon
  <2>4. \E j \in 1..Len(Pairs) : p = Edges + 2 * j /\ Loop[p].of = Pairs[j]
    BY <2>1, <2>2, Zenon
  <2> QED BY <2>3, <2>4
<1>7. CASE \E k \in 1..Len(Results) : p = Reports + k
  <2>1. PICK k \in 1..Len(Results) : p = Reports + k
    BY <1>7, Zenon
  <2>2. Loop[Reports + k].op = "report" /\ Loop[Reports + k].of = Results[k]
    BY <2>1, Parts, Zenon
  <2>3. Loop[p].op = "report"
    BY <2>1, <2>2, Zenon
  <2>4. \E j \in 1..Len(Results) : p = Reports + j /\ Loop[p].of = Results[j]
    BY <2>1, <2>2, Zenon
  <2> QED BY <2>3, <2>4
<1>8. \/ p \in {1, 2}
      \/ \E k \in 1..Len(Results) : p = 2 + k
      \/ \E k \in 1..Len(Keys) + Len(Buttons) : p = 2 + Len(Results) + k
      \/ \E k \in 1..Len(Keys) : p = Falls + k
      \/ \E k \in 1..Len(Pairs) : p = Edges + (2 * k - 1)
      \/ \E k \in 1..Len(Pairs) : p = Edges + 2 * k
      \/ \E k \in 1..Len(Results) : p = Reports + k
  BY Parts
<1> QED BY <1>1, <1>2, <1>3, <1>4, <1>5, <1>6, <1>7, <1>8

\* Place p is the step op for input i.
Is(p, op, i) == p \in 1..Len(Loop) /\ Loop[p].op = op /\ Loop[p].of = i
\* Such a step stays to be taken in this turn.
To(op, i) == \E p \in Nat : p >= pc /\ Is(p, op, i)

\* Where each step of an input stands.
LEMMA ResultAt ==
  ASSUME NEW p, NEW i, Is(p, "result", i)
  PROVE  \E k \in 1..Len(Results) : p = 2 + k /\ i = Results[k]
<1>1. p \in 1..Len(Loop) /\ Loop[p].op = "result" /\ Loop[p].of = i
  BY Zenon DEF Is
<1>2. PICK k \in 1..Len(Results) : p = 2 + k /\ Loop[p].of = Results[k]
  BY <1>1, Where, Zenon
<1> QED BY <1>1, <1>2, Zenon

LEMMA FallAt ==
  ASSUME NEW p, NEW i, Is(p, "fall", i)
  PROVE  \E k \in 1..Len(Keys) : p = Falls + k /\ i = Keys[k]
<1>1. p \in 1..Len(Loop) /\ Loop[p].op = "fall" /\ Loop[p].of = i
  BY Zenon DEF Is
<1>2. PICK k \in 1..Len(Keys) : p = Falls + k /\ Loop[p].of = Keys[k]
  BY <1>1, Where, Zenon
<1> QED BY <1>1, <1>2, Zenon

LEMMA FirstAt ==
  ASSUME NEW p, NEW i, Is(p, "first", i)
  PROVE  \E k \in 1..Len(Pairs) : p = Edges + (2 * k - 1) /\ i = Pairs[k]
<1>1. p \in 1..Len(Loop) /\ Loop[p].op = "first" /\ Loop[p].of = i
  BY Zenon DEF Is
<1>2. PICK k \in 1..Len(Pairs) : p = Edges + (2 * k - 1) /\ Loop[p].of = Pairs[k]
  BY <1>1, Where, Zenon
<1> QED BY <1>1, <1>2, Zenon

LEMMA SecondAt ==
  ASSUME NEW p, NEW i, Is(p, "second", i)
  PROVE  \E k \in 1..Len(Pairs) : p = Edges + 2 * k /\ i = Pairs[k]
<1>1. p \in 1..Len(Loop) /\ Loop[p].op = "second" /\ Loop[p].of = i
  BY Zenon DEF Is
<1>2. PICK k \in 1..Len(Pairs) : p = Edges + 2 * k /\ Loop[p].of = Pairs[k]
  BY <1>1, Where, Zenon
<1> QED BY <1>1, <1>2, Zenon

LEMMA ReportAt ==
  ASSUME NEW p, NEW i, Is(p, "report", i)
  PROVE  \E k \in 1..Len(Results) : p = Reports + k /\ i = Results[k]
<1>1. p \in 1..Len(Loop) /\ Loop[p].op = "report" /\ Loop[p].of = i
  BY Zenon DEF Is
<1>2. PICK k \in 1..Len(Results) : p = Reports + k /\ Loop[p].of = Results[k]
  BY <1>1, Where, Zenon
<1> QED BY <1>1, <1>2, Zenon

\* The step that may report an input.
Tells(i) == IF i \in K THEN "fall" ELSE IF i \in P THEN "second" ELSE "report"
\* What the loop does once for each of its inputs.
Once == {"result", "fall", "second", "report"}

\* Every input is reported by one step of the loop, a result is read by one
\* before, and the first read of a pair comes just before the second.
LEMMA Steps ==
  /\ Len(Loop) \in Nat /\ Len(Loop) >= 2 /\ Loop[1].op = "check" /\ Loop[2].op = "note"
  /\ \A i \in Input : \E p \in 3..Len(Loop) : Is(p, Tells(i), i)
  /\ \A i \in R : \E p \in 3..Len(Loop) : Is(p, "result", i)
  /\ \A op \in Once, i \in Input, p, q \in Nat : Is(p, op, i) /\ Is(q, op, i) => p = q
  /\ \A i, j \in Input, p, q \in Nat : Is(p, "result", i) /\ Is(q, "report", j) => p < q
  /\ \A i \in Input, p \in Nat :
       /\ Is(p, "result", i) \/ Is(p, "report", i) => i \in R
       /\ Is(p, "fall", i) => i \in K
       /\ Is(p, "first", i) \/ Is(p, "second", i) => i \in P
       /\ Is(p, "second", i) => p >= 4 /\ Is(p - 1, "first", i)
  /\ \A p \in 1..Len(Loop) :
       /\ Loop[p].op \in OpName
       /\ Loop[p].op \in {"result", "fall", "first", "second", "report"} => Loop[p].of \in Input
       /\ Loop[p].op = "check" => p = 1
       /\ Loop[p].op = "note" => p = 2
       /\ Loop[p].op = "down" =>
            /\ AfterDowns \in 1..Len(Loop) /\ p < AfterDowns
            /\ \A op \in Once, i \in Input, q \in Nat : Is(q, op, i) /\ q >= p => q >= AfterDowns
            /\ \A i \in Input : ~Is(AfterDowns, "second", i)
<1>1. /\ Falls \in Nat /\ Edges \in Nat /\ Reports \in Nat /\ Falls >= 2 + Len(Results)
      /\ Edges = Falls + Len(Keys) /\ Reports = Edges + 2 * Len(Pairs)
      /\ Len(Loop) = Reports + Len(Results) /\ AfterDowns = Falls + 1
  BY Kinds, Parts DEF Falls, Edges, Reports
<1>2. /\ K = {Keys[k] : k \in 1..Len(Keys)} /\ P = {Pairs[k] : k \in 1..Len(Pairs)}
      /\ R = {Results[k] : k \in 1..Len(Results)}
  BY Kinds, Elements DEF K, P, R
<1>3. ASSUME NEW i \in R PROVE \E p \in 3..Len(Loop) : Is(p, "result", i)
  <2>1. PICK k \in 1..Len(Results) : i = Results[k]
    BY Kinds, <1>2
  <2>2. 2 + k \in 3..Len(Loop)
    BY Kinds, <1>1
  <2> QED BY Kinds, <2>1, <2>2, Parts DEF Is
<1>4. ASSUME NEW i \in Input PROVE \E p \in 3..Len(Loop) : Is(p, Tells(i), i)
  <2>1. CASE i \in K
    <3>1. PICK k \in 1..Len(Keys) : i = Keys[k]
      BY Kinds, <1>2, <2>1
    <3>2. Falls + k \in 3..Len(Loop) /\ Falls + k \in 1..Len(Loop)
      BY Kinds, <1>1
    <3>3. Is(Falls + k, "fall", i)
      BY Kinds, <3>1, <3>2, Parts DEF Is
    <3>4. Tells(i) = "fall"
      BY Kinds, <2>1 DEF Tells
    <3> QED BY Kinds, <3>2, <3>3, <3>4
  <2>2. CASE i \in P
    <3>1. PICK k \in 1..Len(Pairs) : i = Pairs[k]
      BY Kinds, <1>2, <2>2
    <3>2. Edges + 2 * k \in 3..Len(Loop) /\ Edges + 2 * k \in 1..Len(Loop)
      BY Kinds, <1>1
    <3>3. Is(Edges + 2 * k, "second", i)
      BY Kinds, <3>1, <3>2, Parts DEF Is
    <3>4. Tells(i) = "second"
      BY Kinds, <2>2 DEF Tells
    <3> QED BY Kinds, <3>2, <3>3, <3>4
  <2>3. CASE i \in R
    <3>1. PICK k \in 1..Len(Results) : i = Results[k]
      BY Kinds, <1>2, <2>3
    <3>2. Reports + k \in 3..Len(Loop) /\ Reports + k \in 1..Len(Loop)
      BY Kinds, <1>1
    <3>3. Is(Reports + k, "report", i)
      BY Kinds, <3>1, <3>2, Parts DEF Is
    <3>4. Tells(i) = "report"
      BY Kinds, <2>3 DEF Tells
    <3> QED BY Kinds, <3>2, <3>3, <3>4
  <2> QED BY Kinds, <2>1, <2>2, <2>3
<1>5. ASSUME NEW op \in Once, NEW i \in Input, NEW p \in Nat, NEW q \in Nat, Is(p, op, i), Is(q, op, i)
      PROVE  p = q
  <2>1. CASE op = "result"
    <3>1. PICK j \in 1..Len(Results) : p = 2 + j /\ i = Results[j]
      BY <1>5, <2>1, ResultAt, Zenon
    <3>2. PICK k \in 1..Len(Results) : q = 2 + k /\ i = Results[k]
      BY <1>5, <2>1, ResultAt, Zenon
    <3>3. j = k
      BY <3>1, <3>2, Kinds, Zenon
    <3> QED BY <3>1, <3>2, <3>3, Zenon
  <2>2. CASE op = "fall"
    <3>1. PICK j \in 1..Len(Keys) : p = Falls + j /\ i = Keys[j]
      BY <1>5, <2>2, FallAt, Zenon
    <3>2. PICK k \in 1..Len(Keys) : q = Falls + k /\ i = Keys[k]
      BY <1>5, <2>2, FallAt, Zenon
    <3>3. j = k
      BY <3>1, <3>2, Kinds, Zenon
    <3> QED BY <3>1, <3>2, <3>3, Zenon
  <2>3. CASE op = "second"
    <3>1. PICK j \in 1..Len(Pairs) : p = Edges + 2 * j /\ i = Pairs[j]
      BY <1>5, <2>3, SecondAt, Zenon
    <3>2. PICK k \in 1..Len(Pairs) : q = Edges + 2 * k /\ i = Pairs[k]
      BY <1>5, <2>3, SecondAt, Zenon
    <3>3. j = k
      BY <3>1, <3>2, Kinds, Zenon
    <3> QED BY <3>1, <3>2, <3>3, Zenon
  <2>4. CASE op = "report"
    <3>1. PICK j \in 1..Len(Results) : p = Reports + j /\ i = Results[j]
      BY <1>5, <2>4, ReportAt, Zenon
    <3>2. PICK k \in 1..Len(Results) : q = Reports + k /\ i = Results[k]
      BY <1>5, <2>4, ReportAt, Zenon
    <3>3. j = k
      BY <3>1, <3>2, Kinds, Zenon
    <3> QED BY <3>1, <3>2, <3>3, Zenon
  <2> QED BY <2>1, <2>2, <2>3, <2>4 DEF Once
<1>6. ASSUME NEW i \in Input, NEW j \in Input, NEW p \in Nat, NEW q \in Nat,
             Is(p, "result", i), Is(q, "report", j)
      PROVE  p < q
  <2>1. p <= 2 + Len(Results)
    <3>1. PICK k \in 1..Len(Results) : p = 2 + k
      BY <1>6, ResultAt, Zenon
    <3> QED BY Kinds, <3>1
  <2>2. q > Reports
    <3>1. PICK k \in 1..Len(Results) : q = Reports + k
      BY <1>6, ReportAt, Zenon
    <3> QED BY Kinds, <1>1, <3>1
  <2> QED BY Kinds, <1>1, <2>1, <2>2
<1>7. ASSUME NEW i \in Input, NEW p \in Nat
      PROVE  /\ Is(p, "result", i) \/ Is(p, "report", i) => i \in R
             /\ Is(p, "fall", i) => i \in K
             /\ Is(p, "first", i) \/ Is(p, "second", i) => i \in P
             /\ Is(p, "second", i) => p >= 4 /\ Is(p - 1, "first", i)
  <2>1. Is(p, "result", i) \/ Is(p, "report", i) => i \in R
    BY <1>2, ResultAt, ReportAt
  <2>2. Is(p, "fall", i) => i \in K
    BY <1>2, FallAt
  <2>3. Is(p, "first", i) \/ Is(p, "second", i) => i \in P
    BY <1>2, FirstAt, SecondAt
  <2>4. ASSUME Is(p, "second", i) PROVE p >= 4 /\ Is(p - 1, "first", i)
    <3>1. PICK k \in 1..Len(Pairs) : p = Edges + 2 * k /\ i = Pairs[k]
      BY <2>4, SecondAt, Zenon
    <3>2. p - 1 = Edges + (2 * k - 1) /\ p >= 4 /\ p - 1 \in 1..Len(Loop)
      BY Kinds, <1>1, <2>4, <3>1 DEF Is
    <3> QED BY Kinds, <3>1, <3>2, Parts DEF Is
  <2> QED BY <2>1, <2>2, <2>3, <2>4
<1>8. ASSUME NEW p \in 1..Len(Loop)
      PROVE  /\ Loop[p].op \in OpName
             /\ Loop[p].op \in {"result", "fall", "first", "second", "report"} => Loop[p].of \in Input
             /\ Loop[p].op = "check" => p = 1
             /\ Loop[p].op = "note" => p = 2
  <2>1. Loop[p] \in Op
    BY Kinds, Parts, ElementOfSeq
  <2>2. Loop[p].op \in OpName
    BY Kinds, <2>1 DEF Op
  <2>3. Loop[p].op \in {"result", "fall", "first", "second", "report"} => Loop[p].of \in Input
    <3>1. /\ \A k \in 1..Len(Keys) : Keys[k] \in Input
          /\ \A k \in 1..Len(Pairs) : Pairs[k] \in Input
          /\ \A k \in 1..Len(Results) : Results[k] \in Input
      BY Kinds, <1>2
    <3> QED BY Kinds, <3>1, Where
  <2> QED BY Kinds, <2>2, <2>3, Where
<1>9. ASSUME NEW p \in 1..Len(Loop), Loop[p].op = "down"
      PROVE  /\ AfterDowns \in 1..Len(Loop) /\ p < AfterDowns
             /\ \A op \in Once, i \in Input, q \in Nat : Is(q, op, i) /\ q >= p => q >= AfterDowns
             /\ \A i \in Input : ~Is(AfterDowns, "second", i)
  <2>1. p > 2 + Len(Results) /\ p <= Falls
    BY Kinds, <1>9, Where
  <2>2. AfterDowns \in 1..Len(Loop) /\ p < AfterDowns
    BY Kinds, <1>1, <2>1 DEF Falls
  <2>3. ASSUME NEW op \in Once, NEW i \in Input, NEW q \in Nat, Is(q, op, i), q >= p PROVE q >= AfterDowns
    <3>1. CASE op = "result"
      <4>1. PICK k \in 1..Len(Results) : q = 2 + k
        BY <2>3, <3>1, ResultAt, Zenon
      <4> QED BY Kinds, <1>1, <2>1, <2>3, <4>1
    <3>2. CASE op = "fall"
      <4>1. PICK k \in 1..Len(Keys) : q = Falls + k
        BY <2>3, <3>2, FallAt, Zenon
      <4> QED BY Kinds, <1>1, <2>1, <2>3, <4>1
    <3>3. CASE op = "second"
      <4>1. PICK k \in 1..Len(Pairs) : q = Edges + 2 * k
        BY <2>3, <3>3, SecondAt, Zenon
      <4> QED BY Kinds, <1>1, <2>1, <2>3, <4>1
    <3>4. CASE op = "report"
      <4>1. PICK k \in 1..Len(Results) : q = Reports + k
        BY <2>3, <3>4, ReportAt, Zenon
      <4> QED BY Kinds, <1>1, <2>1, <2>3, <4>1
    <3> QED BY Kinds, <3>1, <3>2, <3>3, <3>4 DEF Once
  <2>4. ASSUME NEW i \in Input, Is(AfterDowns, "second", i) PROVE FALSE
    <3>1. \E k \in 1..Len(Pairs) : AfterDowns = Edges + 2 * k
      BY <2>4, SecondAt, Zenon
    <3> QED BY Kinds, <1>1, <3>1
  <2> QED BY Kinds, <2>2, <2>3, <2>4
<1>10. Len(Loop) \in Nat /\ Len(Loop) >= 2 /\ Loop[1].op = "check" /\ Loop[2].op = "note"
  BY Kinds, <1>1, Parts
<1> QED BY <1>3, <1>4, <1>5, <1>6, <1>7, <1>8, <1>9, <1>10
-----------------------------------------------------------------------------
(* What is seen of an input.                                               *)

\* It is on, it was at the start of its edge, it comes with the next update,
\* and then from there.
On(i) == Held(cur, i)
Was(i) == Before(prev, i)
Comes(i) == Held(raw, i)
Ready(i) == Before(cur, i)

\* A switch is queried as a pair.
LEMMA LeversArePairs == ToSet(Levers) \subseteq P
<1>1. Buttons \in Seq(Input) /\ Levers \in Seq(Input) /\ Pairs = Buttons \o Levers
  BY InputAssumption DEF Pairs
<1>2. Pairs \in Seq(Input) /\ IsJoin(Pairs, Buttons, Levers)
  BY <1>1, Joined
<1>3. /\ ToSet(Levers) = {Levers[k] : k \in 1..Len(Levers)}
      /\ P = {Pairs[k] : k \in 1..Len(Pairs)}
  BY <1>1, <1>2, Elements DEF P
<1>4. \A k \in 1..Len(Levers) : Len(Buttons) + k \in 1..Len(Pairs) /\ Pairs[Len(Buttons) + k] = Levers[k]
  BY <1>2 DEF IsJoin
<1> QED BY <1>3, <1>4

\* Every query asks for a change, of something the state has a value of; a
\* result is asked for by itself.
LEMMA Asks ==
  ASSUME NEW i \in Input
  PROVE  /\ Edge(i)[1] # Edge(i)[2]
         /\ Of(i) \in Control
         /\ i \in R => Of(i) = i /\ Edge(i) = <<0, 1>> /\ i \in Control \ Switches
         /\ i \in K \cup P => Of(i) \notin R
<1>1. CASE i \in ToSet(Levers)
  <2>1. i \in P /\ i \notin R
    BY <1>1, LeversArePairs, Kinds
  <2>2. target[i] \in Switches /\ queryType[i] \in DOMAIN Ends
    BY <1>1, SwitchAssumption
  <2>3. \A q \in DOMAIN Ends : Ends[q][1] # Ends[q][2]
    BY DEF Ends, RC_SW_UP, RC_SW_DOWN, RC_SW_MID
  <2>4. Edge(i)[1] # Edge(i)[2]
    BY <1>1, <2>2, <2>3 DEF Edge
  <2>5. Of(i) \in Control /\ Of(i) \notin R
    BY <1>1, <2>2, SwitchAssumption, Kinds DEF Of, Control
  <2> QED BY <2>1, <2>4, <2>5
<1>2. CASE i \notin ToSet(Levers)
  <2>1. Of(i) = i /\ Edge(i) = <<0, 1>> /\ i \in Control /\ i \notin Switches
    BY <1>2, SwitchAssumption DEF Of, Edge, Control
  <2> QED BY <2>1, Kinds
<1> QED BY <1>1, <1>2

\* What is seen in a state depends on that state alone.
LEMMA Seen ==
  /\ \A i \in Input : /\ {On(i), Was(i), Comes(i), Ready(i)} \subseteq BOOLEAN
                      /\ {On(i)', Was(i)'} \subseteq BOOLEAN
                      /\ Ready(i) => ~On(i)
  /\ cur' = cur => \A i : On(i)' = On(i)
  /\ cur' = raw => \A i : On(i)' = Comes(i)
  /\ prev' = prev => \A i : Was(i)' = Was(i)
<1>1. \A i \in Input : /\ {On(i), Was(i), Comes(i), Ready(i)} \subseteq BOOLEAN
                       /\ {On(i)', Was(i)'} \subseteq BOOLEAN
  BY DEF On, Was, Comes, Ready, Held, Before
<1>2. \A i \in Input : Ready(i) => ~On(i)
  BY Asks DEF On, Ready, Held, Before
<1>3. /\ cur' = cur => \A i : On(i)' = On(i)
      /\ cur' = raw => \A i : On(i)' = Comes(i)
  BY DEF On, Comes, Held, Of, Edge, ToSet, Ends, RC_SW_UP, RC_SW_DOWN, RC_SW_MID
<1>4. prev' = prev => \A i : Was(i)' = Was(i)
  BY DEF Was, Before, Of, Edge, ToSet, Ends, RC_SW_UP, RC_SW_DOWN, RC_SW_MID
<1> QED BY <1>1, <1>2, <1>3, <1>4

\* A result is on or off.
LEMMA ResultOn ==
  ASSUME cur \in State, NEW i \in R PROVE Ready(i) <=> ~On(i)
<1>1. Of(i) = i /\ Edge(i) = <<0, 1>> /\ i \in Control \ Switches
  BY Asks, Kinds
<1>2. cur[i] \in 0..1
  BY <1>1 DEF State
<1> QED BY <1>1, <1>2 DEF Ready, On, Before, Held

\* An update takes what was latched for what was before.
LEMMA Latched ==
  ASSUME Update, NEW i \in K \cup P PROVE Was(i)' = Ready(i)
<1>1. /\ Of(i) \in Control /\ Of(i) \notin R
      /\ prev' = [c \in Control |-> IF c \in R THEN 0 ELSE cur[c]]
  BY Asks, Kinds DEF Update, R
<1>2. prev'[Of(i)] = cur[Of(i)]
  BY <1>1
<1>3. Was(i)' = (prev'[Of(i)] = Edge(i)[1])
  BY DEF Was, Before, Of, Edge, ToSet, Ends, RC_SW_UP, RC_SW_DOWN, RC_SW_MID
<1> QED BY <1>2, <1>3 DEF Ready, Before

\* The states' types.
LEMMA StatesTyped ==
  /\ Off \in State
  /\ raw \in State /\ cur \in State /\ prev \in State /\ (FrameArrives \/ Update) =>
       raw' \in State /\ cur' \in State /\ prev' \in State
<1>1. Off \in State
  BY DEF Off, State
<1>2. ASSUME raw \in State, cur \in State, prev \in State, FrameArrives
      PROVE  raw' \in State /\ cur' \in State /\ prev' \in State
  <2>1. raw' \in State /\ UNCHANGED <<cur, prev>>
    BY <1>2 DEF FrameArrives, updater
  <2> QED BY <1>2, <2>1
<1>3. ASSUME raw \in State, cur \in State, Update
      PROVE  raw' \in State /\ cur' \in State /\ prev' \in State
  <2>1. /\ cur' = raw /\ raw' = raw
        /\ prev' = [c \in Control |-> IF c \in ToSet(Results) THEN 0 ELSE cur[c]]
    BY <1>3 DEF Update
  <2>2. prev' \in State
    BY <1>3, <2>1 DEF State
  <2> QED BY <1>3, <2>1, <2>2
<1> QED BY <1>1, <1>2, <1>3

-----------------------------------------------------------------------------
(* The inductive invariants.                                               *)

\* The tick: it interrupts a delay or a turn of the loop no more than it may,
\* and a delay that has just begun began with ticks to the updater's next turn.
Clock ==
  /\ pc = 0 => ticks <= Nap /\ (ticks = Nap => left > 0)
  /\ pc # 0 => ticks <= ScanTicks

\* What the detectors reported last time is not reported again: while told is
\* 1 the result that stands is the one thread2 knows, or lastRes says so.
KnownResult(i) ==
  /\ told[i] \in {0, 1, Unowed}
  /\ told[i] = 1 => /\ On(i) => res[i]
                    /\ To("report", i) /\ ~To("result", i) /\ res[i] => lastRes[i]

\* The scan under way will report the press that stands ...
Now(i) ==
  /\ pc >= 3 /\ To(Tells(i), i) /\ On(i)
  /\ IF Is(pc, "second", i) THEN reg ELSE Was(i)
\* ... and so will another one before the next update.
Later(i) == On(i) /\ Was(i) /\ (pc = 2 \/ fresh)
\* Two reports are all there are.
AtMostTwo(i) ==
  /\ told[i] \in {0, 1, 2, Unowed}
  /\ told[i] = 1 => ~(Now(i) /\ Later(i))
  /\ told[i] = 2 => ~Now(i) /\ ~Later(i)

\* This holds whatever the periods.
BaseInv ==
  /\ TypeOK /\ Clock
  /\ \A i \in R : KnownResult(i)
  /\ \A i \in K \cup P : AtMostTwo(i)

\* As long as ScanTicks + Nap <= Period: an update that thread2 has still to
\* look at leaves it the time to do so, except for the first one of all.
NoneOwed == \A i \in Input : told[i] = Unowed
\* ... or has looked at one, and then at all inputs.
AllOwed == \A i \in Input : told[i] # Unowed
\* thread2 has nothing to look at.
UpToDate == pc <= 1 /\ ~fresh
\* The updater sleeps for longer than the delay and the turn still take.
Prompt ==
  \/ UpToDate
  \/ pc = 1 /\ left = 0 /\ NoneOwed
  \/ left > (IF pc = 0 THEN ticks + ScanTicks ELSE ScanTicks - ticks)

\* A press of a key or a pair is due until its step of the scan is past.
Due(i) == ~UpToDate /\ To(Tells(i), i) /\ On(i) /\ Was(i)
\* What is told of it is 0 while it is due, and 1 after that.
EdgeDue(i) == told[i] # Unowed => told[i] = IF Due(i) THEN 0 ELSE 1
\* A result is due until it has been read and compared.
ResultDue(i) ==
  IF told[i] = Unowed THEN ~res[i]
  ELSE /\ To("result", i) => told[i] = IF On(i) /\ ~res[i] THEN 0 ELSE 1
       /\ ~To("result", i) /\ To("report", i) =>
            res[i] = On(i) /\ told[i] = IF res[i] /\ ~lastRes[i] THEN 0 ELSE 1
       /\ UpToDate \/ (~To("result", i) /\ ~To("report", i)) => res[i] = On(i) /\ told[i] = 1

\* A scan is of the update noted, and of one update only.
Orderly ==
  /\ NoneOwed \/ AllOwed
  /\ pc >= 3 => AllOwed /\ ~fresh
  /\ \A i \in P : Is(pc, "second", i) => reg = Was(i)

\* This holds if thread2 is in time.
OnTimeInv ==
  /\ BaseInv /\ Prompt /\ Orderly
  /\ \A i \in K \cup P : EdgeDue(i)
  /\ \A i \in R : ResultDue(i)

-----------------------------------------------------------------------------
(* How the steps move through the loop.                                    *)

\* The constants' ranges.
LEMMA Ranges ==
  /\ Period \in Nat \ {0} /\ Nap \in Nat \ {0} /\ ScanTicks \in Nat
  /\ Len(Loop) \in Nat /\ Len(Loop) >= 2 /\ Unowed = 9
BY TimingAssumption, Steps DEF Unowed

\* The types, one variable at a time.
Typed ==
  /\ raw \in State /\ cur \in State /\ prev \in State
  /\ res \in [R -> BOOLEAN] /\ lastRes \in [R -> BOOLEAN]
  /\ fresh \in BOOLEAN /\ reg \in BOOLEAN /\ buzzer \in BOOLEAN
  /\ left \in 0..Period /\ ticks \in 0..(Nap + ScanTicks)
  /\ pc \in 0..Len(Loop)
  /\ told \in [Input -> 0..3 \cup {9}]

\* TypeOK, said in these terms.
LEMMA Types == (TypeOK <=> Typed) /\ (TypeOK' <=> Typed')
BY DEF TypeOK, R, Told, Unowed, Typed

\* Where thread2 is when it takes a step of the loop.
LEMMA InLoop ==
  ASSUME TypeOK, NEW op, At(op)
  PROVE  pc \in 1..Len(Loop) /\ Loop[pc].op = op /\ left > 0
BY Types DEF At, Typed

\* At the start of the loop everything lies ahead.
LEMMA AllAhead ==
  ASSUME NEW i \in Input
  PROVE  /\ pc \in 0..3 => To(Tells(i), i) /\ (i \in R => To("result", i))
         /\ pc' \in 0..3 => To(Tells(i), i)' /\ (i \in R => To("result", i)')
<1>1. \A p \in 3..Len(Loop) : p \in Nat
  OBVIOUS
<1>2. ASSUME pc \in 0..3 PROVE To(Tells(i), i) /\ (i \in R => To("result", i))
  BY <1>1, <1>2, Steps DEF To
<1>3. ASSUME pc' \in 0..3 PROVE To(Tells(i), i)' /\ (i \in R => To("result", i)')
  <2>1. \A p \in 3..Len(Loop) : p >= pc'
    BY <1>3
  <2>2. \E p \in Nat : p >= pc' /\ Is(p, Tells(i), i)
    BY <1>1, <2>1, Steps
  <2>3. i \in R => \E p \in Nat : p >= pc' /\ Is(p, "result", i)
    BY <1>1, <2>1, Steps
  <2> QED BY <2>2, <2>3 DEF To, Is, Tells
<1> QED BY <1>2, <1>3

\* The step after the present one leaves it behind, and nothing else.
LEMMA OneOn ==
  ASSUME pc \in 1..Len(Loop), pc' = pc + 1, NEW op \in Once, NEW i \in Input
  PROVE  To(op, i)' <=> To(op, i) /\ ~Is(pc, op, i)
<1>1. ASSUME To(op, i)' PROVE To(op, i) /\ ~Is(pc, op, i)
  <2>1. PICK p \in Nat : p >= pc' /\ Is(p, op, i)
    BY <1>1 DEF To, Is
  <2>2. p > pc /\ pc \in Nat
    BY <2>1, Ranges
  <2> QED BY <2>1, <2>2, Steps DEF To
<1>2. ASSUME To(op, i), ~Is(pc, op, i) PROVE To(op, i)'
  <2>1. PICK p \in Nat : p >= pc /\ Is(p, op, i)
    BY <1>2 DEF To
  <2>2. p >= pc'
    BY <1>2, <2>1, Ranges
  <2> QED BY <2>1, <2>2 DEF To, Is
<1> QED BY <1>1, <1>2

\* So does the end of the turn, with which all lies ahead again.
LEMMA Onward ==
  ASSUME pc \in 1..Len(Loop), GoOn, NEW op \in Once, NEW i \in Input
  PROVE  \/ pc' = pc + 1 /\ pc' \in 1..Len(Loop) /\ ticks' = ticks
            /\ (To(op, i)' <=> To(op, i) /\ ~Is(pc, op, i))
         \/ pc' = 0 /\ ticks' = Nap /\ (To(op, i) => Is(pc, op, i))
<1>1. CASE pc < Len(Loop)
  BY <1>1, OneOn, Ranges DEF GoOn
<1>2. CASE pc = Len(Loop)
  BY <1>2, Ranges DEF GoOn, To, Is
<1> QED BY <1>1, <1>2, Ranges

\* The queries of what is down are no more than skipped.
LEMMA Skip ==
  ASSUME TypeOK, Down, NEW op \in Once, NEW i \in Input
  PROVE  /\ pc' \in 4..Len(Loop) /\ pc >= 3 /\ ~Is(pc, op, i)
         /\ (To(op, i)' <=> To(op, i))
<1>1. pc \in 1..Len(Loop) /\ Loop[pc].op = "down"
  BY InLoop DEF Down
<1>2. pc >= 3 /\ ~Is(pc, op, i)
  <2>1. pc # 1 /\ pc # 2
    BY <1>1, Steps
  <2>2. ~Is(pc, op, i)
    BY <1>1 DEF Is, Once
  <2> QED BY <1>1, <2>1, <2>2
<1>3. CASE pc' = pc + 1
  BY <1>1, <1>2, <1>3, OneOn, Steps
<1>4. CASE pc' = AfterDowns
  <2>1. pc' > pc /\ pc' \in 1..Len(Loop)
    BY <1>1, <1>4, Steps
  <2>2. \A q \in Nat : Is(q, op, i) => (q >= pc <=> q >= pc')
    BY <1>1, <1>4, <2>1, Steps
  <2>3. To(op, i)' <=> To(op, i)
    BY <2>2 DEF To, Is
  <2>4. pc' \in 4..Len(Loop)
    BY <1>1, <1>2, <2>1
  <2> QED BY <1>2, <2>3, <2>4
<1> QED BY <1>3, <1>4 DEF Down

-----------------------------------------------------------------------------
(* Types and the tick.                                                     *)

\* The place in the loop and the ticks, as a step of the loop leaves them.
Placed == pc' \in 0..Len(Loop) /\ ticks' \in 0..(Nap + ScanTicks) /\ Clock'

\* A step to the next place keeps them.
LEMMA GoOnPlaced ==
  ASSUME TypeOK, Clock, NEW op, At(op), GoOn, left' = left PROVE Placed
<1>1. pc \in 1..Len(Loop) /\ left > 0
  BY InLoop
<1>2. ticks \in 0..ScanTicks
  BY <1>1, Ranges, Types DEF Clock, Typed
<1>3. (pc' = pc + 1 /\ pc' \in 1..Len(Loop) /\ ticks' = ticks) \/ (pc' = 0 /\ ticks' = Nap)
  BY <1>1, Ranges DEF GoOn
<1> QED BY <1>1, <1>2, <1>3, Ranges DEF Placed, Clock

\* Reporting an input keeps what is told within its range.
LEMMA ReportTyped ==
  ASSUME TypeOK, NEW i \in Input, Report(i) PROVE told' \in [Input -> 0..3 \cup {9}]
<1>1. told \in [Input -> 0..3 \cup {9}]
  BY Types DEF Typed
<1>2. \A n \in 0..3 \cup {9} : (IF n \in {3, 9} THEN n ELSE n + 1) \in 0..3 \cup {9}
  OBVIOUS
<1>3. told' = [told EXCEPT ![i] = IF told[i] \in {3, 9} THEN told[i] ELSE told[i] + 1]
  BY Ranges DEF Report
<1> QED BY <1>1, <1>2, <1>3

\* Every step of thread2 keeps the types.
LEMMA ReadingTyped ==
  ASSUME TypeOK, Clock, Reading PROVE TypeOK' /\ Clock'
<1> USE Types, Ranges DEF Typed
<1>1. CASE Awake
  BY <1>1 DEF Awake, updater, Clock
<1>2. CASE Check
  <2>1. UNCHANGED <<raw, updater, reg, fresh, res, lastRes, buzzer, told>>
    BY <1>2 DEF Check
  <2>2. Placed
    <3>1. CASE fresh
      BY <1>2, <2>1, <3>1, GoOnPlaced DEF Check, updater
    <3>2. CASE ~fresh
      BY <1>2, <2>1, <3>2, InLoop DEF Check, updater, Placed, Clock
    <3> QED BY <3>1, <3>2
  <2> QED BY <2>1, <2>2 DEF updater, Placed
<1>3. CASE Note
  <2>1. UNCHANGED <<raw, updater, reg, res, lastRes, buzzer>> /\ fresh' \in BOOLEAN
    BY <1>3 DEF Note
  <2>2. Placed
    BY <1>3, <2>1, GoOnPlaced DEF Note, updater
  <2>3. told' \in [Input -> 0..3 \cup {9}]
    BY <1>3 DEF Note
  <2> QED BY <2>1, <2>2, <2>3 DEF updater, Placed
<1>4. CASE ReadResult
  <2>1. UNCHANGED <<raw, updater, reg, fresh, buzzer, told>>
    BY <1>4 DEF ReadResult
  <2>2. Placed
    BY <1>4, <2>1, GoOnPlaced DEF ReadResult, updater
  <2>3. Asked \in R
    <3>1. pc \in 1..Len(Loop) /\ Loop[pc].op = "result"
      BY <1>4, InLoop DEF ReadResult
    <3>2. Asked \in Input
      BY <3>1, Steps DEF Asked
    <3>3. Is(pc, "result", Asked) /\ pc \in Nat
      BY <3>1 DEF Is, Asked
    <3> QED BY <3>2, <3>3, Steps, Zenon
  <2>4. Asked \in Input
    BY <2>3, Kinds
  <2>5. res' \in [R -> BOOLEAN] /\ lastRes' \in [R -> BOOLEAN]
    BY <1>4, <2>3, <2>4, Seen DEF ReadResult, On
  <2> QED BY <2>1, <2>2, <2>5 DEF updater, Placed
<1>5. CASE Down
  <2>1. UNCHANGED <<raw, updater, reg, fresh, res, lastRes, ticks, told>>
    BY <1>5 DEF Down
  <2>2. pc \in 1..Len(Loop) /\ Loop[pc].op = "down"
    BY <1>5, InLoop DEF Down
  <2>6. AfterDowns \in 1..Len(Loop) /\ pc < AfterDowns
    BY <2>2, Steps
  <2>7. pc' = pc + 1 \/ pc' = AfterDowns
    BY <1>5 DEF Down
  <2>3. pc' \in 1..Len(Loop)
    BY <2>2, <2>6, <2>7
  <2>4. Clock'
    BY <2>1, <2>2, <2>3 DEF Clock
  <2>5. buzzer' \in BOOLEAN
    BY <1>5 DEF Down
  <2> QED BY <2>1, <2>3, <2>4, <2>5 DEF updater
<1>6. CASE Fall \/ SecondRead \/ ReportResult
  <2>1. UNCHANGED <<raw, updater, fresh, res, lastRes, buzzer>> /\ reg' \in BOOLEAN
    BY <1>6 DEF Fall, SecondRead, ReportResult
  <2>2. Placed
    BY <1>6, <2>1, GoOnPlaced DEF Fall, SecondRead, ReportResult, updater
  <2>3. Asked \in Input
    BY <1>6, InLoop, Steps DEF Fall, SecondRead, ReportResult, Asked
  <2>4. told' \in [Input -> 0..3 \cup {9}]
    BY <1>6, <2>3, ReportTyped DEF Fall, SecondRead, ReportResult
  <2> QED BY <2>1, <2>2, <2>4 DEF updater, Placed
<1>7. CASE FirstRead
  <2>1. UNCHANGED <<raw, updater, fresh, res, lastRes, buzzer, told>>
    BY <1>7 DEF FirstRead
  <2>2. Placed
    BY <1>7, <2>1, GoOnPlaced DEF FirstRead, updater
  <2>3. Asked \in Input
    BY <1>7, InLoop, Steps DEF FirstRead, Asked
  <2>4. reg' \in BOOLEAN
    BY Seen, <1>7, <2>3 DEF FirstRead, On, Was
  <2> QED BY <2>1, <2>2, <2>4 DEF updater, Placed
<1> QED BY <1>1, <1>2, <1>3, <1>4, <1>5, <1>6, <1>7 DEF Reading

\* Every step does.
LEMMA NextTyped ==
  ASSUME TypeOK, Clock, [Next]_vars PROVE TypeOK' /\ Clock'
<1> USE Types, Ranges DEF Typed
<1>1. CASE FrameArrives
  BY <1>1 DEF FrameArrives, updater, reader, Clock
<1>2. CASE Tick
  <2>1. UNCHANGED <<raw, prev, cur, pc, reg, fresh, res, lastRes, buzzer, told>>
    BY <1>2 DEF Tick, reader
  <2>2. left' \in 0..Period /\ ticks' \in 0..(Nap + ScanTicks) /\ Clock'
    BY <1>2, <2>1 DEF Tick, Clock
  <2> QED BY <2>1, <2>2
<1>3. CASE Update
  <2>1. UNCHANGED <<pc, reg, res, lastRes, buzzer, ticks>>
        /\ left' = Period /\ fresh' \in BOOLEAN
    BY <1>3 DEF Update, reader
  <2>2. told' \in [Input -> 0..3 \cup {9}]
    BY <1>3 DEF Update
  <2>3. Clock'
    BY <2>1 DEF Clock
  <2>4. raw' \in State /\ cur' \in State /\ prev' \in State
    BY <1>3, StatesTyped
  <2> QED BY <2>1, <2>2, <2>3, <2>4
<1>4. CASE UNCHANGED vars
  BY <1>4 DEF vars, updater, reader, Clock
<1> QED BY <1>1, <1>2, <1>3, <1>4, ReadingTyped DEF Next

-----------------------------------------------------------------------------
(* Results are never reported twice.                                       *)

\* What an Update and a frame do to what is told of an input.
LEMMA UpdateTells ==
  ASSUME TypeOK, Update, NEW i \in Input
  PROVE  /\ UNCHANGED <<raw, pc, reg, res, lastRes, ticks>> /\ left' = Period /\ left = 0 /\ fresh'
         /\ On(i)' = Comes(i) /\ (i \in K \cup P => Was(i)' = Ready(i))
         /\ told'[i] = IF told[i] = Unowed \/ On(i) \/ ~Comes(i) THEN told[i]
                       ELSE IF Ready(i) THEN 0 ELSE 1
         /\ \A op : To(op, i)' <=> To(op, i)
<1>1. /\ UNCHANGED <<raw, pc, reg, res, lastRes, ticks>> /\ left' = Period /\ left = 0 /\ fresh'
      /\ cur' = raw
  BY DEF Update, reader
<1>2. told'[i] = IF told[i] = Unowed \/ On(i) \/ ~Comes(i) THEN told[i]
                 ELSE IF Ready(i) THEN 0 ELSE 1
  BY DEF Update, Pressed, On, Comes, Ready
<1>3. \A op : To(op, i)' <=> To(op, i)
  BY <1>1 DEF To, Is
<1> QED BY <1>1, <1>2, <1>3, Seen, Latched

\* The result's invariant is kept by what neither touches the input nor takes
\* thread2 from the reading to the report.
LEMMA KnownLeft ==
  ASSUME NEW i \in R, KnownResult(i),
         told'[i] = told[i], On(i)' = On(i), res'[i] = res[i], lastRes'[i] = lastRes[i],
         To("report", i)' /\ ~To("result", i)' => To("report", i) /\ ~To("result", i)
  PROVE  KnownResult(i)'
BY DEF KnownResult, Unowed

\* A step of thread2 that is not about the input does not.
LEMMA NotReading ==
  ASSUME TypeOK, NEW op, At(op), GoOn, NEW i \in R, ~Is(pc, "result", i)
  PROVE  To("report", i)' /\ ~To("result", i)' => To("report", i) /\ ~To("result", i)
<1>1. pc \in 1..Len(Loop) /\ i \in Input
  BY InLoop, Kinds
<1>2. CASE pc' = 0
  BY <1>1, <1>2, AllAhead
<1>3. CASE pc' # 0
  BY <1>1, <1>3, Onward DEF Once
<1> QED BY <1>2, <1>3

\* What thread2 asks at a step, and what a report does.
LEMMA Asking ==
  ASSUME TypeOK, NEW op \in {"result", "fall", "first", "second", "report"}, At(op)
  PROVE  Asked \in Input /\ Is(pc, op, Asked) /\ \A x \in OpName, j \in Input : Is(pc, x, j) => x = op /\ j = Asked
BY InLoop, Steps DEF Asked, Is

\* What a report does to what is told.
LEMMA Reporting ==
  ASSUME TypeOK, NEW i \in Input, Report(i)
  PROVE  /\ told'[i] = IF told[i] \in {3, 9} THEN told[i] ELSE told[i] + 1
         /\ \A j \in Input : j # i => told'[j] = told[j]
BY Types DEF Typed, Report, Unowed

\* Reading a result, and reporting it.
LEMMA KnownRead ==
  ASSUME TypeOK, NEW i \in R, KnownResult(i), ReadResult PROVE KnownResult(i)'
<1> USE Types DEF Typed
<1>1. /\ i \in Input /\ Asked \in R /\ Is(pc, "result", Asked) /\ UNCHANGED <<told, cur>>
      /\ res' = [res EXCEPT ![Asked] = On(Asked)] /\ lastRes' = [lastRes EXCEPT ![Asked] = res[Asked]]
      /\ On(i) \in BOOLEAN /\ res[i] \in BOOLEAN
  BY Seen, Kinds, Asking, Steps DEF ReadResult, updater, On, Was
<1>2. CASE Asked = i
  <2>1. res'[i] = On(i) /\ lastRes'[i] = res[i]
    BY <1>1, <1>2
  <2> QED BY Seen, <1>1, <2>1 DEF KnownResult
<1>3. CASE Asked # i
  <2>1. res'[i] = res[i] /\ lastRes'[i] = lastRes[i]
    BY <1>1, <1>3
  <2>2. ~Is(pc, "result", i)
    BY <1>1, <1>3 DEF Is
  <2> QED BY Seen, <1>1, <2>1, <2>2, NotReading, KnownLeft DEF ReadResult, On, Was
<1> QED BY <1>2, <1>3

\* The report leaves a known result: it cannot come again before the next reading.
LEMMA KnownReport ==
  ASSUME TypeOK, NEW i \in R, KnownResult(i), ReportResult PROVE KnownResult(i)'
<1>1. /\ i \in Input /\ Asked \in R /\ Asked \in Input /\ Is(pc, "report", Asked) /\ GoOn
      /\ UNCHANGED <<cur, res, lastRes>> /\ pc \in 1..Len(Loop) /\ pc \in Nat
      /\ IF res[Asked] /\ ~lastRes[Asked] THEN Report(Asked) ELSE UNCHANGED told
  BY Kinds, Asking, Steps, InLoop, Types DEF ReportResult, updater, Typed
<1>2. ~Is(pc, "result", i)
  BY <1>1 DEF Is
<1>3. CASE told'[i] = told[i]
  BY Seen, <1>1, <1>2, <1>3, NotReading, KnownLeft DEF ReportResult
<1>4. CASE told'[i] # told[i]
  <2>1. Asked = i /\ res[i] /\ ~lastRes[i] /\ Report(i)
    BY <1>1, <1>4, Reporting
  <2>2. To("report", i) /\ ~To("result", i)
    <3>1. To("report", i)
      BY <1>1, <2>1 DEF To
    <3>2. ~To("result", i)
      BY <1>1, <2>1, Steps DEF To
    <3> QED BY <3>1, <3>2
  <2>3. told[i] = 0 /\ told'[i] = 1
    BY <1>1, <1>4, <2>1, <2>2, Reporting DEF KnownResult, Unowed
  <2>4. ~(To("report", i)' /\ ~To("result", i)')
    <3>1. CASE pc' = 0
      BY <1>1, <3>1, AllAhead
    <3>2. CASE pc' # 0
      BY <1>1, <2>1, <3>2, Onward DEF Once
    <3> QED BY <3>1, <3>2
  <2> QED BY <1>1, <2>1, <2>3, <2>4 DEF KnownResult
<1> QED BY <1>3, <1>4

\* Every step keeps it.
LEMMA KnownStep ==
  ASSUME TypeOK, NEW i \in R, KnownResult(i), [Next]_vars PROVE KnownResult(i)'
<1>0. i \in Input /\ On(i) \in BOOLEAN /\ res[i] \in BOOLEAN /\ Comes(i) \in BOOLEAN
  BY Seen, Kinds, Types DEF Typed
<1>1. CASE FrameArrives \/ Tick \/ UNCHANGED vars
  <2>1. UNCHANGED <<told, cur, res, lastRes, pc>>
    BY <1>1 DEF FrameArrives, Tick, vars, updater, reader
  <2> QED BY Seen, <2>1, KnownLeft DEF To, Is
<1>2. CASE Update
  <2>1. /\ UNCHANGED <<res, lastRes>> /\ On(i)' = Comes(i) /\ (Ready(i) <=> ~On(i))
        /\ told'[i] = IF told[i] = Unowed \/ On(i) \/ ~Comes(i) THEN told[i]
                      ELSE IF Ready(i) THEN 0 ELSE 1
        /\ (To("report", i)' <=> To("report", i)) /\ (To("result", i)' <=> To("result", i))
    BY <1>0, <1>2, UpdateTells, ResultOn, Types DEF Typed
  <2>2. CASE told'[i] = 0 \/ told'[i] = Unowed
    BY <2>2 DEF KnownResult, Unowed
  <2>3. CASE told'[i] = told[i] /\ (On(i) \/ ~Comes(i))
    <3>1. On(i)' => On(i)
      BY <2>1, <2>3, Zenon
    <3> QED BY <2>1, <2>3, <3>1 DEF KnownResult
  <2> QED BY <2>1, <2>2, <2>3
<1>3. CASE Awake
  <2>1. UNCHANGED <<told, cur, res, lastRes>> /\ pc' \in 0..3
    BY <1>3 DEF Awake, updater
  <2> QED BY Seen, <1>0, <2>1, AllAhead, KnownLeft
<1>4. CASE Check
  <2>1. UNCHANGED <<told, cur, res, lastRes>> /\ pc' \in 0..3
    BY <1>4, InLoop, Steps DEF Check, updater, GoOn
  <2> QED BY Seen, <1>0, <2>1, AllAhead, KnownLeft
<1>5. CASE Note
  <2>5. pc = 2
    BY <1>5, InLoop, Steps DEF Note
  <2>1. UNCHANGED <<cur, res, lastRes>> /\ pc' \in 0..3
    BY <1>5, <2>5 DEF Note, updater, GoOn
  <2>2. told'[i] = IF told[i] # Unowed THEN told[i] ELSE IF On(i) THEN 0 ELSE 1
    BY Seen, <1>0, <1>5 DEF Note, R, On, Was
  <2>3. CASE told[i] # Unowed
    BY Seen, <1>0, <2>1, <2>2, <2>3, AllAhead, KnownLeft
  <2>4. CASE told[i] = Unowed
    BY Seen, <1>0, <2>1, <2>2, <2>4, AllAhead DEF KnownResult
  <2> QED BY <2>3, <2>4
<1>6. CASE Down
  <2>1. UNCHANGED <<told, cur, res, lastRes>>
    BY <1>6 DEF Down, updater
  <2> QED BY Seen, <1>0, <1>6, <2>1, Skip, KnownLeft DEF Once
<1>7. CASE Fall \/ FirstRead \/ SecondRead
  <2>1. PICK op \in {"fall", "first", "second"} :
          /\ At(op) /\ GoOn /\ UNCHANGED <<cur, res, lastRes>>
          /\ Report(Asked) \/ UNCHANGED told
    BY <1>7 DEF Fall, FirstRead, SecondRead, updater
  <2>2. Asked \in Input /\ Is(pc, op, Asked) /\ pc \in Nat
    BY <2>1, Asking, InLoop
  <2>3. Asked # i /\ ~Is(pc, "result", i)
    BY <2>1, <2>2, Steps, Kinds DEF Is
  <2>4. told'[i] = told[i]
    BY <1>0, <2>1, <2>2, <2>3, Reporting
  <2> QED BY Seen, <2>1, <2>3, <2>4, NotReading, KnownLeft
<1> QED BY <1>1, <1>2, <1>3, <1>4, <1>5, <1>6, <1>7, KnownRead, KnownReport DEF Next, Reading

-----------------------------------------------------------------------------
(* Presses of keys and pairs are reported twice at most.                   *)

\* What a step of the scan does to what is told of a key or a pair.
LEMMA EdgeOutcome ==
  ASSUME TypeOK, NEW i \in K \cup P, ReadResult \/ Fall \/ FirstRead \/ SecondRead \/ ReportResult
  PROVE  /\ pc \in 3..Len(Loop) /\ GoOn /\ UNCHANGED <<raw, cur, prev, fresh, left>>
         /\ Is(pc, "first", i) => reg' = Was(i)
         /\ IF Is(pc, Tells(i), i) /\ On(i) /\ (IF Is(pc, "second", i) THEN reg ELSE Was(i))
            THEN told'[i] = IF told[i] \in {3, 9} THEN told[i] ELSE told[i] + 1
            ELSE told'[i] = told[i]
<1>1. i \in Input /\ i \notin R /\ (i \in K <=> i \notin P)
  BY Kinds
<1>2. PICK op \in {"result", "fall", "first", "second", "report"} :
        /\ At(op) /\ GoOn /\ UNCHANGED <<raw, cur, prev, fresh, left>>
        /\ op = "result" => UNCHANGED told
        /\ op = "fall" => IF On(Asked) /\ Was(Asked) THEN Report(Asked) ELSE UNCHANGED told
        /\ op = "first" => UNCHANGED told /\ reg' = Was(Asked)
        /\ op = "second" => IF On(Asked) /\ reg THEN Report(Asked) ELSE UNCHANGED told
        /\ op = "report" => Report(Asked) \/ UNCHANGED told
  BY Seen DEF ReadResult, Fall, FirstRead, SecondRead, ReportResult, updater, On, Was
<1>3. /\ Asked \in Input /\ Is(pc, op, Asked) /\ pc \in 1..Len(Loop) /\ pc \in Nat
      /\ \A x \in OpName, j \in Input : Is(pc, x, j) => x = op /\ j = Asked
  BY <1>2, Asking, InLoop
<1>4. pc \in 3..Len(Loop)
  <2>1. Loop[1].op = "check" /\ Loop[2].op = "note" /\ Loop[pc].op = op
    BY <1>3, Steps DEF Is
  <2>2. pc # 1 /\ pc # 2
    BY <2>1
  <2> QED BY <1>3, <2>2
<1>5. Is(pc, "first", i) => reg' = Was(i)
  BY <1>1, <1>2, <1>3 DEF OpName
<1>6. Tells(i) \in {"fall", "second"} /\ (i \in K => Tells(i) = "fall") /\ (i \in P => Tells(i) = "second")
  BY <1>1 DEF Tells
<1>7. IF Is(pc, Tells(i), i) /\ On(i) /\ (IF Is(pc, "second", i) THEN reg ELSE Was(i))
      THEN told'[i] = IF told[i] \in {3, 9} THEN told[i] ELSE told[i] + 1
      ELSE told'[i] = told[i]
  <2>1. CASE Asked # i
    <3>1. ~Is(pc, Tells(i), i)
      BY <1>1, <1>3, <1>6, <2>1 DEF OpName
    <3>2. told'[i] = told[i]
      BY <1>1, <1>2, <1>3, <2>1, Reporting
    <3> QED BY <3>1, <3>2
  <2>2. CASE Asked = i /\ i \in K
    <3>1. op = "fall" /\ ~Is(pc, "second", i) /\ Is(pc, Tells(i), i)
      <4>1. op # "result" /\ op # "report" /\ op # "first" /\ op # "second"
        BY <1>1, <1>3, <2>2, Steps
      <4> QED BY <1>1, <1>3, <1>6, <2>2, <4>1 DEF OpName
    <3> QED BY <1>1, <1>2, <2>2, <3>1, Reporting
  <2>3. CASE Asked = i /\ i \in P
    <3>1. op = "first" \/ op = "second"
      BY <1>1, <1>3, <2>3, Steps
    <3>2. CASE op = "first"
      BY <1>1, <1>2, <1>3, <1>6, <2>3, <3>2 DEF OpName
    <3>3. CASE op = "second"
      <4>1. Is(pc, "second", i) /\ Is(pc, Tells(i), i)
        BY <1>3, <1>6, <2>3, <3>3
      <4> QED BY <1>1, <1>2, <2>3, <3>3, <4>1, Reporting
    <3> QED BY <3>1, <3>2, <3>3
  <2> QED BY <2>1, <2>2, <2>3
<1> QED BY <1>2, <1>4, <1>5, <1>7

\* A second read is always come to from the first.
LEMMA SecondFollows ==
  ASSUME pc \in 1..Len(Loop), NEW i \in Input, Is(pc', "second", i)
  PROVE  pc' = pc + 1 => Is(pc, "first", i)
<1>1. pc' \in Nat
  BY DEF Is
<1>2. Is(pc' - 1, "first", i)
  BY <1>1, Steps
<1> QED BY <1>2, Ranges

\* What brings neither this report nor another one nearer.
LEMMA TwoLeft ==
  ASSUME NEW i \in K \cup P, AtMostTwo(i), told'[i] = told[i],
         Now(i)' => Now(i), Later(i)' => Later(i)
  PROVE  AtMostTwo(i)'
BY DEF AtMostTwo, Unowed

\* A step of the scan: a report is one fewer to come.
LEMMA TwoRead ==
  ASSUME TypeOK, NEW i \in K \cup P, AtMostTwo(i),
         ReadResult \/ Fall \/ FirstRead \/ SecondRead \/ ReportResult
  PROVE  AtMostTwo(i)'
<1>1. /\ i \in Input /\ Tells(i) \in Once /\ told[i] \in 0..3 \cup {9}
      /\ \A p \in Nat : Is(p, "second", i) => Tells(i) = "second"
  BY Kinds, Steps, Types DEF Tells, Once, Typed
<1>2. /\ pc \in 3..Len(Loop) /\ GoOn /\ UNCHANGED <<raw, cur, prev, fresh, left>>
      /\ Is(pc, "first", i) => reg' = Was(i)
      /\ IF Is(pc, Tells(i), i) /\ On(i) /\ (IF Is(pc, "second", i) THEN reg ELSE Was(i))
         THEN told'[i] = IF told[i] \in {3, 9} THEN told[i] ELSE told[i] + 1
         ELSE told'[i] = told[i]
  BY EdgeOutcome
<1>3. pc \in 1..Len(Loop) /\ pc \in Nat
  BY <1>2, Ranges
<1>4. Later(i)' => Later(i)
  BY Seen, <1>2, <1>3, Ranges DEF Later, GoOn
<1>5. Now(i)' => Now(i) /\ ~Is(pc, Tells(i), i)
  <2> SUFFICES ASSUME Now(i)' PROVE Now(i) /\ ~Is(pc, Tells(i), i)
    OBVIOUS
  <2>1. pc' = pc + 1 /\ To(Tells(i), i) /\ ~Is(pc, Tells(i), i)
    <3>1. To(Tells(i), i)' /\ pc' >= 3
      BY DEF Now, Tells
    <3> QED BY <1>1, <1>2, <1>3, <3>1, Onward
  <2>2. ~Is(pc, "second", i)
    BY <1>1, <1>3, <2>1
  <2>3. CASE Is(pc', "second", i)
    <3>1. Is(pc, "first", i) /\ reg' /\ On(i)'
      BY <1>1, <1>3, <2>1, <2>3, SecondFollows DEF Now, Is
    <3>2. reg' = Was(i) /\ On(i)' = On(i)
      BY Seen, <1>2, <3>1
    <3>3. Was(i) /\ On(i)
      BY <3>1, <3>2, Zenon
    <3> QED BY <1>2, <2>1, <2>2, <3>3 DEF Now
  <2>4. CASE ~Is(pc', "second", i)
    <3>1. Was(i)' /\ On(i)'
      BY <2>4 DEF Now, Is
    <3> QED BY Seen, <1>2, <2>1, <2>2, <3>1 DEF Now
  <2> QED BY <2>3, <2>4
<1>6. CASE told'[i] = told[i]
  BY <1>4, <1>5, <1>6, TwoLeft
<1>7. CASE told'[i] # told[i]
  <2>1. /\ Is(pc, Tells(i), i) /\ told'[i] = told[i] + 1 /\ told[i] \notin {3, 9}
        /\ On(i) /\ (IF Is(pc, "second", i) THEN reg ELSE Was(i))
    BY <1>2, <1>7
  <2>2. Now(i)
    BY <1>2, <1>3, <2>1 DEF Now, To
  <2>3. ~Now(i)'
    BY <1>5, <2>1
  <2>4. CASE told[i] = 0
    <3>1. told'[i] = 1
      BY <2>1, <2>4
    <3> QED BY <2>3, <3>1 DEF AtMostTwo
  <2>5. CASE told[i] = 1
    <3>1. told'[i] = 2 /\ ~Later(i)
      BY <2>1, <2>2, <2>5 DEF AtMostTwo
    <3> QED BY <1>4, <2>3, <3>1 DEF AtMostTwo
  <2> QED BY <1>1, <2>1, <2>2, <2>4, <2>5 DEF AtMostTwo, Unowed
<1> QED BY <1>6, <1>7

\* Every step of the system keeps it.
LEMMA TwoStep ==
  ASSUME TypeOK, NEW i \in K \cup P, AtMostTwo(i), [Next]_vars PROVE AtMostTwo(i)'
<1>1. /\ i \in Input /\ i \notin R /\ told[i] \in 0..3 \cup {9}
      /\ On(i) \in BOOLEAN /\ Comes(i) \in BOOLEAN /\ Was(i) \in BOOLEAN
  BY Seen, Kinds, Types DEF Typed
<1>2. CASE FrameArrives \/ Tick \/ UNCHANGED vars
  <2>1. UNCHANGED <<told, cur, prev, fresh, reg, pc>>
    BY <1>2 DEF FrameArrives, Tick, vars, updater, reader
  <2>2. (Now(i)' <=> Now(i)) /\ (Later(i)' <=> Later(i))
    BY Seen, <2>1 DEF Now, Later, To, Is, Tells
  <2> QED BY <2>1, <2>2, TwoLeft
<1>3. CASE Update
  <2>1. UNCHANGED <<pc, reg>> /\ (To(Tells(i), i)' <=> To(Tells(i), i))
    <3>1. Tells(i)' = Tells(i)
      BY DEF Tells
    <3> QED BY <1>1, <1>3, <3>1, UpdateTells
  <2>2. /\ On(i)' = Comes(i) /\ Was(i)' = Ready(i)
        /\ told'[i] = IF told[i] = Unowed \/ On(i) \/ ~Comes(i) THEN told[i]
                      ELSE IF Ready(i) THEN 0 ELSE 1
    BY <1>1, <1>3, UpdateTells
  <2>3. CASE told'[i] = 0 \/ told'[i] = Unowed
    BY <2>3 DEF AtMostTwo, Unowed
  <2>4. CASE On(i) \/ ~Comes(i) \/ ~Ready(i)
    <3>1. ~(On(i)' /\ Was(i)')
      <4>1. Ready(i) => ~On(i)
        BY <1>1, Seen
      <4> QED BY <2>2, <2>4, <4>1, Zenon
    <3>2. ~Later(i)'
      BY <3>1, Zenon DEF Later
    <3>3. CASE told'[i] = told[i] /\ (On(i) \/ ~Comes(i))
      <4>1. Now(i)' => Now(i)
        <5>1. On(i)' => On(i)
          BY <2>2, <3>3, Zenon
        <5> QED BY <2>1, <3>1, <5>1 DEF Now, Is
      <4> QED BY <3>2, <3>3, <4>1, TwoLeft
    <3>4. CASE told'[i] = 1
      BY <3>2, <3>4 DEF AtMostTwo, Unowed
    <3> QED BY <2>2, <2>3, <3>3, <3>4
  <2> QED BY <2>2, <2>3, <2>4
<1>4. CASE Awake \/ Check
  <2>1. UNCHANGED <<told, cur, prev, fresh>>
    BY <1>4 DEF Awake, Check, updater
  <2>2. /\ pc' \in {0, 1, 2} /\ pc \in {0, 1}
        /\ pc' = 2 => fresh
    <3>1. Check => pc = 1
      BY InLoop, Steps DEF Check
    <3> QED BY <1>4, <3>1 DEF Awake, Check, GoOn
  <2>3. ~Now(i)' /\ (Later(i)' => Later(i))
    BY Seen, <2>1, <2>2 DEF Now, Later
  <2> QED BY <2>1, <2>3, TwoLeft
<1>5. CASE Note
  <2>1. pc = 2
    BY <1>5, InLoop, Steps DEF Note
  <2>2. /\ UNCHANGED <<cur, prev>> /\ ~fresh' /\ pc' \in {0, 3}
        /\ told'[i] = IF told[i] # Unowed THEN told[i]
                      ELSE IF On(i) /\ Was(i) THEN 0 ELSE 1
    BY Seen, <1>1, <1>5, <2>1 DEF Note, updater, GoOn, R, On, Was
  <2>3. ~Later(i)'
    BY <2>2 DEF Later
  <2>4. ~Is(3, "second", i)
    BY <1>1, Steps
  <2>5. Now(i)' => On(i) /\ Was(i)
    BY Seen, <2>2, <2>4 DEF Now, Is
  <2>6. On(i) /\ Was(i) => Later(i)
    BY <2>1 DEF Later
  <2> QED BY <1>1, <2>2, <2>3, <2>5, <2>6 DEF AtMostTwo, Unowed
<1>6. CASE Down
  <2>1. UNCHANGED <<told, cur, prev, fresh, reg>> /\ Tells(i) \in Once
    BY <1>6 DEF Down, updater, Tells, Once
  <2>2. pc' \in 4..Len(Loop) /\ pc >= 3 /\ (To(Tells(i), i)' <=> To(Tells(i), i))
        /\ ~Is(pc, "second", i) /\ ~Is(pc, "first", i)
    <3>1. Tells(i)' = Tells(i)
      BY DEF Tells
    <3>2. pc \in 1..Len(Loop) /\ Loop[pc].op = "down"
      BY <1>6, InLoop DEF Down
    <3> QED BY <1>1, <1>6, <2>1, <3>1, <3>2, Skip DEF Once, Is
  <2>3. ~Is(pc', "second", i)
    <3>1. pc \in 1..Len(Loop) /\ Loop[pc].op = "down"
      BY <1>6, InLoop DEF Down
    <3>2. pc' = pc + 1 \/ pc' = AfterDowns
      BY <1>6 DEF Down
    <3>3. ~Is(AfterDowns, "second", i)
      BY <1>1, <3>1, Steps
    <3> QED BY <1>1, <2>2, <3>1, <3>2, <3>3, SecondFollows
  <2>4. (Now(i)' => Now(i)) /\ (Later(i)' => Later(i))
    BY Seen, <2>1, <2>2, <2>3 DEF Now, Later, Is
  <2> QED BY <2>1, <2>4, TwoLeft
<1> QED BY <1>2, <1>3, <1>4, <1>5, <1>6, TwoRead DEF Next, Reading

\* The invariant holds initially, and every step keeps it.
LEMMA InitBase == Init => BaseInv
<1> SUFFICES ASSUME Init PROVE BaseInv
  OBVIOUS
<1>1. TypeOK
  <2>1. /\ raw \in State /\ cur \in State /\ prev \in State
        /\ res \in [R -> BOOLEAN] /\ lastRes \in [R -> BOOLEAN]
        /\ told \in [Input -> 0..3 \cup {9}]
    BY StatesTyped DEF Init, None, R, Unowed
  <2>2. reg \in BOOLEAN /\ buzzer \in BOOLEAN
    BY DEF Init
  <2>3. fresh \in BOOLEAN /\ pc \in 0..Len(Loop)
    BY Ranges DEF Init
  <2>4. left \in 0..Period /\ ticks \in 0..(Nap + ScanTicks)
    BY Ranges DEF Init
  <2> QED BY <2>1, <2>2, <2>3, <2>4, Types DEF Typed
<1>2. Clock
  BY Ranges DEF Init, Clock
<1>3. \A i \in R : KnownResult(i)
  BY Kinds DEF Init, KnownResult, Unowed
<1>4. \A i \in K \cup P : AtMostTwo(i)
  BY Kinds DEF Init, AtMostTwo, Unowed
<1> QED BY <1>1, <1>2, <1>3, <1>4 DEF BaseInv

\* Every step keeps the invariant.
LEMMA NextBase == BaseInv /\ [Next]_vars => BaseInv'
<1> SUFFICES ASSUME BaseInv, [Next]_vars PROVE BaseInv'
  OBVIOUS
<1>1. TypeOK' /\ Clock'
  BY NextTyped DEF BaseInv
<1>2. \A i \in R : KnownResult(i)'
  BY KnownStep DEF BaseInv
<1>3. \A i \in K \cup P : AtMostTwo(i)'
  BY TwoStep DEF BaseInv
<1> QED BY <1>1, <1>2, <1>3 DEF BaseInv, K, P, R

\* The inductive invariant holds throughout, whatever the periods.
THEOREM Inductive == Spec => []BaseInv
BY InitBase, NextBase, PTL DEF Spec

\* Types: thread2's place, its delay and its counts stay in their ranges.
THEOREM TypeCorrect == Spec => []TypeOK
<1>1. BaseInv => TypeOK
  BY DEF BaseInv
<1> QED BY <1>1, Inductive, PTL

\* What thread2 compares itself is never reported twice, however late it is.
THEOREM ResultsOnce == Spec => []ResultOnce
<1>1. BaseInv => ResultOnce
  BY DEF BaseInv, KnownResult, ResultOnce, R
<1> QED BY <1>1, Inductive, PTL

\* A press is never reported three times, whenever the updater preempts piano.
THEOREM NeverThrice == Spec => []AtMostTwice
<1>1. BaseInv => AtMostTwice
  BY Kinds DEF BaseInv, KnownResult, AtMostTwo, AtMostTwice
<1> QED BY <1>1, Inductive, PTL

-----------------------------------------------------------------------------
(* In time, every press is reported once.                                  *)

\* An update leaves thread2 the time to look at it.
LEMMA PromptStep ==
  ASSUME ScanTicks + Nap <= Period, BaseInv, Prompt, NoneOwed \/ AllOwed,
         pc >= 3 => ~fresh, [Next]_vars
  PROVE  Prompt'
<1> USE Ranges
<1>0. TypeOK /\ Clock /\ Typed
  BY Types DEF BaseInv
<1>1. CASE FrameArrives \/ UNCHANGED vars
  BY <1>1 DEF FrameArrives, vars, updater, reader, Prompt, UpToDate, NoneOwed
<1>2. CASE Tick
  <2>1. UNCHANGED <<pc, fresh>> /\ left > 0 /\ left' = left - 1
        /\ ticks' = IF pc = 0 THEN ticks - 1 ELSE ticks + 1
    BY <1>2 DEF Tick, reader
  <2> QED BY <1>0, <2>1 DEF Prompt, UpToDate, Typed
<1>3. CASE Update
  <2>1. UNCHANGED <<pc, ticks>> /\ left' = Period /\ left = 0
    BY <1>3 DEF Update, reader
  <2>2. pc <= 1
    BY <1>0, <2>1 DEF Prompt, UpToDate, Typed, Clock
  <2>3. left' > (IF pc = 0 THEN ticks + ScanTicks ELSE ScanTicks - ticks)
    BY <1>0, <2>1, <2>2 DEF Clock, Typed
  <2> QED BY <2>1, <2>3 DEF Prompt
<1>4. CASE Awake
  <2>1. pc = 0 /\ pc' = 1 /\ ticks = 0 /\ left > 0 /\ UNCHANGED <<fresh, left, ticks>>
    BY <1>4 DEF Awake, updater
  <2> QED BY <2>1 DEF Prompt, UpToDate
<1>5. CASE Check
  <2>1. pc = 1 /\ left > 0 /\ UNCHANGED <<fresh, left>>
        /\ \/ ~fresh /\ pc' = 0
           \/ fresh /\ pc' = 2 /\ ticks' = ticks
    BY <1>0, <1>5, InLoop, Steps DEF Check, updater, GoOn
  <2> QED BY <2>1 DEF Prompt, UpToDate
<1>6. CASE Down
  <2>1. /\ pc \in 1..Len(Loop) /\ pc' \in 3..Len(Loop) /\ pc >= 3
        /\ UNCHANGED <<fresh, left, ticks>>
    <3>1. pc \in 1..Len(Loop) /\ Loop[pc].op = "down"
      BY <1>0, <1>6, InLoop DEF Down
    <3>2. pc # 1 /\ pc # 2
      BY <3>1, Steps
    <3>3. AfterDowns \in 1..Len(Loop) /\ pc < AfterDowns
      BY <3>1, Steps
    <3>4. pc' = pc + 1 \/ pc' = AfterDowns
      BY <1>6 DEF Down
    <3>5. pc >= 3 /\ pc' \in 3..Len(Loop)
      BY <3>1, <3>2, <3>3, <3>4
    <3>6. UNCHANGED <<fresh, left, ticks>>
      BY <1>6 DEF Down, updater
    <3> QED BY <3>1, <3>5, <3>6
  <2> QED BY <2>1 DEF Prompt, UpToDate
<1>7. CASE Note \/ ReadResult \/ Fall \/ FirstRead \/ SecondRead \/ ReportResult
  <2>1. /\ pc \in 1..Len(Loop) /\ pc >= 2 /\ UNCHANGED left /\ ~fresh' /\ GoOn
    <3>1. PICK op \in OpName \ {"check"} : At(op)
      BY <1>7 DEF Note, ReadResult, Fall, FirstRead, SecondRead, ReportResult, OpName
    <3>2. pc \in 1..Len(Loop) /\ Loop[pc].op = op
      BY <1>0, <3>1, InLoop
    <3>3. pc # 1
      BY <3>2, Steps
    <3>4. UNCHANGED left /\ GoOn
      BY <1>7 DEF Note, ReadResult, Fall, FirstRead, SecondRead, ReportResult, updater
    <3>5. CASE Note
      BY <3>2, <3>3, <3>4, <3>5 DEF Note
    <3>6. CASE ~Note
      <4>1. op # "note" => pc >= 3
        BY <3>2, <3>3, Steps
      <4>2. PICK x \in {"result", "fall", "first", "second", "report"} : At(x)
        BY <1>7, <3>6 DEF ReadResult, Fall, FirstRead, SecondRead, ReportResult
      <4>3. Loop[pc].op = x
        BY <1>0, <4>2, InLoop
      <4>4. pc >= 3
        BY <3>2, <4>1, <4>3
      <4>5. fresh' = fresh
        BY <1>7, <3>6 DEF ReadResult, Fall, FirstRead, SecondRead, ReportResult
      <4> QED BY <3>2, <3>4, <4>4, <4>5
    <3> QED BY <3>5, <3>6
  <2>2. CASE pc' = 0
    BY <2>1, <2>2 DEF Prompt, UpToDate
  <2>3. CASE pc' # 0
    BY <2>1, <2>3 DEF Prompt, UpToDate, GoOn
  <2> QED BY <2>2, <2>3
<1> QED BY <1>1, <1>2, <1>3, <1>4, <1>5, <1>6, <1>7 DEF Next, Reading

\* The updater comes only when thread2 has seen its last update, or before the
\* first one.
LEMMA UpdateInTime ==
  ASSUME TypeOK, Clock, Prompt, Update PROVE pc \in {0, 1} /\ (UpToDate \/ NoneOwed)
<1>1. Typed /\ left = 0
  BY Types DEF Update
<1>2. left <= (IF pc = 0 THEN ticks + ScanTicks ELSE ScanTicks - ticks)
  BY <1>1, Ranges DEF Typed, Clock
<1> QED BY <1>1, <1>2, Ranges DEF Prompt, UpToDate, Typed

\* What the note and a report leave owed.
LEMMA OwedStep ==
  ASSUME TypeOK, Orderly, Reading
  PROVE  (NoneOwed \/ AllOwed)' /\ (Note \/ pc >= 3 => AllOwed')
<1>1. told \in [Input -> 0..3 \cup {9}]
  BY Types DEF Typed
<1>2. CASE told' = told
  <2>1. ~Note \/ AllOwed \/ NoneOwed
    BY DEF Orderly
  <2>2. CASE Note
    BY <1>1, <2>2 DEF Note, AllOwed, Unowed
  <2>3. CASE ~Note
    BY <1>2, <2>3 DEF Orderly, AllOwed, NoneOwed
  <2> QED BY <2>2, <2>3
<1>3. CASE Note
  BY <1>1, <1>3 DEF Note, AllOwed, Unowed
<1>4. CASE told' # told /\ ~Note
  <2>1. PICK op \in {"fall", "second", "report"} : At(op) /\ Report(Asked)
    BY <1>4 DEF Reading, Awake, Check, ReadResult, Down, Fall, FirstRead, SecondRead, ReportResult
  <2>2. Asked \in Input /\ pc \in 1..Len(Loop) /\ Loop[pc].op = op
    BY <2>1, Asking, InLoop
  <2>3. pc # 1 /\ pc # 2
    BY <2>2, Steps
  <2>4. AllOwed
    BY <2>2, <2>3, Ranges DEF Orderly
  <2>5. \A j \in Input : told'[j] # Unowed
    BY <1>1, <2>1, <2>2, <2>4, Reporting DEF AllOwed, Unowed
  <2> QED BY <2>5 DEF AllOwed
<1> QED BY <1>2, <1>3, <1>4

\* Every step keeps the order.
LEMMA OrderlyStep ==
  ASSUME BaseInv, Prompt, Orderly, [Next]_vars PROVE Orderly'
<1>0. TypeOK /\ Clock /\ Typed
  BY Types DEF BaseInv
<1>1. CASE FrameArrives \/ Tick \/ UNCHANGED vars
  <2>1. UNCHANGED <<told, prev, fresh, reg, pc>>
    BY <1>1 DEF FrameArrives, Tick, vars, updater, reader
  <2> QED BY Seen, <2>1 DEF Orderly, NoneOwed, AllOwed, Is
<1>2. CASE Update
  <2>1. pc \in {0, 1} /\ UNCHANGED <<pc, reg>>
    BY <1>0, <1>2, UpdateInTime DEF Update, reader
  <2>2. (NoneOwed \/ AllOwed)'
    BY <1>0, <1>2, UpdateTells DEF Orderly, NoneOwed, AllOwed, Unowed
  <2>3. \A i \in P : ~Is(pc', "second", i)
    BY <2>1, Steps, Kinds DEF Is
  <2> QED BY <2>1, <2>2, <2>3 DEF Orderly, Is
<1>3. CASE Reading
  <2>1. (NoneOwed \/ AllOwed)' /\ (Note \/ pc >= 3 => AllOwed')
    BY <1>0, <1>3, OwedStep
  <2>2. UNCHANGED prev
    BY <1>3 DEF Reading, Awake, Check, Note, ReadResult, Down, Fall, FirstRead, SecondRead,
                ReportResult, updater
  <2>3. CASE Awake \/ Check
    <3>1. pc' \in {0, 1, 2}
      BY <1>0, <2>3, InLoop, Steps DEF Awake, Check, GoOn
    <3>2. \A i \in P : ~Is(pc', "second", i)
      BY <3>1, Steps, Kinds DEF Is
    <3> QED BY <2>1, <3>1, <3>2 DEF Orderly, Is
  <2>4. CASE Note
    <3>1. pc = 2
      BY <1>0, <2>4, InLoop, Steps DEF Note
    <3>2. pc' \in {0, 3} /\ ~fresh'
      BY <2>4, <3>1 DEF Note, GoOn
    <3>3. \A i \in P : ~Is(pc', "second", i)
      BY <3>2, Steps, Kinds DEF Is
    <3> QED BY <2>1, <2>2, <2>4, <3>2, <3>3 DEF Orderly, Is
  <2>5. CASE Down
    <3>1. pc \in 1..Len(Loop) /\ Loop[pc].op = "down" /\ UNCHANGED <<reg, fresh>>
      BY <1>0, <2>5, InLoop DEF Down
    <3>2. pc >= 3
      BY <3>1, Steps
    <3>3. pc' = pc + 1 \/ pc' = AfterDowns
      BY <2>5 DEF Down
    <3>4. \A i \in P : ~Is(AfterDowns, "second", i)
      BY <3>1, Steps, Kinds
    <3>5. \A i \in P : ~Is(pc', "second", i)
      BY <3>1, <3>3, <3>4, SecondFollows, Kinds DEF Is
    <3> QED BY <2>1, <2>2, <3>1, <3>2, <3>5 DEF Orderly, Is
  <2>6. CASE ReadResult \/ Fall \/ FirstRead \/ SecondRead \/ ReportResult
    <3>1. PICK op \in {"result", "fall", "first", "second", "report"} :
            At(op) /\ GoOn /\ UNCHANGED fresh
      BY <2>6 DEF ReadResult, Fall, FirstRead, SecondRead, ReportResult
    <3>2. pc \in 1..Len(Loop) /\ Loop[pc].op = op
      BY <1>0, <3>1, InLoop
    <3>3. pc >= 3
      <4>1. pc # 1 /\ pc # 2
        BY <3>2, Steps
      <4> QED BY <3>2, <4>1
    <3>4. ASSUME NEW i \in P, Is(pc', "second", i) PROVE reg' = Was(i)'
      <4>1. i \in Input /\ i \in K \cup P /\ pc' \in 1..Len(Loop)
        BY <3>4, Kinds DEF Is
      <4>2. pc' = pc + 1
        BY <3>1, <4>1 DEF GoOn
      <4>3. Is(pc, "first", i)
        BY <3>2, <3>4, <4>1, <4>2, SecondFollows
      <4>4. reg' = Was(i)
        BY <1>0, <2>6, <4>1, <4>3, EdgeOutcome
      <4> QED BY Seen, <2>2, <4>4
    <3> QED BY <2>1, <2>2, <3>1, <3>3, <3>4 DEF Orderly, Is
  <2> QED BY <1>3, <2>3, <2>4, <2>5, <2>6 DEF Reading
<1> QED BY <1>1, <1>2, <1>3 DEF Next

\* A press that was latched is due.
LEMMA UpdateOwes ==
  ASSUME BaseInv, Prompt, Orderly, Update, NEW i \in Input, told[i] # Unowed
  PROVE  UpToDate /\ ~UpToDate' /\ pc' \in {0, 1} /\ pc \in {0, 1}
<1>1. TypeOK /\ Clock /\ Typed /\ ~NoneOwed
  BY Types DEF BaseInv, NoneOwed
<1>2. pc \in {0, 1} /\ UpToDate
  BY <1>1, UpdateInTime
<1>3. fresh' /\ UNCHANGED pc
  BY <1>1, UpdateTells
<1> QED BY <1>2, <1>3 DEF UpToDate

\* Every step keeps EdgeDue.
LEMMA EdgeDueStep ==
  ASSUME BaseInv, Prompt, Orderly, NEW i \in K \cup P, EdgeDue(i), [Next]_vars
  PROVE  EdgeDue(i)'
<1>0. /\ TypeOK /\ Clock /\ i \in Input /\ i \notin R /\ Tells(i) \in Once /\ Tells(i)' = Tells(i)
      /\ told[i] \in 0..3 \cup {9} /\ pc \in 0..Len(Loop) /\ pc \in Nat
      /\ On(i) \in BOOLEAN /\ Comes(i) \in BOOLEAN /\ Was(i) \in BOOLEAN
  BY Seen, Kinds, Types, Ranges DEF BaseInv, Typed, Tells, Once
<1>1. CASE FrameArrives \/ Tick \/ UNCHANGED vars
  <2>1. UNCHANGED <<told, cur, prev, fresh, pc>>
    BY <1>1 DEF FrameArrives, Tick, vars, updater, reader
  <2>2. Due(i)' <=> Due(i)
    BY Seen, <1>0, <2>1 DEF Due, UpToDate, To, Is
  <2> QED BY <2>1, <2>2 DEF EdgeDue
<1>2. CASE Update
  <2>1. CASE told[i] = Unowed
    <3>1. told'[i] = Unowed
      BY <1>0, <1>2, <2>1, UpdateTells DEF Unowed
    <3> QED BY <3>1 DEF EdgeDue, Unowed
  <2>2. CASE told[i] # Unowed
    <3>1. UpToDate /\ ~UpToDate' /\ pc' \in {0, 1}
      BY <1>0, <1>2, <2>2, UpdateOwes
    <3>2. To(Tells(i), i)'
      BY <1>0, <3>1, AllAhead
    <3>3. told[i] = 1
      BY <2>2, <3>1 DEF EdgeDue, Due
    <3>4. On(i)' = Comes(i) /\ Was(i)' = Ready(i) /\ (Ready(i) => ~On(i))
      BY <1>0, <1>2, UpdateTells, Seen
    <3>5. told'[i] = IF Comes(i) /\ Ready(i) THEN 0 ELSE 1
      BY <1>0, <1>2, <2>2, <3>3, <3>4, UpdateTells
    <3>6. Due(i)' <=> Comes(i) /\ Ready(i)
      BY <3>1, <3>2, <3>4 DEF Due
    <3> QED BY <3>5, <3>6 DEF EdgeDue
  <2> QED BY <2>1, <2>2
<1>3. CASE Awake \/ Check
  <2>1. UNCHANGED <<told, cur, prev, fresh>>
    BY <1>3 DEF Awake, Check, updater
  <2>2. /\ pc \in {0, 1} /\ pc' \in {0, 1, 2}
        /\ pc' = 2 => fresh
    <3>1. Check => pc = 1
      BY <1>0, InLoop, Steps DEF Check
    <3> QED BY <1>3, <3>1 DEF Awake, Check, GoOn
  <2>3. To(Tells(i), i) /\ To(Tells(i), i)'
    BY <1>0, <2>2, AllAhead
  <2>4. UpToDate' <=> UpToDate
    BY <2>1, <2>2 DEF UpToDate
  <2> QED BY Seen, <2>1, <2>3, <2>4 DEF EdgeDue, Due
<1>4. CASE Note
  <2>1. pc = 2
    BY <1>0, <1>4, InLoop, Steps DEF Note
  <2>2. UNCHANGED <<cur, prev>> /\ pc' = 3
    <3>1. Len(Loop) >= 3
      BY <1>0, Steps
    <3> QED BY <1>4, <2>1, <3>1, Ranges DEF Note, GoOn, updater
  <2>3. told'[i] = IF told[i] # Unowed THEN told[i] ELSE IF On(i) /\ Was(i) THEN 0 ELSE 1
    BY Seen, <1>0, <1>4 DEF Note, R, On, Was
  <2>4. To(Tells(i), i) /\ To(Tells(i), i)' /\ ~UpToDate /\ ~UpToDate'
    BY <1>0, <2>1, <2>2, AllAhead DEF UpToDate
  <2> QED BY Seen, <2>2, <2>3, <2>4 DEF EdgeDue, Due
<1>5. CASE Down
  <2>1. /\ UNCHANGED <<told, cur, prev>> /\ pc >= 3 /\ pc' \in 4..Len(Loop)
        /\ (To(Tells(i), i)' <=> To(Tells(i), i))
    <3>1. UNCHANGED <<told, cur, prev>>
      BY <1>5 DEF Down, updater
    <3> QED BY <1>0, <1>5, <3>1, Skip, Ranges
  <2>2. ~UpToDate /\ ~UpToDate'
    BY <1>0, <2>1, Ranges DEF UpToDate
  <2> QED BY Seen, <2>1, <2>2 DEF EdgeDue, Due
<1>6. CASE ReadResult \/ Fall \/ FirstRead \/ SecondRead \/ ReportResult
  <2>1. /\ pc \in 3..Len(Loop) /\ GoOn /\ UNCHANGED <<cur, prev, fresh>>
        /\ IF Is(pc, Tells(i), i) /\ On(i) /\ (IF Is(pc, "second", i) THEN reg ELSE Was(i))
           THEN told'[i] = IF told[i] \in {3, 9} THEN told[i] ELSE told[i] + 1
           ELSE told'[i] = told[i]
    BY <1>0, <1>6, EdgeOutcome
  <2>2. /\ pc \in 1..Len(Loop) /\ ~UpToDate /\ ~fresh /\ told[i] # Unowed
        /\ told[i] = IF To(Tells(i), i) /\ On(i) /\ Was(i) THEN 0 ELSE 1
    BY <1>0, <2>1 DEF Orderly, UpToDate, AllOwed, EdgeDue, Due
  <2>3. Is(pc, "second", i) => reg = Was(i)
    <3>1. Is(pc, "second", i) => i \in P
      BY <1>0, Steps
    <3> QED BY <3>1 DEF Orderly
  <2>4. told'[i] = IF Is(pc, Tells(i), i) THEN 1 ELSE told[i]
    <3>1. Is(pc, Tells(i), i) => To(Tells(i), i)
      BY <1>0 DEF To
    <3> QED BY <1>0, <2>1, <2>2, <2>3, <3>1
  <2>5. CASE pc' = 0
    <3>1. ~Due(i)' /\ told'[i] = 1
      BY <1>0, <2>1, <2>2, <2>4, <2>5, Onward DEF Due, UpToDate
    <3> QED BY <3>1 DEF EdgeDue
  <2>6. CASE pc' # 0
    <3>1. pc' = pc + 1 /\ (To(Tells(i), i)' <=> To(Tells(i), i) /\ ~Is(pc, Tells(i), i))
      BY <1>0, <2>1, <2>2, <2>6, Onward
    <3>2. ~UpToDate'
      BY <2>1, <3>1, Ranges DEF UpToDate
    <3> QED BY Seen, <2>1, <2>2, <2>4, <3>1, <3>2 DEF EdgeDue, Due
  <2> QED BY <2>5, <2>6
<1> QED BY <1>1, <1>2, <1>3, <1>4, <1>5, <1>6 DEF Next, Reading

\* A result is read before it is reported.
LEMMA ReadFirst ==
  ASSUME TypeOK, NEW i \in R, To("result", i) PROVE To("report", i)
<1>1. i \in Input /\ Tells(i) = "report" /\ pc \in Nat
  BY Kinds, Types, Ranges DEF Tells, Typed
<1>2. PICK p \in Nat : p >= pc /\ Is(p, "result", i)
  BY DEF To
<1>3. PICK q \in Nat : Is(q, "report", i)
  <2>1. \E q \in 3..Len(Loop) : Is(q, "report", i)
    BY <1>1, Steps
  <2> QED BY <2>1
<1>4. p < q
  BY <1>1, <1>2, <1>3, Steps
<1>5. q >= pc
  BY <1>1, <1>2, <1>4
<1> QED BY <1>3, <1>5 DEF To

\* What a step of the scan does to a result.
LEMMA ResultOutcome ==
  ASSUME TypeOK, NEW i \in R, ReadResult \/ Fall \/ FirstRead \/ SecondRead \/ ReportResult
  PROVE  /\ pc \in 3..Len(Loop) /\ GoOn /\ UNCHANGED <<cur, fresh>>
         /\ IF Is(pc, "result", i) THEN res'[i] = On(i) /\ lastRes'[i] = res[i]
                                   ELSE res'[i] = res[i] /\ lastRes'[i] = lastRes[i]
         /\ IF Is(pc, "report", i) /\ res[i] /\ ~lastRes[i]
            THEN told'[i] = IF told[i] \in {3, 9} THEN told[i] ELSE told[i] + 1
            ELSE told'[i] = told[i]
<1>1. i \in Input /\ i \notin K /\ i \notin P /\ res \in [R -> BOOLEAN] /\ lastRes \in [R -> BOOLEAN]
  BY Kinds, Types DEF Typed
<1>2. PICK op \in {"result", "fall", "first", "second", "report"} :
        /\ At(op) /\ GoOn /\ UNCHANGED <<cur, fresh>>
        /\ op = "result" => /\ res' = [res EXCEPT ![Asked] = On(Asked)]
                            /\ lastRes' = [lastRes EXCEPT ![Asked] = res[Asked]]
                            /\ UNCHANGED told
        /\ op # "result" => UNCHANGED <<res, lastRes>>
        /\ op = "report" => IF res[Asked] /\ ~lastRes[Asked] THEN Report(Asked) ELSE UNCHANGED told
        /\ Report(Asked) \/ UNCHANGED told
  BY Seen DEF ReadResult, Fall, FirstRead, SecondRead, ReportResult, updater, On, Was
<1>3. /\ Asked \in Input /\ Is(pc, op, Asked) /\ pc \in 1..Len(Loop) /\ pc \in Nat
      /\ \A x \in OpName, j \in Input : Is(pc, x, j) => x = op /\ j = Asked
  BY <1>2, Asking, InLoop
<1>4. pc \in 3..Len(Loop)
  <2>1. Loop[1].op = "check" /\ Loop[2].op = "note" /\ Loop[pc].op = op
    BY <1>3, Steps DEF Is
  <2>2. pc # 1 /\ pc # 2
    BY <2>1
  <2> QED BY <1>3, <2>2
<1>5. CASE Asked # i
  <2>1. ~Is(pc, "result", i) /\ ~Is(pc, "report", i)
    BY <1>1, <1>3, <1>5 DEF OpName
  <2>2. res'[i] = res[i] /\ lastRes'[i] = lastRes[i]
    BY <1>1, <1>2, <1>5
  <2>3. told'[i] = told[i]
    BY <1>1, <1>2, <1>3, <1>5, Reporting
  <2> QED BY <1>2, <1>4, <2>1, <2>2, <2>3
<1>6. CASE Asked = i /\ op = "result"
  <2>1. Is(pc, "result", i) /\ ~Is(pc, "report", i)
    BY <1>1, <1>3, <1>6 DEF OpName
  <2>2. res'[i] = On(i) /\ lastRes'[i] = res[i] /\ told'[i] = told[i]
    BY <1>1, <1>2, <1>6
  <2> QED BY <1>2, <1>4, <2>1, <2>2
<1>7. CASE Asked = i /\ op # "result"
  <2>1. op = "report" /\ Is(pc, "report", i) /\ ~Is(pc, "result", i)
    <3>1. op # "fall" /\ op # "first" /\ op # "second"
      BY <1>1, <1>3, <1>7, Steps
    <3> QED BY <1>1, <1>3, <1>7, <3>1 DEF OpName
  <2>2. res'[i] = res[i] /\ lastRes'[i] = lastRes[i]
    BY <1>2, <1>7
  <2>3. IF res[i] /\ ~lastRes[i] THEN Report(i) ELSE told' = told
    BY <1>2, <1>7, <2>1
  <2> QED BY <1>1, <1>2, <1>4, <2>1, <2>2, <2>3, Reporting
<1> QED BY <1>5, <1>6, <1>7

\* A step of the scan reads a result, reports it, or is about another input.
LEMMA ResultDueRead ==
  ASSUME BaseInv, Orderly, NEW i \in R, ResultDue(i),
         ReadResult \/ Fall \/ FirstRead \/ SecondRead \/ ReportResult
  PROVE  ResultDue(i)'
<1>0. /\ TypeOK /\ i \in Input /\ On(i) \in BOOLEAN /\ res[i] \in BOOLEAN /\ lastRes[i] \in BOOLEAN
      /\ {"result", "report"} \subseteq Once
  BY Seen, Kinds, Types DEF BaseInv, Typed, Once
<1>1. /\ pc \in 3..Len(Loop) /\ GoOn /\ UNCHANGED <<cur, fresh>>
      /\ IF Is(pc, "result", i) THEN res'[i] = On(i) /\ lastRes'[i] = res[i]
                                ELSE res'[i] = res[i] /\ lastRes'[i] = lastRes[i]
      /\ IF Is(pc, "report", i) /\ res[i] /\ ~lastRes[i]
         THEN told'[i] = IF told[i] \in {3, 9} THEN told[i] ELSE told[i] + 1
         ELSE told'[i] = told[i]
  BY <1>0, ResultOutcome
<1>2. pc \in 1..Len(Loop) /\ pc \in Nat /\ ~UpToDate /\ told[i] # Unowed
  BY <1>0, <1>1 DEF Orderly, AllOwed, UpToDate
<1>3. /\ To("result", i) => told[i] = IF On(i) /\ ~res[i] THEN 0 ELSE 1
      /\ ~To("result", i) /\ To("report", i) =>
           res[i] = On(i) /\ told[i] = IF res[i] /\ ~lastRes[i] THEN 0 ELSE 1
      /\ ~To("result", i) /\ ~To("report", i) => res[i] = On(i) /\ told[i] = 1
  BY <1>2 DEF ResultDue
<1>4. CASE pc' = 0
  <2>1. /\ To("result", i) => Is(pc, "result", i)
        /\ To("report", i) => Is(pc, "report", i)
        /\ To("result", i)'
    BY <1>0, <1>1, <1>2, <1>4, Onward, AllAhead
  <2>2. ~Is(pc, "result", i)
    <3>1. Is(pc, "result", i) => To("result", i) /\ ~Is(pc, "report", i)
      BY <1>2 DEF To, Is
    <3> QED BY <1>0, <2>1, <3>1, ReadFirst
  <2>3. ~To("result", i)
    BY <2>1, <2>2
  <2>4. res'[i] = res[i] /\ res[i] = On(i) /\ told'[i] = 1 /\ told'[i] # Unowed
    <3>1. CASE Is(pc, "report", i)
      <4>1. To("report", i)
        BY <1>2, <3>1 DEF To
      <4> QED BY <1>1, <1>3, <2>2, <2>3, <3>1, <4>1, Ranges
    <3>2. CASE ~Is(pc, "report", i)
      BY <1>1, <1>3, <2>1, <2>2, <2>3, <3>2, Ranges
    <3> QED BY <3>1, <3>2
  <2>5. On(i)' = On(i)
    BY Seen, <1>1
  <2> QED BY Seen, <2>1, <2>4, <2>5 DEF ResultDue
<1>5. CASE pc' # 0
  <2>1. /\ pc' = pc + 1
        /\ (To("result", i)' <=> To("result", i) /\ ~Is(pc, "result", i))
        /\ (To("report", i)' <=> To("report", i) /\ ~Is(pc, "report", i))
    BY <1>0, <1>1, <1>2, <1>5, Onward
  <2>2. ~UpToDate' /\ On(i)' = On(i)
    BY Seen, <1>1, <2>1, Ranges DEF UpToDate
  <2>3. CASE Is(pc, "result", i)
    <3>1. To("result", i) /\ ~Is(pc, "report", i)
      BY <1>2, <2>3 DEF To, Is
    <3>2. To("report", i)
      BY <1>0, <3>1, ReadFirst
    <3>3. /\ ~To("result", i)' /\ To("report", i)' /\ res'[i] = On(i) /\ lastRes'[i] = res[i]
          /\ told'[i] = told[i] /\ told[i] = IF On(i) /\ ~res[i] THEN 0 ELSE 1
      BY <1>1, <1>3, <2>1, <2>3, <3>1, <3>2
    <3> QED BY Seen, <1>2, <2>2, <3>3 DEF ResultDue
  <2>4. CASE Is(pc, "report", i)
    <3>1. To("report", i) /\ ~To("result", i)
      <4>1. To("report", i)
        BY <1>2, <2>4 DEF To
      <4>2. ~To("result", i)
        BY <1>0, <1>2, <2>4, Steps DEF To
      <4> QED BY <4>1, <4>2
    <3>2. ~Is(pc, "result", i)
      BY <2>4 DEF Is
    <3>3. res'[i] = res[i] /\ res[i] = On(i) /\ told'[i] = 1
      BY <1>1, <1>3, <2>4, <3>1, <3>2
    <3>4. ~To("result", i)' /\ ~To("report", i)'
      BY <2>1, <2>4, <3>1
    <3> QED BY Seen, <2>2, <3>3, <3>4, Ranges DEF ResultDue
  <2>5. CASE ~Is(pc, "result", i) /\ ~Is(pc, "report", i)
    <3>1. told'[i] = told[i] /\ res'[i] = res[i] /\ lastRes'[i] = lastRes[i]
      BY <1>1, <2>5
    <3> QED BY Seen, <1>2, <1>3, <2>1, <2>2, <2>5, <3>1 DEF ResultDue
  <2> QED BY <2>3, <2>4, <2>5
<1> QED BY <1>4, <1>5

\* Every step keeps ResultDue.
LEMMA ResultDueStep ==
  ASSUME BaseInv, Prompt, Orderly, NEW i \in R, ResultDue(i), [Next]_vars
  PROVE  ResultDue(i)'
<1>0. /\ TypeOK /\ Clock /\ i \in Input /\ pc \in 0..Len(Loop) /\ pc \in Nat
      /\ On(i) \in BOOLEAN /\ Comes(i) \in BOOLEAN /\ res[i] \in BOOLEAN
      /\ told[i] \in 0..3 \cup {9}
  BY Seen, Kinds, Types, Ranges DEF BaseInv, Typed
<1>1. CASE FrameArrives \/ Tick \/ UNCHANGED vars
  <2>1. UNCHANGED <<told, cur, res, lastRes, fresh, pc>>
    BY <1>1 DEF FrameArrives, Tick, vars, updater, reader
  <2>2. /\ (To("result", i)' <=> To("result", i)) /\ (To("report", i)' <=> To("report", i))
        /\ (UpToDate' <=> UpToDate)
    BY <2>1 DEF UpToDate, To, Is
  <2> QED BY Seen, <2>1, <2>2 DEF ResultDue
<1>2. CASE Update
  <2>1. /\ UNCHANGED <<pc, res>> /\ On(i)' = Comes(i)
        /\ told'[i] = IF told[i] = Unowed \/ On(i) \/ ~Comes(i) THEN told[i] ELSE 0
    BY <1>0, <1>2, UpdateTells, ResultOn, Types DEF Typed
  <2>2. CASE told[i] = Unowed
    BY <2>1, <2>2 DEF ResultDue
  <2>3. CASE told[i] # Unowed
    <3>1. UpToDate /\ ~UpToDate' /\ pc' \in {0, 1}
      BY <1>0, <1>2, <2>3, UpdateOwes
    <3>2. To("result", i)'
      BY <1>0, <3>1, AllAhead
    <3>3. res[i] = On(i) /\ told[i] = 1
      BY <2>3, <3>1 DEF ResultDue
    <3>4. told'[i] = (IF On(i)' /\ ~res'[i] THEN 0 ELSE 1) /\ told'[i] # Unowed
      BY <1>0, <2>1, <2>3, <3>3, Ranges
    <3> QED BY <3>1, <3>2, <3>4 DEF ResultDue
  <2> QED BY <2>2, <2>3
<1>3. CASE Awake \/ Check
  <2>1. UNCHANGED <<told, cur, res, lastRes, fresh>>
    BY <1>3 DEF Awake, Check, updater
  <2>2. /\ pc \in {0, 1} /\ pc' \in {0, 1, 2}
        /\ pc' = 2 => fresh
    <3>1. Check => pc = 1
      BY <1>0, InLoop, Steps DEF Check
    <3> QED BY <1>3, <3>1 DEF Awake, Check, GoOn
  <2>3. To("result", i) /\ To("result", i)'
    BY <1>0, <2>2, AllAhead
  <2>4. UpToDate' <=> UpToDate
    BY <2>1, <2>2 DEF UpToDate
  <2> QED BY Seen, <2>1, <2>3, <2>4 DEF ResultDue
<1>4. CASE Note
  <2>1. pc = 2
    BY <1>0, <1>4, InLoop, Steps DEF Note
  <2>2. UNCHANGED <<cur, res>> /\ pc' = 3
    <3>1. Len(Loop) >= 3
      BY <1>0, Steps
    <3> QED BY <1>4, <2>1, <3>1, Ranges DEF Note, GoOn, updater
  <2>3. told'[i] = IF told[i] # Unowed THEN told[i] ELSE IF On(i) THEN 0 ELSE 1
    BY Seen, <1>0, <1>4 DEF Note, R, On, Was
  <2>4. To("result", i) /\ To("result", i)' /\ ~UpToDate'
    BY <1>0, <2>1, <2>2, AllAhead DEF UpToDate
  <2>5. told'[i] = (IF On(i) /\ ~res[i] THEN 0 ELSE 1) /\ told'[i] # Unowed
    BY <1>0, <2>3, <2>4, Ranges DEF ResultDue
  <2> QED BY Seen, <2>2, <2>4, <2>5 DEF ResultDue
<1>5. CASE Down
  <2>1. /\ UNCHANGED <<told, cur, res, lastRes>> /\ pc >= 3 /\ pc' \in 4..Len(Loop)
        /\ (To("result", i)' <=> To("result", i)) /\ (To("report", i)' <=> To("report", i))
    <3>1. UNCHANGED <<told, cur, res, lastRes>>
      BY <1>5 DEF Down, updater
    <3> QED BY <1>0, <1>5, <3>1, Skip DEF Once
  <2>2. ~UpToDate /\ ~UpToDate'
    BY <1>0, <2>1, Ranges DEF UpToDate
  <2> QED BY Seen, <2>1, <2>2 DEF ResultDue
<1> QED BY <1>1, <1>2, <1>3, <1>4, <1>5, ResultDueRead DEF Next, Reading

\* The invariant holds before the first update.
LEMMA InitOnTime == Init => OnTimeInv
<1> SUFFICES ASSUME Init PROVE OnTimeInv
  OBVIOUS
<1>1. BaseInv
  BY InitBase
<1>2. NoneOwed /\ pc = 1 /\ left = 0
  BY DEF Init, NoneOwed
<1>3. \A i \in P : ~Is(pc, "second", i)
  BY <1>2, Steps, Kinds DEF Is
<1>4. Prompt /\ Orderly
  BY <1>2, <1>3 DEF Prompt, Orderly
<1>5. \A i \in K \cup P : EdgeDue(i)
  BY <1>2, Kinds DEF NoneOwed, EdgeDue
<1>6. \A i \in R : ResultDue(i)
  BY <1>2, Kinds DEF NoneOwed, ResultDue, Init, None, R
<1> QED BY <1>1, <1>4, <1>5, <1>6 DEF OnTimeInv

\* In time, every step keeps it.
LEMMA NextOnTime ==
  ASSUME ScanTicks + Nap <= Period, OnTimeInv, [Next]_vars PROVE OnTimeInv'
<1>1. BaseInv' /\ Prompt' /\ Orderly'
  BY NextBase, PromptStep, OrderlyStep DEF OnTimeInv, Orderly
<1>2. \A i \in K \cup P : EdgeDue(i)'
  BY EdgeDueStep DEF OnTimeInv
<1>3. \A i \in R : ResultDue(i)'
  BY ResultDueStep DEF OnTimeInv
<1> QED BY <1>1, <1>2, <1>3 DEF OnTimeInv, K, P, R

\* If thread2's turn and its delay together take no longer than the updater's
\* period, every edge that was latched and that a query asks for is reported
\* exactly once, by the end of the turn that looks at it, and no other: although nothing is locked, no update comes
\* between two reads of piano.
THEOREM PressesOnce ==
  ASSUME ScanTicks + Nap <= Period PROVE Spec => []ReportedOnce
<1>1. OnTimeInv => ReportedOnce
  <2> SUFFICES ASSUME OnTimeInv, pc = 0, ~fresh, NEW i \in Input
               PROVE  told[i] \in {1, Unowed}
    BY DEF ReportedOnce
  <2>1. UpToDate
    BY DEF UpToDate
  <2>2. i \in K \cup P => told[i] \in {1, Unowed}
    BY <2>1 DEF OnTimeInv, EdgeDue, Due
  <2>3. i \in R => told[i] \in {1, Unowed}
    BY <2>1 DEF OnTimeInv, ResultDue
  <2> QED BY <2>2, <2>3, Kinds
<1>2. OnTimeInv /\ [Next]_vars => OnTimeInv'
  BY NextOnTime
<1> QED BY <1>1, <1>2, InitOnTime, PTL DEF Spec
=============================================================================
