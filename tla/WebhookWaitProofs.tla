--------------------------- MODULE WebhookWaitProofs ---------------------------
(***************************************************************************)
(* What holds of the webhook wait for every node, every set of requests    *)
(* and every timing: a request credited to a group stays credited to it,   *)
(* and a wait that passes is justified by the requests it listed.          *)
(*                                                                         *)
(* assignRequests starts over on every poll.  Its recursion along a list   *)
(* depends only on the part of the list it has seen, so the claims of a    *)
(* longer list extend those of a list it continues (ClaimsExtend), and     *)
(* after k requests every one of them that fits a group is in the claims   *)
(* of exactly one group that it satisfies (Sound).                         *)
(***************************************************************************)
EXTENDS WebhookWait, FoldLemmas

(* The operators of the assignment with the groups as a parameter, so that *)
(* facts about them hold of two successive states alike.                   *)
GroupData == [min : {None} \cup Nat, max : {None} \cup Nat,
              unresolved : BOOLEAN, complete : BOOLEAN]
GroupList == Seq(GroupData)
FitsIn(g, r) == {i \in DOMAIN g : ~g[i].unresolved /\ i \in r.fits}
ChosenIn(g, c, r) ==
  LET needy == {i \in FitsIn(g, r) : Len(c[i]) < minimum(g[i])}
  IN IF needy # {} THEN Min(needy)
     ELSE IF FitsIn(g, r) # {} THEN Min(FitsIn(g, r)) ELSE None

ClaimsOf(g) == [DOMAIN g -> Seq(Nat)]

(* p[k] are the claims after the first k requests of the list.             *)
Assigns(p, g, list, n) ==
  /\ p \in [0..n -> ClaimsOf(g)] /\ p[0] = [i \in DOMAIN g |-> <<>>]
  /\ \A k \in 1..n : p[k] = Claim(p[k - 1], ChosenIn(g, p[k - 1], list[k]), k)

(* The fields of a group.                                                  *)
LEMMA GroupFields ==
  ASSUME NEW g \in GroupList, NEW i \in DOMAIN g
  PROVE  /\ g[i].max \in {None} \cup Nat /\ g[i].unresolved \in BOOLEAN
         /\ minimum(g[i]) \in Nat
<1>1. g[i] \in GroupData  BY DEF GroupList
<1> QED BY <1>1 DEF GroupData, minimum, None

(* The least element of a set of natural numbers.                          *)
LEMMA MinOfNats ==
  ASSUME NEW S \in SUBSET Nat, S # {}
  PROVE  Min(S) \in S /\ \A x \in S : Min(S) <= x
<1>1. \E n \in S : \A m \in S : n <= m  BY LeastNat
<1> QED BY <1>1 DEF Min

(* A request is given to a group it satisfies, and to none only when it    *)
(* satisfies none.                                                         *)
LEMMA ChosenFits ==
  ASSUME NEW g \in GroupList, NEW c, NEW r
  PROVE  /\ FitsIn(g, r) # {} => ChosenIn(g, c, r) \in FitsIn(g, r)
         /\ FitsIn(g, r) = {} => ChosenIn(g, c, r) = None
         /\ ChosenIn(g, c, r) \in DOMAIN g \cup {None}
<1> DEFINE fits == FitsIn(g, r)
           needy == {i \in fits : Len(c[i]) < minimum(g[i])}
<1>1. fits \in SUBSET DOMAIN g /\ needy \in SUBSET fits  BY DEF FitsIn
<1>2. DOMAIN g \in SUBSET Nat  BY DEF GroupList
<1>3. ChosenIn(g, c, r) = IF needy # {} THEN Min(needy)
                          ELSE IF fits # {} THEN Min(fits) ELSE None
  BY DEF ChosenIn
<1> HIDE DEF fits, needy
<1>4. needy # {} => Min(needy) \in needy  BY <1>1, <1>2, MinOfNats
<1>5. fits # {} => Min(fits) \in fits  BY <1>1, <1>2, MinOfNats
<1>6. /\ fits # {} => ChosenIn(g, c, r) \in fits
      /\ fits = {} => ChosenIn(g, c, r) = None
      /\ ChosenIn(g, c, r) \in DOMAIN g \cup {None}
  BY <1>1, <1>3, <1>4, <1>5
<1> QED BY <1>6 DEF fits

(* What a claim changes.                                                   *)
LEMMA ClaimWrites ==
  ASSUME NEW g \in GroupList, NEW c \in ClaimsOf(g), NEW k \in Nat,
         NEW i \in DOMAIN g \cup {None}
  PROVE  /\ Claim(c, i, k) \in ClaimsOf(g)
         /\ \A j \in DOMAIN g : Claim(c, i, k)[j] = IF j = i THEN Append(c[j], k) ELSE c[j]
<1>1. None \notin DOMAIN g  BY DEF GroupList, None
<1>2. CASE i = None  BY <1>1, <1>2 DEF Claim, ClaimsOf
<1>3. CASE i \in DOMAIN g
  <2>1. Claim(c, i, k) = [c EXCEPT ![i] = Append(@, k)]  BY <1>1, <1>3 DEF Claim
  <2>2. c[i] \in Seq(Nat)  BY <1>3 DEF ClaimsOf
  <2>3. Append(c[i], k) \in Seq(Nat)  BY <2>2
  <2> QED BY <1>3, <2>1, <2>3 DEF ClaimsOf
<1> QED BY <1>2, <1>3

(* assignRequests is the assignment along the list.                        *)
LEMMA AssignmentIs ==
  ASSUME NEW list, Groups \in GroupList, Len(list) \in Nat
  PROVE  \E p : /\ Assigns(p, Groups, list, Len(list))
                /\ assignRequests(list) = p[Len(list)]
<1> DEFINE g == Groups
           n == Len(list)
           T == ClaimsOf(g)
           base == [i \in DOMAIN g |-> <<>>]
           F == [xk \in T \X (1..n) |->
                   Claim(xk[1], ChosenIn(g, xk[1], list[xk[2]]), xk[2])]
           Solves(f) == f = [k \in 0..n |->
                               IF k = 0 THEN base
                               ELSE Claim(f[k - 1], Chosen(f[k - 1], list[k]), k)]
           a == CHOOSE f : Solves(f)
<1>1. \A c, r : Chosen(c, r) = ChosenIn(g, c, r)
  BY DEF Chosen, ChosenIn, FitsIn, Satisfies, Evaluated
<1>2. base \in T  BY DEF ClaimsOf
<1>3. F \in [T \X (1..n) -> T]
  <2>1. ASSUME NEW xk \in T \X (1..n)
        PROVE  Claim(xk[1], ChosenIn(g, xk[1], list[xk[2]]), xk[2]) \in T
    <3>1. xk[1] \in T /\ xk[2] \in Nat  OBVIOUS
    <3>2. ChosenIn(g, xk[1], list[xk[2]]) \in DOMAIN g \cup {None}  BY ChosenFits
    <3> QED BY <3>1, <3>2, ClaimWrites
  <2> QED BY <2>1
<1>4. \A x \in T, k \in 1..n : F[<<x, k>>] = Claim(x, ChosenIn(g, x, list[k]), k)
  OBVIOUS
<1>5. assignRequests(list) = a[n]  BY DEF assignRequests
<1> HIDE DEF F, T, base
<1>6. PICK p : PrefixResults(p, T, base, F, n)  BY <1>2, <1>3, PrefixesExist
<1>7. /\ p \in [0..n -> T] /\ p[0] = base
      /\ \A k \in 1..n : p[k] = Claim(p[k - 1], ChosenIn(g, p[k - 1], list[k]), k)
  <2>1. p \in [0..n -> T] /\ p[0] = base /\ \A k \in 1..n : p[k] = F[<<p[k - 1], k>>]
    BY <1>6 DEF PrefixResults
  <2>2. \A k \in 1..n : p[k - 1] \in T  BY <2>1
  <2> QED BY <1>4, <2>1, <2>2
<1>8. Solves(p)
  <2>1. \A k \in 0..n : p[k] = IF k = 0 THEN base
                               ELSE Claim(p[k - 1], Chosen(p[k - 1], list[k]), k)
    BY <1>1, <1>7
  <2> QED BY <1>7, <2>1
<1>9. Solves(a) /\ n \in Nat  BY <1>8
<1> HIDE DEF a, g, n
<1>10. n \in Nat /\ a[0] = base
       /\ \A k \in 1..n : a[k] = Claim(a[k - 1], ChosenIn(g, a[k - 1], list[k]), k)
  BY <1>1, <1>9
<1>11. a[n] = p[n]
  <2> DEFINE U == {k \in Nat : k <= n => a[k] = p[k]}
  <2>1. 0 \in U  BY <1>7, <1>10
  <2>2. ASSUME NEW k \in U PROVE k + 1 \in U
    <3> SUFFICES ASSUME k + 1 <= n PROVE a[k + 1] = p[k + 1]  OBVIOUS
    <3>1. a[k] = p[k] /\ k + 1 \in 1..n /\ (k + 1) - 1 = k  BY <1>10
    <3> QED BY <1>7, <1>10, <3>1
  <2> HIDE DEF U
  <2>3. U = Nat  BY <2>1, <2>2, NatSetInduction DEF U
  <2> QED BY <1>10, <2>3 DEF U
<1>12. Assigns(p, g, list, n)  BY <1>7 DEF Assigns, T, base
<1> QED BY <1>5, <1>11, <1>12 DEF g, n

-----------------------------------------------------------------------------
(* What the claims say.                                                    *)

(* After k requests: each claimed request satisfies its group, the claims  *)
(* of a group are in the order of the list, no request is claimed twice,   *)
(* and one that satisfies a group is claimed.                              *)
Fitting(c, g, list) ==
  \A i \in DOMAIN g : \A a \in 1..Len(c[i]) : i \in FitsIn(g, list[c[i][a]])
InOrder(c, g) ==
  \A i \in DOMAIN g : \A a, b \in 1..Len(c[i]) : a < b => c[i][a] < c[i][b]
Exclusive(c, g) ==
  \A i, j \in DOMAIN g : \A a \in 1..Len(c[i]), b \in 1..Len(c[j]) : c[i][a] = c[j][b] => i = j
Complete(c, g, list, k) ==
  \A m \in 1..k : FitsIn(g, list[m]) # {} =>
    \E i \in DOMAIN g : \E a \in 1..Len(c[i]) : c[i][a] = m
Sound(c, g, list, k) ==
  /\ \A i \in DOMAIN g : c[i] \in Seq(1..k)
  /\ Fitting(c, g, list) /\ InOrder(c, g) /\ Exclusive(c, g) /\ Complete(c, g, list, k)

(* One more request keeps the claims sound.                                *)
LEMMA SoundStep ==
  ASSUME NEW g \in GroupList, NEW list, NEW k \in Nat, NEW c \in ClaimsOf(g),
         Sound(c, g, list, k)
  PROVE  Sound(Claim(c, ChosenIn(g, c, list[k + 1]), k + 1), g, list, k + 1)
<1> DEFINE x == ChosenIn(g, c, list[k + 1])
           d == Claim(c, x, k + 1)
           fits == FitsIn(g, list[k + 1])
<1>1. /\ fits # {} => x \in fits
      /\ fits = {} => x = None
      /\ x \in DOMAIN g \cup {None}
  BY ChosenFits
<1>2. fits \in SUBSET DOMAIN g /\ None \notin DOMAIN g  BY DEF FitsIn, GroupList, None
<1> HIDE DEF x
<1>3. \A j \in DOMAIN g : d[j] = IF j = x THEN Append(c[j], k + 1) ELSE c[j]
  BY <1>1, ClaimWrites
<1> HIDE DEF d
<1>4. ASSUME NEW j \in DOMAIN g
      PROVE  /\ c[j] \in Seq(1..k) /\ Len(c[j]) \in Nat
             /\ \A a \in 1..Len(c[j]) : c[j][a] \in 1..k
             /\ d[j] \in Seq(1..(k + 1))
             /\ j # x => d[j] = c[j]
             /\ j = x => /\ Len(d[j]) = Len(c[j]) + 1 /\ d[j][Len(c[j]) + 1] = k + 1
                         /\ \A a \in 1..Len(c[j]) : d[j][a] = c[j][a]
  <2>1. c[j] \in Seq(1..k)  BY DEF Sound
  <2>2. c[j] \in Seq(1..(k + 1)) /\ k + 1 \in 1..(k + 1)
    <3>1. 1..k \in SUBSET (1..(k + 1))  OBVIOUS
    <3> QED BY <2>1, <3>1
  <2>3. CASE j = x
    <3>1. d[j] = Append(c[j], k + 1)  BY <1>3, <2>3
    <3> QED BY <2>1, <2>2, <2>3, <3>1
  <2>4. CASE j # x
    <3>1. d[j] = c[j]  BY <1>3, <2>4
    <3> QED BY <2>1, <2>2, <2>4, <3>1
  <2> QED BY <2>3, <2>4
(* An old claim, or the new one.                                           *)
<1>5. ASSUME NEW j \in DOMAIN g, NEW a \in 1..Len(d[j])
      PROVE  \/ a \in 1..Len(c[j]) /\ d[j][a] = c[j][a] /\ d[j][a] \in 1..k
             \/ j = x /\ a = Len(c[j]) + 1 /\ d[j][a] = k + 1
  <2>1. CASE j # x  BY <1>4, <2>1
  <2>2. CASE j = x /\ a \in 1..Len(c[j])  BY <1>4, <2>2
  <2>3. CASE j = x /\ a \notin 1..Len(c[j])
    <3>1. Len(d[j]) = Len(c[j]) + 1 /\ Len(c[j]) \in Nat  BY <1>4, <2>3
    <3>2. a = Len(c[j]) + 1  BY <2>3, <3>1
    <3> QED BY <1>4, <2>3, <3>2
  <2> QED BY <2>1, <2>2, <2>3
<1>6. Fitting(d, g, list)
  <2> SUFFICES ASSUME NEW j \in DOMAIN g, NEW a \in 1..Len(d[j])
               PROVE  j \in FitsIn(g, list[d[j][a]])
    BY DEF Fitting
  <2>1. CASE a \in 1..Len(c[j]) /\ d[j][a] = c[j][a]
    BY <2>1 DEF Sound, Fitting
  <2>2. CASE j = x /\ d[j][a] = k + 1
    <3>1. x \in fits  BY <1>1, <1>2, <2>2
    <3> QED BY <2>2, <3>1
  <2> QED BY <1>5, <2>1, <2>2
<1>7. InOrder(d, g)
  <2> SUFFICES ASSUME NEW j \in DOMAIN g, NEW a \in 1..Len(d[j]), NEW b \in 1..Len(d[j]),
                      a < b
               PROVE  d[j][a] < d[j][b]
    BY DEF InOrder
  <2>1. CASE b \in 1..Len(c[j]) /\ d[j][b] = c[j][b]
    <3>1. Len(c[j]) \in Nat  BY <1>4
    <3>2. a \in 1..Len(c[j]) /\ d[j][a] = c[j][a]  BY <1>5, <2>1, <3>1
    <3> QED BY <2>1, <3>2 DEF Sound, InOrder
  <2>2. CASE j = x /\ b = Len(c[j]) + 1 /\ d[j][b] = k + 1
    <3>1. Len(c[j]) \in Nat  BY <1>4
    <3>2. d[j][a] \in 1..k  BY <1>5, <2>2, <3>1
    <3> QED BY <2>2, <3>2
  <2> QED BY <1>5, <2>1, <2>2
<1>8. Exclusive(d, g)
  <2> SUFFICES ASSUME NEW i \in DOMAIN g, NEW j \in DOMAIN g, NEW a \in 1..Len(d[i]),
                      NEW b \in 1..Len(d[j]), d[i][a] = d[j][b]
               PROVE  i = j
    BY DEF Exclusive
  <2>1. CASE d[i][a] = k + 1
    <3>1. i = x /\ j = x
      <4>1. ~(k + 1 \in 1..k)  OBVIOUS
      <4> QED BY <1>5, <2>1, <4>1
    <3> QED BY <3>1
  <2>2. CASE d[i][a] # k + 1
    <3>1. /\ a \in 1..Len(c[i]) /\ d[i][a] = c[i][a]
          /\ b \in 1..Len(c[j]) /\ d[j][b] = c[j][b]
      BY <1>5, <2>2
    <3> QED BY <3>1 DEF Sound, Exclusive
  <2> QED BY <2>1, <2>2
<1>9. Complete(d, g, list, k + 1)
  <2> SUFFICES ASSUME NEW m \in 1..(k + 1), FitsIn(g, list[m]) # {}
               PROVE  \E i \in DOMAIN g : \E a \in 1..Len(d[i]) : d[i][a] = m
    BY DEF Complete
  <2>1. CASE m = k + 1
    <3>1. x \in DOMAIN g  BY <1>1, <1>2, <2>1
    <3>2. /\ Len(d[x]) = Len(c[x]) + 1 /\ d[x][Len(c[x]) + 1] = k + 1 /\ Len(c[x]) \in Nat
      BY <1>4, <3>1
    <3>3. Len(c[x]) + 1 \in 1..Len(d[x])  BY <3>2
    <3> QED BY <2>1, <3>1, <3>2, <3>3
  <2>2. CASE m \in 1..k
    <3>1. PICK i \in DOMAIN g : \E a \in 1..Len(c[i]) : c[i][a] = m
      BY <2>2 DEF Sound, Complete
    <3>2. PICK a \in 1..Len(c[i]) : c[i][a] = m  BY <3>1
    <3>3. /\ i # x => d[i] = c[i]
          /\ i = x => Len(d[i]) = Len(c[i]) + 1 /\ d[i][a] = c[i][a]
          /\ Len(c[i]) \in Nat
      BY <1>4
    <3>4. a \in 1..Len(d[i]) /\ d[i][a] = m  BY <3>2, <3>3
    <3> QED BY <3>4
  <2>3. m = k + 1 \/ m \in 1..k  OBVIOUS
  <2> QED BY <2>1, <2>2, <2>3
<1>10. \A j \in DOMAIN g : d[j] \in Seq(1..(k + 1))  BY <1>4
<1> QED BY <1>6, <1>7, <1>8, <1>9, <1>10 DEF Sound, d, x

(* The claims are sound after any number of requests.                      *)
LEMMA ClaimsSound ==
  ASSUME NEW g \in GroupList, NEW list, NEW n \in Nat, NEW p, Assigns(p, g, list, n)
  PROVE  \A k \in 0..n : Sound(p[k], g, list, k)
<1> DEFINE U == {k \in Nat : k <= n => Sound(p[k], g, list, k)}
<1>1. 0 \in U
  <2>1. p[0] = [i \in DOMAIN g |-> <<>>]  BY DEF Assigns
  <2>2. \A i \in DOMAIN g : p[0][i] = <<>>  BY <2>1
  <2>3. \A i \in DOMAIN g : Len(p[0][i]) = 0 /\ p[0][i] \in Seq(1..0)
    <3>1. Len(<<>>) = 0 /\ <<>> \in Seq(1..0)  OBVIOUS
    <3> QED BY <2>2, <3>1
  <2> QED BY <2>3 DEF Sound, Fitting, InOrder, Exclusive, Complete
<1>2. ASSUME NEW k \in U PROVE k + 1 \in U
  <2> SUFFICES ASSUME k + 1 <= n PROVE Sound(p[k + 1], g, list, k + 1)  OBVIOUS
  <2>1. k \in Nat /\ k + 1 \in 1..n /\ (k + 1) - 1 = k /\ k \in 0..n  OBVIOUS
  <2>2. Sound(p[k], g, list, k)  BY <2>1
  <2>3. /\ p[k] \in ClaimsOf(g)
        /\ p[k + 1] = Claim(p[k], ChosenIn(g, p[k], list[k + 1]), k + 1)
    BY <2>1 DEF Assigns
  <2> QED BY <2>1, <2>2, <2>3, SoundStep
<1> HIDE DEF U
<1>3. U = Nat  BY <1>1, <1>2, NatSetInduction DEF U
<1> QED BY <1>3 DEF U

(* Two assignments agree where their lists do.                             *)
LEMMA AssignmentsAgree ==
  ASSUME NEW g, NEW l1, NEW l2, NEW n \in Nat, NEW m \in 0..n, NEW p, NEW q,
         Assigns(p, g, l1, m), Assigns(q, g, l2, n), \A k \in 1..m : l1[k] = l2[k]
  PROVE  \A k \in 0..m : p[k] = q[k]
<1> DEFINE U == {k \in Nat : k <= m => p[k] = q[k]}
<1>1. 0 \in U  BY DEF Assigns
<1>2. ASSUME NEW k \in U PROVE k + 1 \in U
  <2> SUFFICES ASSUME k + 1 <= m PROVE p[k + 1] = q[k + 1]  OBVIOUS
  <2>1. /\ k \in Nat /\ k + 1 \in 1..m /\ (k + 1) - 1 = k /\ k + 1 \in 1..n
        /\ p[k] = q[k] /\ l1[k + 1] = l2[k + 1]
    OBVIOUS
  <2>2. p[k + 1] = Claim(p[k], ChosenIn(g, p[k], l1[k + 1]), k + 1)
    BY <2>1 DEF Assigns
  <2>3. q[k + 1] = Claim(q[k], ChosenIn(g, q[k], l2[k + 1]), k + 1)
    BY <2>1 DEF Assigns
  <2> QED BY <2>1, <2>2, <2>3
<1> HIDE DEF U
<1>3. U = Nat  BY <1>1, <1>2, NatSetInduction DEF U
<1> QED BY <1>3 DEF U

(* One sequence begins with another.                                       *)
Begins(s, t) == Len(s) <= Len(t) /\ \A a \in 1..Len(s) : s[a] = t[a]

(* Later claims begin with the earlier ones.                               *)
LEMMA ClaimsExtend ==
  ASSUME NEW g \in GroupList, NEW list, NEW n \in Nat, NEW m \in 0..n, NEW p,
         Assigns(p, g, list, n)
  PROVE  \A i \in DOMAIN g : Begins(p[m][i], p[n][i])
<1> DEFINE U == {k \in Nat : m + k <= n => \A i \in DOMAIN g : Begins(p[m][i], p[m + k][i])}
<1>0. \A k \in 0..n : p[k] \in ClaimsOf(g)  BY DEF Assigns
<1>1. 0 \in U
  <2>1. \A i \in DOMAIN g : p[m][i] \in Seq(Nat)  BY <1>0 DEF ClaimsOf
  <2>2. \A i \in DOMAIN g : Begins(p[m][i], p[m][i])  BY <2>1 DEF Begins
  <2>3. m + 0 = m  OBVIOUS
  <2> QED BY <2>2, <2>3
<1>2. ASSUME NEW k \in U PROVE k + 1 \in U
  <2> SUFFICES ASSUME m + (k + 1) <= n, NEW i \in DOMAIN g
               PROVE  Begins(p[m][i], p[m + (k + 1)][i])
    OBVIOUS
  <2> DEFINE e == m + k
  <2>1. /\ k \in Nat /\ e \in 0..n /\ e + 1 \in 1..n /\ m + (k + 1) = e + 1
        /\ (e + 1) - 1 = e /\ m \in 0..n /\ e + 1 \in Nat
    OBVIOUS
  <2>2. Begins(p[m][i], p[e][i])  BY <2>1
  <2> HIDE DEF e
  <2>3. p[e + 1] = Claim(p[e], ChosenIn(g, p[e], list[e + 1]), e + 1)
    BY <2>1 DEF Assigns
  <2>4. p[e] \in ClaimsOf(g) /\ p[m] \in ClaimsOf(g)  BY <1>0, <2>1
  <2> DEFINE x == ChosenIn(g, p[e], list[e + 1])
  <2>5. x \in DOMAIN g \cup {None}  BY ChosenFits
  <2> HIDE DEF x
  <2>6. p[e + 1][i] = Append(p[e][i], e + 1) \/ p[e + 1][i] = p[e][i]
    <3>1. p[e + 1] = Claim(p[e], x, e + 1)  BY <2>3 DEF x
    <3>2. Claim(p[e], x, e + 1)[i] = IF i = x THEN Append(p[e][i], e + 1) ELSE p[e][i]
      <4> DEFINE c == p[e]
                 k1 == e + 1
      <4>1. c \in ClaimsOf(g) /\ k1 \in Nat  BY <2>1, <2>4
      <4> HIDE DEF c, k1
      <4>2. Claim(c, x, k1)[i] = IF i = x THEN Append(c[i], k1) ELSE c[i]
        BY <2>5, <4>1, ClaimWrites
      <4> QED BY <4>2 DEF c, k1
    <3> QED BY <3>1, <3>2
  <2>7. p[e][i] \in Seq(Nat) /\ p[m][i] \in Seq(Nat)  BY <2>4 DEF ClaimsOf
  <2>8. Begins(p[m][i], p[e + 1][i])
    <3> DEFINE s == p[m][i]
               t == p[e][i]
               u == p[e + 1][i]
    <3>1. s \in Seq(Nat) /\ t \in Seq(Nat) /\ Begins(s, t) /\ (u = Append(t, e + 1) \/ u = t)
      BY <2>2, <2>6, <2>7
    <3> HIDE DEF s, t, u
    <3>2. u = t => Begins(s, u)  BY <3>1
    <3>3. ASSUME u = Append(t, e + 1) PROVE Begins(s, u)
      <4>1. /\ Len(u) = Len(t) + 1 /\ Len(t) \in Nat /\ Len(s) \in Nat
            /\ \A a \in 1..Len(t) : u[a] = t[a]
        BY <2>1, <3>1, <3>3
      <4> QED BY <3>1, <4>1 DEF Begins
    <3>4. Begins(s, u)  BY <3>1, <3>2, <3>3
    <3> QED BY <3>4 DEF s, u
  <2> QED BY <2>1, <2>8
<1> HIDE DEF U
<1>3. U = Nat  BY <1>1, <1>2, NatSetInduction DEF U
<1>4. n - m \in U /\ m + (n - m) = n  BY <1>3
<1> QED BY <1>4 DEF U


-----------------------------------------------------------------------------
(* What a passed group says of the list.                                   *)

MatchedIn(g, list, i) == {k \in DOMAIN list : i \in FitsIn(g, list[k])}

(* The group was evaluated, is not over its maximum, and has its minimum   *)
(* of claimed requests, all of which pass the checks on every event.       *)
Justified(g, list, claimed, i) ==
  /\ ~g[i].unresolved
  /\ g[i].max = None \/ Cardinality(MatchedIn(g, list, i)) <= g[i].max
  /\ \A a \in 1..Len(claimed) : list[claimed[a]].ok
  /\ Len(claimed) >= minimum(g[i])

(* The requests of a list that a group matches, and how many there are.    *)
LEMMA MatchedIs ==
  ASSUME NEW list, DOMAIN list = 1..Len(list), Len(list) \in Nat, NEW i \in DOMAIN Groups
  PROVE  /\ Matched(list, i) = MatchedIn(Groups, list, i)
         /\ Cardinality(Matched(list, i)) \in Nat
<1>1. Matched(list, i) = MatchedIn(Groups, list, i)
  BY DEF Matched, MatchedIn, FitsIn, Satisfies, Evaluated
<1>2. Matched(list, i) \in SUBSET (1..Len(list))  BY DEF Matched
<1>3. IsFiniteSet(1..Len(list))  BY FS_Interval
<1>4. IsFiniteSet(Matched(list, i))  BY <1>2, <1>3, FS_Subset
<1> QED BY <1>1, <1>4, FS_CardinalityType

(* judgeExpectation passes a group only when it is justified.              *)
LEMMA PassedIsJustified ==
  ASSUME NEW list, DOMAIN list = 1..Len(list), Len(list) \in Nat,
         Groups \in GroupList, NEW i \in DOMAIN Groups, NEW claimed \in Seq(Nat),
         Problem(list, claimed, i) = "none"
  PROVE  Justified(Groups, list, claimed, i)
<1>1. Groups[i].max \in {None} \cup Nat /\ minimum(Groups[i]) \in Nat  BY GroupFields
<1> DEFINE failing == \E k \in ToSet(claimed) : ~list[k].ok
<1>2. /\ Evaluated(i) /\ ~overMax(list, i) /\ ~failing
      /\ ~(Len(claimed) < minimum(Groups[i]))
  <2> HIDE DEF failing
  <2>1. Problem(list, claimed, i) =
          CASE ~Evaluated(i) -> "not evaluated"
            [] overMax(list, i) -> "over max"
            [] Evaluated(i) /\ ~overMax(list, i) /\ failing -> "check failed"
            [] OTHER -> IF Len(claimed) < minimum(Groups[i])
                        THEN IF claimed = <<>> THEN "missing" ELSE "too few" ELSE "none"
    BY DEF Problem, failing
  <2>2. overMax(list, i) => Evaluated(i)  BY DEF overMax
  <2> QED BY <2>1, <2>2
<1>3. ~Groups[i].unresolved  BY <1>2 DEF Evaluated
<1>4. Groups[i].max = None \/ Cardinality(MatchedIn(Groups, list, i)) <= Groups[i].max
  <2>1. Cardinality(Matched(list, i)) \in Nat /\ Matched(list, i) = MatchedIn(Groups, list, i)
    BY MatchedIs
  <2>2. Groups[i].max = None \/ (Groups[i].max \in Nat /\ ~(Cardinality(Matched(list, i)) > Groups[i].max))
    BY <1>1, <1>2 DEF overMax
  <2> QED BY <2>1, <2>2
<1>5. \A a \in 1..Len(claimed) : list[claimed[a]].ok
  <2>1. \A a \in 1..Len(claimed) : claimed[a] \in ToSet(claimed)  BY DEF ToSet
  <2> QED BY <1>2, <2>1
<1>6. Len(claimed) >= minimum(Groups[i])
  <2>1. Len(claimed) \in Nat /\ minimum(Groups[i]) \in Nat  BY <1>1
  <2> QED BY <1>2, <2>1
<1> QED BY <1>3, <1>4, <1>5, <1>6 DEF Justified

(* The outcomes carry the claims of the first m requests.                  *)
OutcomeFields == {"requests", "problem", "passed", "arrivedLate", "closest"}
JudgesAs(out, p, g, list, m) ==
  /\ DOMAIN out = DOMAIN g
  /\ \A i \in DOMAIN g : /\ out[i].requests = p[m][i] /\ DOMAIN out[i] = OutcomeFields
                         /\ out[i].passed \in BOOLEAN

(* The outcomes of a list carry its claims; a group passes only when       *)
(* justified, and then has no problem.                                     *)
LEMMA JudgeIs ==
  ASSUME NEW list, DOMAIN list = 1..Len(list), Len(list) \in Nat,
         Groups \in GroupList, NEW seenAt
  PROVE  \E p : /\ Assigns(p, Groups, list, Len(list))
                /\ JudgesAs(Judge(list, seenAt), p, Groups, list, Len(list))
                /\ \A i \in DOMAIN Groups :
                     Judge(list, seenAt)[i].passed =>
                       /\ Justified(Groups, list, p[Len(list)][i], i)
                       /\ Judge(list, seenAt)[i].problem = "none"
<1>1. PICK p : Assigns(p, Groups, list, Len(list)) /\ assignRequests(list) = p[Len(list)]
  BY AssignmentIs
<1> DEFINE c == p[Len(list)]
           out == Judge(list, seenAt)
<1>2. c \in ClaimsOf(Groups)  BY <1>1 DEF Assigns
<1>3. /\ DOMAIN out = DOMAIN Groups
      /\ \A i \in DOMAIN Groups : out[i] = judgeExpectation(list, c, seenAt, i)
  BY <1>1 DEF Judge
<1> HIDE DEF c, out
<1>4. ASSUME NEW i \in DOMAIN Groups
      PROVE  /\ out[i].requests = c[i] /\ DOMAIN out[i] = OutcomeFields
             /\ out[i].passed \in BOOLEAN
             /\ out[i].passed => Justified(Groups, list, c[i], i) /\ out[i].problem = "none"
  <2>1. /\ out[i].requests = c[i] /\ out[i].problem = Problem(list, c[i], i)
        /\ DOMAIN out[i] = OutcomeFields /\ out[i].passed \in BOOLEAN
        /\ out[i].passed <=> Problem(list, c[i], i) = "none"
    <3> DEFINE problem == Problem(list, c[i], i)
               late == c[i] # <<>> /\ seenAt[Head(c[i])] > 0
               foreign == Matched(list, i) \ ToSet(c[i])
               near == IF problem = "over max" /\ foreign # {} THEN Min(foreign)
                       ELSE IF problem # "none" /\ Evaluated(i)
                               /\ Len(c[i]) < minimum(Groups[i])
                            THEN closestEvent(list, i) ELSE None
               pass == problem = "none"
    <3>1. out[i] = [requests |-> c[i], problem |-> problem, passed |-> pass,
                    arrivedLate |-> late, closest |-> near]
      BY <1>3 DEF judgeExpectation
    <3> HIDE DEF problem, pass, late, near
    <3>2. out[i].requests = c[i] /\ out[i].problem = problem /\ out[i].passed = pass
      BY <3>1
    <3>3. out[i].passed <=> problem = "none"  BY <3>2, Zenon DEF pass
    <3>4. out[i].passed \in BOOLEAN  BY <3>2, Zenon DEF pass
    <3>5. DOMAIN out[i] = OutcomeFields  BY <3>1 DEF OutcomeFields
    <3> QED BY <3>2, <3>3, <3>4, <3>5 DEF problem
  <2>2. c[i] \in Seq(Nat)  BY <1>2 DEF ClaimsOf
  <2> QED BY <2>1, <2>2, PassedIsJustified
<1>5. JudgesAs(out, p, Groups, list, Len(list))
  BY <1>3, <1>4 DEF JudgesAs, c
<1> QED BY <1>1, <1>4, <1>5 DEF c, out

(* Justified claims are an assignment that meets every group.              *)
LEMMA ClaimsAreFeasible ==
  ASSUME NEW list, DOMAIN list = 1..Len(list), Len(list) \in Nat,
         Groups \in GroupList, NEW p, Assigns(p, Groups, list, Len(list)),
         \A i \in DOMAIN Groups : Justified(Groups, list, p[Len(list)][i], i)
  PROVE  Feasible(list) /\ \A i \in DOMAIN Groups : Evaluated(i)
<1> DEFINE n == Len(list)
           g == Groups
           c == p[n]
           Holds(i, k) == i \in DOMAIN g /\ \E a \in 1..Len(c[i]) : c[i][a] = k
           f == [k \in DOMAIN list |->
                   IF \E i \in DOMAIN g : Holds(i, k)
                   THEN CHOOSE i \in DOMAIN g : Holds(i, k) ELSE None]
<1>1. Sound(c, g, list, n) /\ c \in ClaimsOf(g)
  <2>1. n \in 0..n  OBVIOUS
  <2>2. Sound(c, g, list, n)  BY <2>1, ClaimsSound
  <2> QED BY <2>1, <2>2 DEF Assigns
<1>2. None \notin DOMAIN g  BY DEF GroupList, None
<1>3. \A i \in DOMAIN g : /\ c[i] \in Seq(1..n) /\ Len(c[i]) \in Nat
                          /\ Justified(g, list, c[i], i)
  BY <1>1 DEF Sound
<1>4. /\ Fitting(c, g, list) /\ InOrder(c, g) /\ Exclusive(c, g) /\ Complete(c, g, list, n)
  BY <1>1 DEF Sound
<1>5. \A i \in DOMAIN g : \A k \in DOMAIN list : Satisfies(list[k], i) <=> i \in FitsIn(g, list[k])
  BY DEF Satisfies, Evaluated, FitsIn
<1>6. f \in [DOMAIN list -> DOMAIN g \cup {None}]  OBVIOUS
<1>7. ASSUME NEW k \in DOMAIN list
      PROVE  /\ f[k] # None => Holds(f[k], k)
             /\ \A i \in DOMAIN g : Holds(i, k) => f[k] = i
  <2>1. \A i, j \in DOMAIN g : Holds(i, k) /\ Holds(j, k) => i = j
    BY <1>4 DEF Exclusive
  <2> HIDE DEF Holds
  <2>2. f[k] = IF \E i \in DOMAIN g : Holds(i, k)
               THEN CHOOSE i \in DOMAIN g : Holds(i, k) ELSE None
    OBVIOUS
  <2> QED BY <1>2, <2>1, <2>2
<1> HIDE DEF f
<1>8. ASSUME NEW k \in DOMAIN list
      PROVE  IF \E i \in DOMAIN Groups : Satisfies(list[k], i)
             THEN f[k] # None /\ Satisfies(list[k], f[k]) /\ list[k].ok
             ELSE f[k] = None
  <2>1. ASSUME f[k] # None
        PROVE  f[k] \in DOMAIN g /\ Satisfies(list[k], f[k]) /\ list[k].ok
    <3>1. Holds(f[k], k)  BY <1>7, <2>1
    <3>2. PICK a \in 1..Len(c[f[k]]) : c[f[k]][a] = k  BY <3>1
    <3>3. f[k] \in DOMAIN g  BY <3>1
    <3>4. f[k] \in FitsIn(g, list[k])  BY <1>4, <3>2, <3>3 DEF Fitting
    <3>5. list[k].ok  BY <1>3, <3>2, <3>3 DEF Justified
    <3> QED BY <1>5, <3>3, <3>4, <3>5
  <2>2. ASSUME NEW i \in DOMAIN Groups, Satisfies(list[k], i) PROVE f[k] # None
    <3>1. FitsIn(g, list[k]) # {}  BY <1>5, <2>2
    <3>2. PICK j \in DOMAIN g : \E a \in 1..Len(c[j]) : c[j][a] = k
      BY <1>4, <3>1 DEF Complete
    <3>3. f[k] = j  BY <1>7, <3>2
    <3> QED BY <1>2, <3>3
  <2> QED BY <2>1, <2>2
<1>9. ASSUME NEW i \in DOMAIN Groups
      PROVE  Cardinality({k \in DOMAIN list : f[k] = i}) >= minimum(Groups[i])
  <2> DEFINE K == {k \in DOMAIN list : f[k] = i}
             s == c[i]
  <2>1. s \in Seq(1..n) /\ Len(s) \in Nat /\ s \in [1..Len(s) -> 1..n]  BY <1>3
  <2>2. \A a \in 1..Len(s) : s[a] \in K
    <3> TAKE a \in 1..Len(s)
    <3>1. s[a] \in DOMAIN list  BY <2>1
    <3>2. Holds(i, s[a])  OBVIOUS
    <3> QED BY <1>7, <3>1, <3>2
  <2>3. \A a, b \in 1..Len(s) : s[a] = s[b] => a = b
    <3>1. \A a, b \in 1..Len(s) : a < b => s[a] < s[b]  BY <1>4 DEF InOrder
    <3>2. \A a \in 1..Len(s) : s[a] \in Int  BY <2>1
    <3> QED BY <3>1, <3>2
  <2>4. K \in SUBSET (1..n)  OBVIOUS
  <2> HIDE DEF K, s
  <2>5. IsFiniteSet(K)
    <3>1. n \in Int  OBVIOUS
    <3> HIDE DEF n
    <3>2. IsFiniteSet(1..n)  BY <3>1, FS_Interval
    <3> QED BY <2>4, <3>2, FS_Subset
  <2>6. s \in Injection(1..Len(s), K)
    <3>1. s \in [1..Len(s) -> K]  BY <2>1, <2>2
    <3> QED BY <2>3, <3>1 DEF Injection, IsInjective
  <2>7. Cardinality(1..Len(s)) <= Cardinality(K)  BY <2>5, <2>6, FS_Injection
  <2>8. Cardinality(1..Len(s)) = Len(s) /\ Cardinality(K) \in Nat
    <3> DEFINE l == Len(s)
    <3>0. l \in Nat /\ l \in Int /\ 1 \in Int  BY <2>1
    <3> HIDE DEF l
    <3>1. Cardinality(1..l) = IF 1 > l THEN 0 ELSE l - 1 + 1
      BY <3>0, FS_Interval
    <3>2. Cardinality(K) \in Nat  BY <2>5, FS_CardinalityType
    <3>3. Cardinality(1..l) = l  BY <3>0, <3>1
    <3> QED BY <3>2, <3>3 DEF l
  <2>9. Len(s) >= minimum(g[i])  BY <1>3 DEF s, Justified
  <2>10. minimum(g[i]) \in Nat  BY GroupFields
  <2> QED BY <2>1, <2>7, <2>8, <2>9, <2>10 DEF K
<1>10. \A i \in DOMAIN Groups : Groups[i].max = None
                                \/ Cardinality(Matched(list, i)) <= Groups[i].max
  BY <1>3, MatchedIs DEF Justified
<1>11. Feasible(list)  BY <1>6, <1>8, <1>9, <1>10 DEF Feasible
<1>12. \A i \in DOMAIN Groups : Evaluated(i)  BY <1>3 DEF Justified, Evaluated
<1> QED BY <1>11, <1>12


-----------------------------------------------------------------------------
(* The inductive invariant.                                                *)

(* The list of the last poll is one the control plane went through.        *)
ListInv ==
  /\ setup \in Setups /\ captured \in Seq(Requests) /\ items \in Seq(Requests)
  /\ Begins(items, captured)
  /\ now \in Nat /\ polledOnce \in BOOLEAN
  /\ settledAt \in {None} \cup Nat /\ judged \in {None} \cup Nat

(* The outcomes carry the claims of the first m requests of the list: all  *)
(* of them, except between the answer of the control plane and observe.    *)
CreditInv ==
  outcomes # <<>> =>
    \E m \in 0..Len(items) : \E p :
      /\ Assigns(p, setup.groups, items, m)
      /\ JudgesAs(outcomes, p, setup.groups, items, m)
      /\ pc # "judging" =>
           /\ m = Len(items)
           /\ \A i \in DOMAIN setup.groups : outcomes[i].passed =>
                Justified(setup.groups, items, p[m][i], i)

AllPassed == \A i \in DOMAIN outcomes : outcomes[i].passed

(* When the listener has outcomes, and what the settle window says of      *)
(* them.                                                                   *)
WindowInv ==
  /\ polledOnce => outcomes # <<>> /\ Expecting
  /\ ~polledOnce => /\ settledAt = None
                    /\ pc # "ended" => outcomes = <<>>
                    /\ Expecting /\ pc # "judging" => items = <<>>
  /\ settledAt # None => settledAt >= setup.settle
  /\ polledOnce /\ settledAt = None /\ AllPassed => ~requiresAnEvent

(* How a wait with expectations passes.                                    *)
PassInv ==
  /\ pc # "ended" => result.status = "none"
  /\ result.status = "passed" /\ Expecting =>
       /\ outcomes # <<>> /\ AllPassed
       /\ IF settledAt = None THEN CtxDone /\ ~requiresAnEvent ELSE judged >= settledAt

WaitInv == ListInv /\ CreditInv /\ WindowInv /\ PassInv

(* The invariant in the initial state.                                     *)
LEMMA InitWait == Init => WaitInv
<1> SUFFICES ASSUME Init PROVE WaitInv  OBVIOUS
<1>1. ListInv
  <2>1. captured = <<>> /\ items = <<>> /\ <<>> \in Seq(Requests)  BY DEF Init
  <2>2. Begins(<<>>, <<>>)  BY DEF Begins
  <2> QED BY <2>1, <2>2 DEF Init, ListInv
<1>2. CreditInv  BY DEF Init, CreditInv
<1>3. WindowInv  BY DEF Init, WindowInv
<1>4. PassInv  BY DEF Init, PassInv
<1> QED BY <1>1, <1>2, <1>3, <1>4 DEF WaitInv

(* The steps that end the node, and with which status.                     *)
LEMMA Ending ==
  /\ Execute => setup' = setup /\ (pc' = "loop" \/ (pc' = "ended" /\ result'.status = "failed"))
  /\ TimedOut /\ Expecting =>
       /\ pc' = "ended" /\ outcomes' = timedOutOutcomes
       /\ result'.status = Verdict(timedOutOutcomes)
  /\ TimedOut /\ ~Expecting =>
       pc' = "ended" /\ outcomes' = outcomes /\ result'.status = "timeout"
  /\ FetchFatal => pc' = "ended" /\ result'.status = "failed"
<1>1. Execute => setup' = setup /\ (pc' = "loop" \/ (pc' = "ended" /\ result'.status = "failed"))
  BY DEF Execute, End
<1>2. TimedOut /\ Expecting =>
       /\ pc' = "ended" /\ outcomes' = timedOutOutcomes
       /\ result'.status = Verdict(timedOutOutcomes)
  BY DEF TimedOut, End
<1>3. TimedOut /\ ~Expecting =>
       pc' = "ended" /\ outcomes' = outcomes /\ result'.status = "timeout"
  BY DEF TimedOut, End
<1>4. FetchFatal => pc' = "ended" /\ result'.status = "failed"
  BY DEF FetchFatal, End
<1> QED BY <1>1, <1>2, <1>3, <1>4


(* What the invariant says of the data of the node.                        *)
LEMMA ListFacts ==
  ASSUME ListInv
  PROVE  /\ Groups \in GroupList /\ Groups = setup.groups /\ setup.settle \in Nat
         /\ DOMAIN items = 1..Len(items) /\ Len(items) \in Nat
         /\ setup.timeout \in Nat
<1>1. items \in Seq(Requests) /\ setup \in Setups  BY DEF ListInv
<1>2. Groups \in GroupList /\ setup.settle \in Nat /\ setup.timeout \in Nat
  BY <1>1, SetupAssumption DEF Groups, GroupList, GroupData
<1> QED BY <1>1, <1>2 DEF Groups

(* The steps that leave the list, the outcomes and the listener alone and  *)
(* do not come from a judgement.                                           *)
LEMMA QuietStep ==
  ASSUME WaitInv,
         Execute \/ Fetch \/ FetchFails \/ Wake \/ Capture \/ Tick \/ Cancel \/ Ended
         \/ MatchFirst \/ UNCHANGED vars
  PROVE  WaitInv'
<1> USE DEF WaitInv
<1>1. /\ setup' = setup /\ items' = items /\ outcomes' = outcomes
      /\ polledOnce' = polledOnce /\ settledAt' = settledAt /\ judged' = judged
  BY DEF Execute, Fetch, FetchFails, Wake, Capture, Tick, Cancel, Ended, MatchFirst, vars, listener
<1>2. pc = "judging" /\ pc' # "judging" => outcomes = <<>> /\ ~Expecting
  <2>1. pc = "judging" /\ pc' # "judging" => MatchFirst
    BY DEF Execute, Fetch, FetchFails, Wake, Capture, Tick, Cancel, Ended, vars
  <2>2. MatchFirst => ~Expecting /\ pc = "judging"  BY DEF MatchFirst
  <2> QED BY <2>1, <2>2 DEF WindowInv
<1>3. ListInv'
  <2>1. now' \in Nat /\ captured' \in Seq(Requests) /\ Begins(items, captured')
    <3>1. CASE captured' = captured /\ now' = now  BY <3>1 DEF ListInv
    <3>2. CASE Capture
      <4>1. PICK r \in Requests : captured' = Append(captured, r)  BY <3>2 DEF Capture
      <4>2. /\ captured \in Seq(Requests) /\ items \in Seq(Requests) /\ Begins(items, captured)
            /\ now' \in Nat
        BY <3>2 DEF ListInv, Capture
      <4>3. /\ captured' \in Seq(Requests) /\ Len(captured') = Len(captured) + 1
            /\ Len(captured) \in Nat /\ Len(items) \in Nat
            /\ \A k \in 1..Len(captured) : captured'[k] = captured[k]
        BY <4>1, <4>2
      <4> QED BY <4>2, <4>3 DEF Begins
    <3>3. CASE Tick  BY <3>3 DEF Tick, ListInv
    <3> QED BY <3>1, <3>2, <3>3
        DEF Execute, Fetch, FetchFails, Wake, Cancel, Ended, MatchFirst, vars
  <2> QED BY <1>1, <2>1 DEF ListInv
<1>4. CreditInv'
  <2> SUFFICES ASSUME outcomes # <<>>
               PROVE  \E m \in 0..Len(items) : \E p :
                        /\ Assigns(p, setup.groups, items, m)
                        /\ JudgesAs(outcomes, p, setup.groups, items, m)
                        /\ pc' # "judging" =>
                             /\ m = Len(items)
                             /\ \A i \in DOMAIN setup.groups : outcomes[i].passed =>
                                  Justified(setup.groups, items, p[m][i], i)
    BY <1>1 DEF CreditInv
  <2>1. pc' # "judging" => pc # "judging"  BY <1>2
  <2>2. CreditInv  OBVIOUS
  <2> QED BY <2>1, <2>2 DEF CreditInv
<1>5. WindowInv'
  <2>1. Expecting' = Expecting /\ AllPassed' = AllPassed /\ requiresAnEvent' = requiresAnEvent
    BY <1>1 DEF Expecting, AllPassed, requiresAnEvent, Groups
  <2>2. pc = "ended" => pc' = "ended"
    BY DEF Execute, Fetch, FetchFails, Wake, Capture, Tick, Cancel, Ended, MatchFirst, vars
  <2> QED BY <1>1, <1>2, <2>1, <2>2 DEF WindowInv
<1>6. PassInv'
  <2>1. CASE pc = "ended"
    <3>1. pc' = pc /\ result' = result /\ now' = now /\ cancelled' = cancelled
      BY <2>1 DEF Execute, Fetch, FetchFails, Wake, Capture, Tick, Cancel, Ended, MatchFirst, vars
    <3>2. Expecting' = Expecting /\ AllPassed' = AllPassed /\ requiresAnEvent' = requiresAnEvent
          /\ CtxDone' = CtxDone
      BY <1>1, <3>1 DEF Expecting, AllPassed, requiresAnEvent, Groups, CtxDone
    <3> QED BY <1>1, <3>1, <3>2 DEF PassInv
  <2>2. CASE pc # "ended"
    <3>1. result.status = "none"  BY <2>2 DEF PassInv
    <3>2. Expecting' = Expecting  BY <1>1 DEF Expecting, Groups
    <3>3. CASE result' = result /\ pc' # "ended"  BY <3>1, <3>3 DEF PassInv
    <3>4. CASE Execute
      <4>1. pc' = "ended" => result'.status = "failed"  BY <3>4, Ending
      <4>2. pc' # "ended" => result' = result  BY <3>4 DEF Execute, End
      <4> QED BY <3>1, <4>1, <4>2 DEF PassInv
    <3>5. CASE MatchFirst
      <4>1. ~Expecting /\ (pc' # "ended" => result' = result)
        BY <3>5 DEF MatchFirst, End
      <4> QED BY <3>1, <3>2, <4>1 DEF PassInv
    <3> QED BY <2>2, <3>3, <3>4, <3>5 DEF Fetch, FetchFails, Wake, Capture, Tick, Cancel, Ended, vars, Sleep
  <2> QED BY <2>1, <2>2
<1> QED BY <1>3, <1>4, <1>5, <1>6

(* The control plane answers: the listed requests continue those of the    *)
(* last poll.                                                              *)
LEMMA ListStep ==
  ASSUME WaitInv, FetchLists
  PROVE  WaitInv'
<1> USE DEF WaitInv
<1>1. /\ setup' = setup /\ outcomes' = outcomes /\ captured' = captured /\ now' = now
      /\ polledOnce' = polledOnce /\ settledAt' = settledAt /\ judged' = judged
      /\ items' = captured /\ pc = "fetching" /\ pc' = "judging" /\ result' = result
  BY DEF FetchLists, listener
<1>2. /\ captured \in Seq(Requests) /\ items \in Seq(Requests) /\ Begins(items, captured)
      /\ Len(captured) \in Nat /\ Len(items) \in Nat
  BY DEF ListInv
<1>3. ListInv'
  <2>1. Begins(captured, captured)  BY <1>2 DEF Begins
  <2> QED BY <1>1, <2>1 DEF ListInv
<1>4. CreditInv'
  <2> SUFFICES ASSUME outcomes # <<>>
               PROVE  \E m \in 0..Len(captured) : \E p :
                        /\ Assigns(p, setup.groups, captured, m)
                        /\ JudgesAs(outcomes, p, setup.groups, captured, m)
    BY <1>1 DEF CreditInv
  <2>1. PICK m \in 0..Len(items) : \E p : /\ Assigns(p, setup.groups, items, m)
                                          /\ JudgesAs(outcomes, p, setup.groups, items, m)
    BY DEF CreditInv
  <2>2. PICK p : /\ Assigns(p, setup.groups, items, m)
                 /\ JudgesAs(outcomes, p, setup.groups, items, m)
    BY <2>1
  <2>3. m \in 0..Len(captured) /\ \A k \in 1..m : items[k] = captured[k]
    BY <1>2 DEF Begins
  <2>4. Assigns(p, setup.groups, captured, m)  BY <2>2, <2>3 DEF Assigns
  <2>5. JudgesAs(outcomes, p, setup.groups, captured, m)  BY <2>2 DEF JudgesAs
  <2> QED BY <2>3, <2>4, <2>5
<1>5. WindowInv'
  <2>1. Expecting' = Expecting /\ AllPassed' = AllPassed /\ requiresAnEvent' = requiresAnEvent
    BY <1>1 DEF Expecting, AllPassed, requiresAnEvent, Groups
  <2> QED BY <1>1, <2>1 DEF WindowInv
<1>6. PassInv'  BY <1>1 DEF PassInv
<1> QED BY <1>3, <1>4, <1>5, <1>6


(* The outcomes are those of the whole list, and a group that passed is    *)
(* justified by it.                                                        *)
Carries(out, p, g, list) ==
  /\ Assigns(p, g, list, Len(list)) /\ JudgesAs(out, p, g, list, Len(list))
  /\ \A i \in DOMAIN g : out[i].passed => Justified(g, list, p[Len(list)][i], i)

(* finalOutcomes are those of the last list, before the first judgement    *)
(* those of an empty list.  With none judged, they pass only a node that   *)
(* needs no event.                                                         *)
LEMMA FinalOutcomes ==
  ASSUME WaitInv, pc # "judging", pc # "ended", Expecting
  PROVE  /\ \E p : Carries(finalOutcomes, p, setup.groups, items)
         /\ settledAt = None /\ (\A i \in DOMAIN finalOutcomes : finalOutcomes[i].passed)
            => ~requiresAnEvent
<1> USE DEF WaitInv
<1>0. /\ Groups \in GroupList /\ Groups = setup.groups
      /\ DOMAIN items = 1..Len(items) /\ Len(items) \in Nat
  BY ListFacts
<1>1. CASE polledOnce
  <2>1. finalOutcomes = outcomes /\ outcomes # <<>>  BY <1>1 DEF finalOutcomes, WindowInv
  <2>2. \E p : Carries(outcomes, p, setup.groups, items)
    BY <2>1 DEF CreditInv, Carries
  <2> QED BY <1>1, <2>1, <2>2 DEF WindowInv, AllPassed
<1>2. CASE ~polledOnce
  <2>1. items = <<>> /\ finalOutcomes = Judge(items, <<>>)
    BY <1>2 DEF finalOutcomes, WindowInv
  <2> DEFINE out == Judge(items, <<>>)
  <2>2. PICK p : /\ Assigns(p, Groups, items, Len(items))
                 /\ JudgesAs(out, p, Groups, items, Len(items))
                 /\ \A i \in DOMAIN Groups : out[i].passed =>
                      Justified(Groups, items, p[Len(items)][i], i)
    BY <1>0, JudgeIs
  <2> HIDE DEF out
  <2>3. Carries(out, p, setup.groups, items)  BY <1>0, <2>2 DEF Carries
  <2>4. ASSUME \A i \in DOMAIN out : out[i].passed PROVE ~requiresAnEvent
    <3> SUFFICES ASSUME NEW i \in DOMAIN Groups, minimum(Groups[i]) > 0 PROVE FALSE
      BY DEF requiresAnEvent
    <3>1. out[i].passed  BY <2>2, <2>4 DEF JudgesAs
    <3>2. Justified(Groups, items, p[Len(items)][i], i)  BY <2>2, <3>1
    <3>3. Len(items) = 0  BY <2>1
    <3>4. p[0][i] = <<>>  BY <2>2 DEF Assigns
    <3>5. Len(<<>>) >= minimum(Groups[i])  BY <3>2, <3>3, <3>4 DEF Justified
    <3>6. minimum(Groups[i]) \in Nat  BY <1>0, GroupFields
    <3> QED BY <3>5, <3>6
  <2> QED BY <2>1, <2>3, <2>4 DEF out
<1> QED BY <1>1, <1>2

(* A list of outcomes of the groups is not empty.                          *)
LEMMA CarriedNotEmpty ==
  ASSUME Expecting, Groups \in GroupList, NEW out,
         DOMAIN out = DOMAIN Groups
  PROVE  out # <<>> /\ \E i \in DOMAIN out : TRUE
<1>1. Groups # <<>>  BY DEF Expecting
<1>2. 1 \in DOMAIN Groups  BY <1>1 DEF GroupList
<1> QED BY <1>2

(* A step that judges or keeps the whole list, after which the node no     *)
(* longer judges.                                                          *)
LEMMA CarriesCredit ==
  ASSUME WaitInv, setup' = setup, items' = items,
         NEW p, Carries(outcomes', p, setup.groups, items)
  PROVE  CreditInv'
<1>0. Len(items) \in Nat  BY ListFacts DEF WaitInv
<1> SUFFICES \E m \in 0..Len(items) : \E q :
               /\ Assigns(q, setup.groups, items, m)
               /\ JudgesAs(outcomes', q, setup.groups, items, m)
               /\ pc' # "judging" =>
                    /\ m = Len(items)
                    /\ \A i \in DOMAIN setup.groups : outcomes'[i].passed =>
                         Justified(setup.groups, items, q[m][i], i)
  BY DEF CreditInv
<1>1. Len(items) \in 0..Len(items)  BY <1>0
<1> QED BY <1>1 DEF Carries

(* The wait times out, or the control plane gives an answer nothing can be *)
(* done about.                                                             *)
LEMMA TimeoutStep ==
  ASSUME WaitInv, TimedOut
  PROVE  WaitInv'
<1> USE DEF WaitInv
<1>0. /\ Groups \in GroupList /\ Groups = setup.groups
      /\ DOMAIN items = 1..Len(items) /\ Len(items) \in Nat
  BY ListFacts
<1>1. /\ setup' = setup /\ captured' = captured /\ now' = now /\ items' = items
      /\ polledOnce' = polledOnce /\ settledAt' = settledAt /\ judged' = judged
      /\ pc = "loop" /\ CtxDone /\ pc' = "ended" /\ cancelled' = cancelled
  BY Ending DEF TimedOut
<1>2. ListInv'  BY <1>1 DEF ListInv
<1>3. Expecting' = Expecting /\ requiresAnEvent' = requiresAnEvent /\ CtxDone' = CtxDone
  BY <1>1 DEF Expecting, requiresAnEvent, Groups, CtxDone
<1>4. CASE ~Expecting
  <2>1. outcomes' = outcomes /\ outcomes = <<>>  BY <1>1, <1>4, Ending DEF WindowInv
  <2>2. AllPassed' = AllPassed  BY <2>1 DEF AllPassed
  <2>3. CreditInv'  BY <2>1 DEF CreditInv
  <2>4. WindowInv'  BY <1>1, <1>3, <1>4, <2>1, <2>2 DEF WindowInv
  <2>5. PassInv'  BY <1>1, <1>3, <1>4 DEF PassInv
  <2> QED BY <1>2, <2>3, <2>4, <2>5
<1>5. CASE Expecting
  <2> DEFINE fin == finalOutcomes
             out == timedOutOutcomes
  <2>1. outcomes' = out /\ result'.status = Verdict(out)  BY <1>5, Ending
  <2>2. /\ \E p : Carries(fin, p, setup.groups, items)
        /\ settledAt = None /\ (\A i \in DOMAIN fin : fin[i].passed) => ~requiresAnEvent
    BY <1>1, <1>5, FinalOutcomes
  <2>3. PICK p : Carries(fin, p, setup.groups, items)  BY <2>2
  <2>4. /\ DOMAIN fin = DOMAIN Groups
        /\ \A i \in DOMAIN fin : DOMAIN fin[i] = OutcomeFields /\ fin[i].passed \in BOOLEAN
    BY <1>0, <2>3 DEF Carries, JudgesAs
  <2>5. settledAt = None => out = fin  BY DEF timedOutOutcomes
  <2>6. ASSUME settledAt # None
        PROVE  /\ DOMAIN out = DOMAIN fin
               /\ \A i \in DOMAIN fin : /\ out[i].requests = fin[i].requests
                                        /\ DOMAIN out[i] = OutcomeFields
                                        /\ out[i].passed = FALSE
    <3>1. out = [i \in DOMAIN fin |->
                   IF fin[i].passed
                   THEN [fin[i] EXCEPT !.passed = FALSE, !.problem = "timed out"]
                   ELSE fin[i]]
      BY <2>6 DEF timedOutOutcomes
    <3> HIDE DEF out, fin
    <3>2. ASSUME NEW i \in DOMAIN fin
          PROVE  /\ out[i].requests = fin[i].requests /\ DOMAIN out[i] = OutcomeFields
                 /\ out[i].passed = FALSE
      <4>1. DOMAIN fin[i] = OutcomeFields /\ fin[i].passed \in BOOLEAN  BY <2>4
      <4>2. CASE fin[i].passed
        <5>1. out[i] = [fin[i] EXCEPT !.passed = FALSE, !.problem = "timed out"]
          BY <3>1, <4>2
        <5> QED BY <4>1, <5>1 DEF OutcomeFields
      <4>3. CASE ~fin[i].passed
        <5>1. out[i] = fin[i]  BY <3>1, <4>3
        <5> QED BY <4>1, <4>3, <5>1
      <4> QED BY <4>2, <4>3
    <3>3. DOMAIN out = DOMAIN fin  BY <3>1
    <3> QED BY <3>2, <3>3
  <2> HIDE DEF out, fin
  <2>7. Carries(out, p, setup.groups, items) /\ DOMAIN out = DOMAIN Groups
    <3>1. CASE settledAt = None  BY <2>3, <2>4, <2>5, <3>1
    <3>2. CASE settledAt # None
      <4>1. DOMAIN fin = DOMAIN setup.groups  BY <1>0, <2>4
      <4>2. \A i \in DOMAIN setup.groups : out[i].requests = p[Len(items)][i]
        BY <2>3, <2>6, <3>2, <4>1 DEF Carries, JudgesAs
      <4>3. JudgesAs(out, p, setup.groups, items, Len(items))
        BY <2>6, <3>2, <4>1, <4>2 DEF JudgesAs
      <4> QED BY <1>0, <2>3, <2>6, <3>2, <4>1, <4>3 DEF Carries
    <3> QED BY <3>1, <3>2
  <2>8. out # <<>> /\ \E i \in DOMAIN out : TRUE  BY <1>0, <1>5, <2>7, CarriedNotEmpty
  <2>9. CreditInv'
    <3>1. Carries(outcomes', p, setup.groups, items)  BY <2>1, <2>7
    <3> QED BY <1>1, <3>1, CarriesCredit
  <2>10. AllPassed' => settledAt = None /\ ~requiresAnEvent
    <3>1. AllPassed' => \A i \in DOMAIN out : out[i].passed  BY <2>1 DEF AllPassed
    <3>2. settledAt # None => ~(\A i \in DOMAIN out : out[i].passed)  BY <2>6, <2>8
    <3> QED BY <2>2, <2>5, <3>1, <3>2
  <2>11. WindowInv'  BY <1>1, <1>3, <2>1, <2>8, <2>10 DEF WindowInv
  <2>12. PassInv'
    <3>1. result'.status = "passed" => AllPassed'  BY <2>1 DEF Verdict, AllPassed
    <3> QED BY <1>1, <1>3, <2>1, <2>8, <2>10, <3>1 DEF PassInv
  <2> QED BY <1>2, <2>9, <2>11, <2>12
<1> QED BY <1>4, <1>5

(* The same of an answer nothing can be done about.                        *)
LEMMA FatalStep ==
  ASSUME WaitInv, FetchFatal
  PROVE  WaitInv'
<1> USE DEF WaitInv
<1>0. /\ Groups \in GroupList /\ Groups = setup.groups
      /\ DOMAIN items = 1..Len(items) /\ Len(items) \in Nat
  BY ListFacts
<1>1. /\ setup' = setup /\ captured' = captured /\ now' = now /\ items' = items
      /\ polledOnce' = polledOnce /\ settledAt' = settledAt /\ judged' = judged
      /\ pc = "fetching" /\ pc' = "ended" /\ result'.status = "failed"
      /\ outcomes' = IF Expecting THEN finalOutcomes ELSE outcomes
  BY Ending DEF FetchFatal
<1>2. ListInv'  BY <1>1 DEF ListInv
<1>3. Expecting' = Expecting /\ requiresAnEvent' = requiresAnEvent
  BY <1>1 DEF Expecting, requiresAnEvent, Groups
<1>4. PassInv'  BY <1>1 DEF PassInv
<1>5. CASE ~Expecting
  <2>1. outcomes' = outcomes /\ outcomes = <<>>  BY <1>1, <1>5 DEF WindowInv
  <2>2. AllPassed' = AllPassed  BY <2>1 DEF AllPassed
  <2>3. CreditInv'  BY <2>1 DEF CreditInv
  <2>4. WindowInv'  BY <1>1, <1>3, <1>5, <2>1, <2>2 DEF WindowInv
  <2> QED BY <1>2, <1>4, <2>3, <2>4
<1>6. CASE Expecting
  <2> DEFINE fin == finalOutcomes
  <2>1. outcomes' = fin  BY <1>1, <1>6
  <2>2. /\ \E p : Carries(fin, p, setup.groups, items)
        /\ settledAt = None /\ (\A i \in DOMAIN fin : fin[i].passed) => ~requiresAnEvent
    BY <1>1, <1>6, FinalOutcomes
  <2>3. PICK p : Carries(fin, p, setup.groups, items)  BY <2>2
  <2> HIDE DEF fin
  <2>4. DOMAIN fin = DOMAIN Groups  BY <1>0, <2>3 DEF Carries, JudgesAs
  <2>5. fin # <<>>  BY <1>0, <1>6, <2>4, CarriedNotEmpty
  <2>6. CreditInv'
    <3>1. Carries(outcomes', p, setup.groups, items)  BY <2>1, <2>3
    <3> QED BY <1>1, <3>1, CarriesCredit
  <2>7. WindowInv'
    <3>1. AllPassed' => \A i \in DOMAIN fin : fin[i].passed  BY <2>1 DEF AllPassed
    <3> QED BY <1>1, <1>3, <2>1, <2>2, <2>5, <3>1 DEF WindowInv
  <2> QED BY <1>2, <1>4, <2>6, <2>7
<1> QED BY <1>5, <1>6


(* observe judges the list.                                                *)
LEMMA ObserveStep ==
  ASSUME WaitInv, observe
  PROVE  WaitInv'
<1> USE DEF WaitInv
<1>0. /\ Groups \in GroupList /\ Groups = setup.groups /\ setup.settle \in Nat
      /\ DOMAIN items = 1..Len(items) /\ Len(items) \in Nat
      /\ now \in Nat /\ settledAt \in {None} \cup Nat
  BY ListFacts DEF ListInv
<1>1. /\ setup' = setup /\ captured' = captured /\ now' = now /\ items' = items
      /\ polledOnce' = TRUE /\ judged' = now /\ pc = "judging" /\ Expecting
      /\ outcomes' = Judge(items, SeenAt) /\ settledAt' = WindowEnd(outcomes')
  BY DEF observe
<1>2. \/ /\ Broken(outcomes') \/ (Settling(outcomes') /\ now >= settledAt')
         /\ pc' = "ended" /\ result'.status = Verdict(outcomes')
      \/ pc' = "sleep" /\ result' = result
  <2>1. CASE Broken(outcomes') \/ (Settling(outcomes') /\ now >= settledAt')
    <3>1. End(Verdict(outcomes'), outcomes', <<>>)  BY <2>1 DEF observe
    <3> QED BY <2>1, <3>1 DEF End
  <2>2. CASE ~(Broken(outcomes') \/ (Settling(outcomes') /\ now >= settledAt'))
    BY <2>2 DEF observe, Sleep
  <2> QED BY <2>1, <2>2
<1>3. PICK p : /\ Assigns(p, Groups, items, Len(items))
               /\ JudgesAs(outcomes', p, Groups, items, Len(items))
               /\ \A i \in DOMAIN Groups : outcomes'[i].passed =>
                    /\ Justified(Groups, items, p[Len(items)][i], i)
                    /\ outcomes'[i].problem = "none"
  <2> DEFINE out == Judge(items, SeenAt)
  <2>1. \E p : /\ Assigns(p, Groups, items, Len(items))
               /\ JudgesAs(out, p, Groups, items, Len(items))
               /\ \A i \in DOMAIN Groups : out[i].passed =>
                    /\ Justified(Groups, items, p[Len(items)][i], i)
                    /\ out[i].problem = "none"
    BY <1>0, JudgeIs
  <2> HIDE DEF out
  <2>2. outcomes' = out  BY <1>1 DEF out
  <2> QED BY <2>1, <2>2
<1>4. DOMAIN outcomes' = DOMAIN Groups  BY <1>3 DEF JudgesAs
<1>5. outcomes' # <<>>
  <2> DEFINE o == outcomes'
  <2>1. DOMAIN o = DOMAIN Groups  BY <1>4
  <2> HIDE DEF o
  <2>2. o # <<>>  BY <1>0, <1>1, <2>1, CarriedNotEmpty
  <2> QED BY <2>2 DEF o
<1>6. /\ settledAt' \in {None} \cup Nat
      /\ settledAt' # None => settledAt' >= setup.settle
      /\ Settling(outcomes') => settledAt' # None
  <2>1. settledAt # None => settledAt >= setup.settle  BY DEF WindowInv
  <2>2. now + setup.settle \in Nat /\ now + setup.settle >= setup.settle
        /\ now + setup.settle # None
    BY <1>0 DEF None
  <2>3. settledAt' = IF settledAt = None /\ Settling(outcomes') THEN now + setup.settle
                     ELSE settledAt
    BY <1>1 DEF WindowEnd
  <2> QED BY <1>0, <2>1, <2>2, <2>3
<1>7. Expecting' = Expecting /\ requiresAnEvent' = requiresAnEvent
  BY <1>1 DEF Expecting, requiresAnEvent, Groups
<1>8. AllPassed' => ~Broken(outcomes') /\ (requiresAnEvent => Settling(outcomes'))
  <2> SUFFICES ASSUME AllPassed' PROVE ~Broken(outcomes') /\ (requiresAnEvent => Settling(outcomes'))
    OBVIOUS
  <2>1. \A i \in DOMAIN outcomes' : outcomes'[i].passed /\ outcomes'[i].problem = "none"
    BY <1>3, <1>4 DEF AllPassed
  <2>2. ~Broken(outcomes')  BY <2>1 DEF Broken
  <2>3. Met(outcomes')  BY <2>1, <2>2 DEF Met
  <2> QED BY <2>2, <2>3 DEF Settling
<1>9. ListInv'  BY <1>0, <1>1, <1>6 DEF ListInv
<1>10. CreditInv'
  <2>1. Carries(outcomes', p, setup.groups, items)  BY <1>0, <1>3 DEF Carries
  <2> QED BY <1>1, <2>1, CarriesCredit
<1>11. WindowInv'  BY <1>1, <1>5, <1>6, <1>7, <1>8 DEF WindowInv
<1>12. PassInv'
  <2>1. CASE pc' = "sleep" /\ result' = result
    <3>1. result'.status = "none"  BY <1>1, <2>1 DEF PassInv
    <3> QED BY <2>1, <3>1 DEF PassInv
  <2>2. CASE /\ Broken(outcomes') \/ (Settling(outcomes') /\ now >= settledAt')
             /\ pc' = "ended" /\ result'.status = Verdict(outcomes')
    <3>1. result'.status = "passed" => AllPassed'  BY <2>2 DEF Verdict, AllPassed
    <3>2. AllPassed' => settledAt' # None /\ now >= settledAt'  BY <1>6, <1>8, <2>2
    <3> QED BY <1>1, <1>5, <2>2, <3>1, <3>2 DEF PassInv
  <2> QED BY <1>2, <2>1, <2>2
<1> QED BY <1>9, <1>10, <1>11, <1>12

(* Every step keeps the invariant.                                         *)
LEMMA StepWait == WaitInv /\ [Next]_vars => WaitInv'
BY QuietStep, ListStep, TimeoutStep, FatalStep, ObserveStep DEF Next, NodeStep

-----------------------------------------------------------------------------
(* The results.                                                            *)

(* The list of the last poll, the credits of its requests and the settle   *)
(* window are related as WaitInv says in every state of the wait.          *)
THEOREM WaitCorrect == Spec => []WaitInv
BY InitWait, StepWait, PTL DEF Spec

(* A wait passes only when the requests it listed can be given to the      *)
(* groups so that each has its minimum, none is over its maximum and every *)
(* request given away passes the checks on every event, and only after a   *)
(* judgement past the settle window, unless it needs no event and its      *)
(* context is done, by its timeout, a cancelled run or a deadline around   *)
(* the node.                                                               *)
THEOREM PassSafe == Spec => []PassIsJustified
<1>1. WaitInv => PassIsJustified
  <2> SUFFICES ASSUME WaitInv, result.status = "passed", Expecting
               PROVE  /\ \A i \in DOMAIN Groups : Evaluated(i)
                      /\ Feasible(items)
                      /\ IF settledAt = None THEN CtxDone /\ ~requiresAnEvent
                         ELSE judged >= settledAt /\ settledAt >= setup.settle
    BY DEF PassIsJustified
  <2> USE DEF WaitInv
  <2>0. /\ Groups \in GroupList /\ Groups = setup.groups
        /\ DOMAIN items = 1..Len(items) /\ Len(items) \in Nat
    BY ListFacts
  <2>1. /\ pc = "ended" /\ outcomes # <<>> /\ AllPassed
        /\ IF settledAt = None THEN CtxDone /\ ~requiresAnEvent ELSE judged >= settledAt
    BY DEF PassInv
  <2>2. PICK p : Carries(outcomes, p, setup.groups, items)
    BY <2>1 DEF CreditInv, Carries
  <2>3. /\ Assigns(p, Groups, items, Len(items))
        /\ \A i \in DOMAIN Groups : Justified(Groups, items, p[Len(items)][i], i)
    BY <2>0, <2>1, <2>2 DEF Carries, JudgesAs, AllPassed
  <2>4. Feasible(items) /\ \A i \in DOMAIN Groups : Evaluated(i)
    BY <2>0, <2>3, ClaimsAreFeasible
  <2>5. settledAt # None => settledAt >= setup.settle  BY DEF WindowInv
  <2> QED BY <2>1, <2>4, <2>5
<1> QED BY <1>1, WaitCorrect, PTL

(* Every step keeps the requests credited to each group, in their order,   *)
(* though assignRequests assigns the whole list anew.                      *)
THEOREM CreditsSafe == Spec => CreditsAreKept
<1> DEFINE Kept1 == \A i \in DOMAIN outcomes :
                      IsPrefix(outcomes[i].requests, outcomes'[i].requests)
<1>1. WaitInv /\ [Next]_vars => [Kept1]_vars
  <2> SUFFICES ASSUME WaitInv, Next, NEW i \in DOMAIN outcomes
               PROVE  IsPrefix(outcomes[i].requests, outcomes'[i].requests)
    BY DEF Kept1
  <2> USE DEF WaitInv
  <2>0. /\ Groups \in GroupList /\ Groups = setup.groups
        /\ DOMAIN items = 1..Len(items) /\ Len(items) \in Nat
    BY ListFacts
  <2>1. outcomes # <<>>  OBVIOUS
  <2>2. PICK m \in 0..Len(items) : \E p :
          /\ Assigns(p, setup.groups, items, m)
          /\ JudgesAs(outcomes, p, setup.groups, items, m)
    BY <2>1 DEF CreditInv
  <2>3. PICK p : /\ Assigns(p, setup.groups, items, m)
                 /\ JudgesAs(outcomes, p, setup.groups, items, m)
    BY <2>2
  <2>4. /\ i \in DOMAIN Groups /\ outcomes[i].requests = p[m][i] /\ p[m][i] \in Seq(Nat)
        /\ DOMAIN outcomes = DOMAIN Groups
        /\ \A j \in DOMAIN outcomes : DOMAIN outcomes[j] = OutcomeFields
    <3>1. m \in 0..m  OBVIOUS
    <3>2. p[m] \in ClaimsOf(Groups)  BY <2>0, <2>3, <3>1 DEF Assigns
    <3> QED BY <2>0, <2>3, <3>2 DEF JudgesAs, ClaimsOf
  <2>5. CASE outcomes'[i].requests = outcomes[i].requests  BY <2>4, <2>5 DEF IsPrefix
  <2>6. CASE observe
    <3>1. outcomes' = Judge(items, SeenAt)  BY <2>6 DEF observe
    <3> DEFINE out == Judge(items, SeenAt)
    <3>2. PICK q : /\ Assigns(q, Groups, items, Len(items))
                   /\ JudgesAs(out, q, Groups, items, Len(items))
      BY <2>0, JudgeIs
    <3>3. outcomes'[i].requests = q[Len(items)][i]  BY <2>4, <3>1, <3>2 DEF JudgesAs
    <3>4. \A k \in 0..m : p[k] = q[k]
      <4> DEFINE n == Len(items)
                 g == Groups
      <4>1. /\ n \in Nat /\ m \in 0..n
            /\ Assigns(p, g, items, m) /\ Assigns(q, g, items, n)
        BY <2>0, <2>3, <3>2
      <4> HIDE DEF n, g
      <4> QED BY <4>1, AssignmentsAgree
    <3>5. Begins(q[m][i], q[Len(items)][i])  BY <2>0, <2>4, <3>2, ClaimsExtend
    <3>6. q[m] = p[m]  BY <3>4
    <3>7. q[Len(items)][i] \in Seq(Nat)
      <4>1. Len(items) \in 0..Len(items)  BY <2>0
      <4> QED BY <2>4, <3>2, <4>1 DEF Assigns, ClaimsOf
    <3> DEFINE s == p[m][i]
               t == q[Len(items)][i]
    <3>8. s \in Seq(Nat) /\ t \in Seq(Nat) /\ Begins(s, t)  BY <2>4, <3>5, <3>6, <3>7
    <3> HIDE DEF s, t
    <3>9. IsPrefix(s, t)
      <4>1. Len(s) \in Nat /\ Len(t) \in Nat /\ Len(s) <= Len(t)  BY <3>8 DEF Begins
      <4>2. SubSeq(s, 1, Len(s)) = SubSeq(t, 1, Len(s))  BY <3>8, <4>1 DEF Begins
      <4> QED BY <4>1, <4>2 DEF IsPrefix
    <3> QED BY <2>4, <3>3, <3>9 DEF s, t
  <2>7. CASE TimedOut \/ FetchFatal
    <3>1. polledOnce
      <4>1. pc # "ended"  BY <2>7 DEF TimedOut, FetchFatal
      <4> QED BY <2>1, <4>1 DEF WindowInv, ListInv
    <3>2. finalOutcomes = outcomes /\ Expecting  BY <3>1 DEF finalOutcomes, WindowInv
    <3>3. outcomes' = outcomes \/ outcomes' = timedOutOutcomes
      BY <2>7, <3>2, Ending DEF FetchFatal
    <3>4. timedOutOutcomes[i].requests = outcomes[i].requests
      <4>1. CASE settledAt = None  BY <3>2, <4>1 DEF timedOutOutcomes
      <4>2. CASE settledAt # None
        <5>1. timedOutOutcomes[i] =
                IF outcomes[i].passed
                THEN [outcomes[i] EXCEPT !.passed = FALSE, !.problem = "timed out"]
                ELSE outcomes[i]
          BY <3>2, <4>2 DEF timedOutOutcomes
        <5>2. DOMAIN outcomes[i] = OutcomeFields  BY <2>4
        <5> QED BY <5>1, <5>2 DEF OutcomeFields
      <4> QED BY <4>1, <4>2
    <3>5. outcomes'[i].requests = outcomes[i].requests  BY <3>3, <3>4
    <3> QED BY <2>5, <3>5
  <2>8. CASE ~observe /\ ~TimedOut /\ ~FetchFatal
    <3>1. outcomes' = outcomes
      BY <2>8 DEF Next, NodeStep, Execute, Fetch, FetchLists, FetchFails, MatchFirst, Wake,
                  Capture, Tick, Cancel, Ended, vars, listener
    <3> QED BY <2>5, <3>1
  <2> QED BY <2>6, <2>7, <2>8
<1> QED BY <1>1, WaitCorrect, PTL DEF Spec, CreditsAreKept

=============================================================================
