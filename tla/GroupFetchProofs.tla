-------------------------- MODULE GroupFetchProofs --------------------------
(***************************************************************************)
(* GroupFetch keeps its promise where claims of a queue never overlap, for *)
(* any jobs, groups, limit and batch size.                                 *)
(***************************************************************************)
EXTENDS GroupFetch, FiniteSetTheorems, TLAPS

Counted == \A c \in Claimer, g \in Group :
             step[c] # "idle" => Cardinality(ActiveIn(g)) <= counts[c][g]

OneAtATime == \A c, d \in Claimer : step[c] # "idle" /\ step[d] # "idle" => c = d

\* What a claim counted can only have gone down since, as nobody else claims.
SerialInv == TypeOK /\ OneAtATime /\ Counted /\ GroupCap

-----------------------------------------------------------------------------
\* A set of jobs is finite, and no larger than a set that holds it.
LEMMA JobsAreFinite ==
  ASSUME NEW S \in SUBSET JobId
  PROVE  /\ IsFiniteSet(S) /\ Cardinality(S) \in Nat
         /\ \A T \in SUBSET S : Cardinality(T) <= Cardinality(S)
<1>1. IsFiniteSet(S)
  BY GroupAssumption, FS_Subset
<1>2. Cardinality(S) \in Nat
  BY <1>1, FS_CardinalityType
<1>3. \A T \in SUBSET S : Cardinality(T) <= Cardinality(S)
  BY <1>1, FS_Subset
<1> QED
  BY <1>1, <1>2, <1>3

\* The jobs a claim may add to a group are told apart by their rank, so a claim
\* that adds any adds no more than the places that were free when it counted.
LEMMA GrantsFit ==
  ASSUME TypeOK, NEW c \in Claimer, NEW g \in Group,
         NEW k \in GroupFiltered(c), GroupOf[k] = g
  PROVE  counts[c][g] + Cardinality({j \in GroupFiltered(c) : GroupOf[j] = g})
           <= GroupConcurrency
<1> DEFINE S == {j \in GroupFiltered(c) : GroupOf[j] = g}
           Upto(j) == {i \in locked[c] : GroupOf[i] = GroupOf[j] /\ IdRank[i] <= IdRank[j]}
           n == counts[c][g]
           f == [j \in S |-> GroupRank(c, j)]
<1>1. /\ locked[c] \in SUBSET JobId /\ n \in Nat /\ GroupConcurrency \in Nat
      /\ S \subseteq locked[c]
  BY GroupAssumption DEF TypeOK, GroupFiltered
<1>2. \A j \in S : GroupRank(c, j) = Cardinality(Upto(j))
  BY DEF GroupRank
<1>3. \A j \in S : n + GroupRank(c, j) <= GroupConcurrency
  BY DEF GroupFiltered
<1>0. \A h \in JobId : IdRank[h] \in Int /\ IdRank[h] <= IdRank[h]
  <2>1. IdRank \in [JobId -> Nat]
    BY GroupAssumption
  <2> QED
    BY <2>1
<1>4. \A j \in S : Upto(j) \in SUBSET JobId /\ j \in Upto(j)
  BY <1>0, <1>1
<1> HIDE DEF S, Upto, n
<1>5. \A j \in S : GroupRank(c, j) \in Nat /\ GroupRank(c, j) >= 1
  <2> SUFFICES ASSUME NEW j \in S PROVE GroupRank(c, j) \in Nat /\ GroupRank(c, j) >= 1
    OBVIOUS
  <2>1. IsFiniteSet(Upto(j)) /\ Cardinality(Upto(j)) \in Nat
    BY <1>4, JobsAreFinite
  <2>2. Cardinality(Upto(j)) # 0
    BY <2>1, <1>4, FS_EmptySet
  <2> QED
    BY <1>2, <2>1, <2>2
<1>6. f \in [S -> 1..(GroupConcurrency - n)]
  <2>1. \A j \in S : GroupRank(c, j) \in 1..(GroupConcurrency - n)
    BY <1>1, <1>3, <1>5
  <2> QED
    BY <2>1
<1>7. ASSUME NEW i \in S, NEW j \in S, IdRank[i] < IdRank[j]
      PROVE  f[i] # f[j]
  <2>1. i \in locked[c] /\ j \in locked[c] /\ GroupOf[i] = g /\ GroupOf[j] = g
    BY <1>1 DEF S
  <2>2. \A h \in locked[c] : IdRank[h] \in Int
    BY <1>0, <1>1
  <2>3. Upto(i) \in SUBSET Upto(j)
    BY <1>7, <2>1, <2>2 DEF Upto
  <2>4. j \notin Upto(i)
    BY <1>7, <2>1, <2>2 DEF Upto
  <2>5. IsFiniteSet(Upto(j))
    BY <1>4, JobsAreFinite
  <2>6. Upto(i) # Upto(j)
    BY <2>4, <1>4
  <2>7. Cardinality(Upto(i)) # Cardinality(Upto(j))
    BY <2>3, <2>5, <2>6, FS_Subset
  <2> QED
    BY <2>7, <1>2
<1>8. f \in Injection(S, 1..(GroupConcurrency - n))
  <2>1. ASSUME NEW i \in S, NEW j \in S, i # j PROVE f[i] # f[j]
    <3>1. i \in JobId /\ j \in JobId
      BY <1>1
    <3>2. IdRank[i] \in Int /\ IdRank[j] \in Int /\ IdRank[i] # IdRank[j]
      BY <1>0, <3>1, <2>1, GroupAssumption
    <3>3. CASE IdRank[i] < IdRank[j]
      BY <3>3, <1>7
    <3>4. CASE IdRank[j] < IdRank[i]
      BY <3>4, <1>7
    <3> QED
      BY <3>2, <3>3, <3>4
  <2> HIDE DEF f
  <2> QED
    BY <1>6, <2>1 DEF Injection, IsInjective
<1>9. k \in S
  BY DEF S
<1>10. n + 1 <= GroupConcurrency
  BY <1>1, <1>3, <1>5, <1>9
<1>11. /\ IsFiniteSet(1..(GroupConcurrency - n))
       /\ Cardinality(1..(GroupConcurrency - n)) = GroupConcurrency - n
  <2>1. GroupConcurrency - n \in Int /\ ~(1 > GroupConcurrency - n)
    BY <1>1, <1>10
  <2>2. (GroupConcurrency - n) - 1 + 1 = GroupConcurrency - n
    BY <2>1
  <2> QED
    BY <2>1, <2>2, FS_Interval
<1>12. Cardinality(S) <= GroupConcurrency - n
  BY <1>8, <1>11, FS_Injection
<1>13. Cardinality(S) \in Nat
  BY <1>1, JobsAreFinite
<1> QED
  BY <1>1, <1>12, <1>13 DEF S, n

\* Every step keeps the types.
LEMMA TypesKept == TypeOK /\ [Next]_vars => TypeOK'
<1> SUFFICES ASSUME TypeOK, [Next]_vars PROVE TypeOK'
  OBVIOUS
<1> USE DEF TypeOK
<1>1. ASSUME NEW c \in Claimer, Count(c) PROVE TypeOK'
  <2>1. \A g \in Group : Cardinality(ActiveIn(g)) \in Nat
    BY JobsAreFinite DEF ActiveIn
  <2> QED
    BY <1>1, <2>1 DEF Count
<1>2. ASSUME NEW c \in Claimer, LockNext(c) PROVE TypeOK'
  BY <1>2 DEF LockNext, NextJobs, Candidates
<1>3. ASSUME NEW c \in Claimer, Claim(c) \/ Rollback(c) PROVE TypeOK'
  <2>1. /\ step' \in [Claimer -> {"idle", "counted", "locked"}]
        /\ counts' \in [Claimer -> [Group -> Nat]]
        /\ seen' \in [Claimer -> SUBSET JobId]
        /\ locked' \in [Claimer -> SUBSET JobId]
    <3>1. Release(c)
      BY <1>3 DEF Claim, Rollback
    <3>2. step' \in [Claimer -> {"idle", "counted", "locked"}]
      BY <3>1 DEF Release
    <3>3. counts' \in [Claimer -> [Group -> Nat]]
      <4>1. [g \in Group |-> 0] \in [Group -> Nat]
        OBVIOUS
      <4> QED
        BY <3>1, <4>1 DEF Release
    <3>4. seen' \in [Claimer -> SUBSET JobId]
      BY <3>1 DEF Release
    <3>5. locked' \in [Claimer -> SUBSET JobId]
      BY <3>1 DEF Release
    <3> QED
      BY <3>2, <3>3, <3>4, <3>5
  <2>2. CASE Claim(c)
    <3>1. state' \in [JobId -> {"absent", "queued", "active", "finished"}]
      BY <2>2 DEF Claim
    <3>2. tries' \in [JobId -> Nat]
      BY <2>2 DEF Claim
    <3> QED
      BY <2>1, <3>1, <3>2
  <2>3. CASE Rollback(c)
    BY <2>1, <2>3 DEF Rollback
  <2> QED
    BY <1>3, <2>2, <2>3
<1>4. ASSUME NEW j \in JobId, Send(j) \/ Settle(j) \/ Withdraw(j) \/ Return(j) PROVE TypeOK'
  BY <1>4 DEF Send, Settle, Withdraw, Return, claim
<1>5. CASE UNCHANGED vars
  BY <1>5 DEF vars
<1> QED
  BY <1>1, <1>2, <1>3, <1>4, <1>5 DEF Next

\* The variables of a claim keep their types: what it saw and locked are jobs, what
\* it counted are numbers, which the ranking adds up.
THEOREM GroupTypeCorrect == Spec => []TypeOK
<1>1. Init => TypeOK
  BY DEF Init, TypeOK
<1> QED
  BY <1>1, TypesKept, PTL DEF Spec

\* A step other than Claim makes no job active.
LEMMA OnlyClaimsActivate ==
  ASSUME TypeOK, [Next]_vars, ~ \E c \in Claimer : Claim(c), NEW g \in Group
  PROVE  Cardinality(ActiveIn(g)') <= Cardinality(ActiveIn(g))
<1>1. ActiveIn(g)' \subseteq ActiveIn(g)
  BY DEF Next, TypeOK, Count, LockNext, Rollback, Send, Settle, Withdraw, Return,
         vars, ActiveIn
<1> QED
  BY <1>1, JobsAreFinite DEF ActiveIn

\* Where claims never overlap, every step keeps SerialInv.
LEMMA SerialInvKept ==
  ASSUME SerialClaims
  PROVE  SerialInv /\ [Next]_vars => SerialInv'
<1> SUFFICES ASSUME SerialInv, [Next]_vars PROVE SerialInv'
  OBVIOUS
<1>1. TypeOK /\ TypeOK'
  BY TypesKept DEF SerialInv
<1>2. \A g \in Group : Cardinality(ActiveIn(g)) \in Nat /\ Cardinality(ActiveIn(g)') \in Nat
  BY <1>1, JobsAreFinite DEF ActiveIn
<1>3. GroupConcurrency \in Nat
  BY GroupAssumption
<1>4. \A c \in Claimer, g \in Group : counts[c][g] \in Nat
  BY <1>1 DEF TypeOK
<1>5. ASSUME NEW c \in Claimer, Count(c) PROVE SerialInv'
  <2>1. \A d \in Claimer : step[d] = "idle"
    BY <1>5, SerialClaims DEF Count
  <2>2. step' = [step EXCEPT ![c] = "counted"]
        /\ counts' = [counts EXCEPT ![c] = [g \in Group |-> Cardinality(ActiveIn(g))]]
        /\ state' = state
    BY <1>5 DEF Count
  <2>3. OneAtATime'
    BY <1>1, <2>1, <2>2 DEF OneAtATime, TypeOK
  <2>4. \A g \in Group : ActiveIn(g)' = ActiveIn(g)
    BY <2>2 DEF ActiveIn
  <2>5. Counted'
    BY <1>1, <1>2, <2>1, <2>2, <2>4 DEF Counted, TypeOK
  <2> QED
    BY <1>1, <2>3, <2>4, <2>5 DEF SerialInv, GroupCap
<1>6. ASSUME NEW c \in Claimer, Claim(c) PROVE SerialInv'
  <2>1. /\ step[c] = "locked" /\ step' = [step EXCEPT ![c] = "idle"]
        /\ state' = [j \in JobId |-> IF j \in GroupFiltered(c) THEN "active" ELSE state[j]]
    BY <1>6 DEF Claim, Release
  <2>2. \A d \in Claimer : step'[d] = "idle"
    BY <1>1, <2>1 DEF SerialInv, OneAtATime, TypeOK
  <2>3. ASSUME NEW g \in Group
        PROVE  Cardinality(ActiveIn(g)') <= GroupConcurrency
    <3> DEFINE new == {j \in GroupFiltered(c) : GroupOf[j] = g}
    <3>1. new \in SUBSET JobId
      BY <1>1 DEF GroupFiltered, TypeOK
    <3>2. ActiveIn(g)' \subseteq ActiveIn(g) \cup new
      BY <2>1 DEF ActiveIn
    <3>3. Cardinality(ActiveIn(g)) <= counts[c][g] /\ Cardinality(ActiveIn(g)) <= GroupConcurrency
      BY <2>1, <2>3 DEF SerialInv, Counted, GroupCap
    <3>4. CASE new = {}
      <4>1. ActiveIn(g)' \in SUBSET ActiveIn(g) /\ ActiveIn(g) \in SUBSET JobId
        BY <3>2, <3>4 DEF ActiveIn
      <4>2. Cardinality(ActiveIn(g)') <= Cardinality(ActiveIn(g))
        BY <4>1, JobsAreFinite
      <4> QED
        BY <4>2, <3>3, <1>2, <1>3
    <3>5. CASE new # {}
      <4>1. counts[c][g] + Cardinality(new) <= GroupConcurrency
        BY <1>1, <3>5, GrantsFit
      <4>2. /\ IsFiniteSet(ActiveIn(g)) /\ IsFiniteSet(new)
            /\ ActiveIn(g) \cup new \in SUBSET JobId
            /\ Cardinality(new) \in Nat /\ Cardinality(ActiveIn(g) \cap new) \in Nat
        BY <3>1, JobsAreFinite DEF ActiveIn
      <4>3. Cardinality(ActiveIn(g) \cup new)
              = Cardinality(ActiveIn(g)) + Cardinality(new) - Cardinality(ActiveIn(g) \cap new)
        BY <4>2, FS_Union
      <4>4. Cardinality(ActiveIn(g)') <= Cardinality(ActiveIn(g) \cup new)
        BY <3>2, <4>2, JobsAreFinite
      <4>5. counts[c][g] \in Nat
        BY <1>4
      <4> QED
        BY <4>1, <4>2, <4>3, <4>4, <4>5, <3>3, <1>2, <1>3
    <3> QED
      BY <3>4, <3>5
  <2> QED
    BY <1>1, <2>2, <2>3 DEF SerialInv, OneAtATime, Counted, GroupCap
<1>7. ASSUME ~ \E c \in Claimer : Count(c) \/ Claim(c) PROVE SerialInv'
  <2>1. \A g \in Group : Cardinality(ActiveIn(g)') <= Cardinality(ActiveIn(g))
    BY <1>1, <1>7, OnlyClaimsActivate
  <2>2. \A c \in Claimer : step'[c] # "idle" => step[c] # "idle" /\ counts'[c] = counts[c]
    BY <1>1, <1>7 DEF Next, LockNext, Rollback, Release, Send, Settle, Withdraw,
                      Return, claim, vars, TypeOK
  <2>3. OneAtATime'
    BY <2>2 DEF SerialInv, OneAtATime
  <2>4. Counted'
    BY <1>2, <1>4, <2>1, <2>2 DEF SerialInv, Counted
  <2>5. GroupCap'
    BY <1>2, <1>3, <2>1 DEF SerialInv, GroupCap
  <2> QED
    BY <1>1, <2>3, <2>4, <2>5 DEF SerialInv
<1> QED
  BY <1>5, <1>6, <1>7

\* If claims of a queue never overlap, at most group_concurrency jobs of a group
\* are active at once, whatever dies, returns or is sent in between.
THEOREM SerialClaimsKeepCap ==
  ASSUME SerialClaims
  PROVE  Spec => []GroupCap
<1>1. Init => SerialInv
  <2>1. ASSUME Init, NEW g \in Group PROVE Cardinality(ActiveIn(g)) <= GroupConcurrency
    BY <2>1, FS_EmptySet, GroupAssumption DEF Init, ActiveIn
  <2> QED
    BY <2>1 DEF Init, SerialInv, TypeOK, OneAtATime, Counted, GroupCap
<1>2. SerialInv /\ [Next]_vars => SerialInv'
  BY SerialInvKept
<1>3. SerialInv => GroupCap
  BY DEF SerialInv
<1> QED
  BY <1>1, <1>2, <1>3, PTL DEF Spec

-----------------------------------------------------------------------------
(* Claims that overlap. *)

\* Each claimer by itself keeps to the limit: the group never has more active jobs
\* than all of them together may have given it.
OverrunBounded ==
  \A g \in Group : Cardinality(ActiveIn(g)) <= Cardinality(Claimer) * GroupConcurrency

\* Every active job was granted by some claimer; what one has granted of a group is
\* within the limit, and while its claim is under way, within what it has counted.
Granted(owned) ==
  /\ \A j \in JobId : state[j] = "active" => \E c \in Claimer : j \in owned[c]
  /\ \A c \in Claimer, g \in Group :
       /\ Cardinality(ActiveIn(g) \cap owned[c]) <= GroupConcurrency
       /\ step[c] # "idle" => Cardinality(ActiveIn(g) \cap owned[c]) <= counts[c][g]

OverrunInv == TypeOK /\ \E owned \in [Claimer -> SUBSET JobId] : Granted(owned)

\* The position of the jobs of a set in the order of their ids tells them apart, and
\* is no more than the size of the set.
LEMMA PositionsDiffer ==
  ASSUME NEW S \in SUBSET JobId
  PROVE  LET Upto(j) == {i \in S : IdRank[i] <= IdRank[j]}
         IN  /\ \A j \in S : Cardinality(Upto(j)) \in 1 .. Cardinality(S)
             /\ \A i, j \in S : Cardinality(Upto(i)) = Cardinality(Upto(j)) => i = j
<1> DEFINE Upto(j) == {i \in S : IdRank[i] <= IdRank[j]}
<1>1. \A j \in S : j \in JobId /\ IdRank[j] \in Int /\ IdRank[j] <= IdRank[j]
  <2>1. IdRank \in [JobId -> Nat]
    BY GroupAssumption
  <2> QED
    BY <2>1
<1>2. \A j \in S : Upto(j) \in SUBSET S /\ j \in Upto(j)
  BY <1>1
<1>3. \A i, j \in S : IdRank[i] < IdRank[j] => Upto(i) \in SUBSET Upto(j) /\ j \notin Upto(i)
  BY <1>1
<1> HIDE DEF Upto
<1>4. \A j \in S : /\ IsFiniteSet(Upto(j)) /\ Cardinality(Upto(j)) \in Nat
                   /\ Cardinality(Upto(j)) # 0 /\ Cardinality(Upto(j)) <= Cardinality(S)
  <2> SUFFICES ASSUME NEW j \in S
               PROVE  /\ IsFiniteSet(Upto(j)) /\ Cardinality(Upto(j)) \in Nat
                      /\ Cardinality(Upto(j)) # 0 /\ Cardinality(Upto(j)) <= Cardinality(S)
    OBVIOUS
  <2>1. Upto(j) \in SUBSET JobId
    BY <1>2
  <2>2. IsFiniteSet(Upto(j)) /\ Cardinality(Upto(j)) \in Nat
    BY <2>1, JobsAreFinite
  <2>3. Cardinality(Upto(j)) # 0
    BY <1>2, <2>2, FS_EmptySet
  <2>4. Cardinality(Upto(j)) <= Cardinality(S)
    BY <1>2, JobsAreFinite
  <2> QED
    BY <2>2, <2>3, <2>4
<1>5. Cardinality(S) \in Nat
  BY JobsAreFinite
<1>6. \A j \in S : Cardinality(Upto(j)) \in 1 .. Cardinality(S)
  BY <1>4, <1>5
<1>7. ASSUME NEW i \in S, NEW j \in S, IdRank[i] < IdRank[j]
      PROVE  Cardinality(Upto(i)) # Cardinality(Upto(j))
  <2>1. Upto(i) \in SUBSET Upto(j) /\ Upto(i) # Upto(j)
    BY <1>2, <1>3, <1>7
  <2> QED
    BY <1>4, <2>1, FS_Subset
<1>8. ASSUME NEW i \in S, NEW j \in S, i # j
      PROVE  Cardinality(Upto(i)) # Cardinality(Upto(j))
  <2>1. IdRank[i] # IdRank[j]
    BY <1>1, <1>8, GroupAssumption
  <2>2. CASE IdRank[i] < IdRank[j]
    BY <1>7, <2>2
  <2>3. CASE IdRank[j] < IdRank[i]
    BY <1>7, <2>3
  <2> QED
    BY <1>1, <2>1, <2>2, <2>3
<1> QED
  BY <1>6, <1>8 DEF Upto

\* A claim grants what it may: with what it had granted before, no more than the limit.
LEMMA ClaimGrants ==
  ASSUME TypeOK, TypeOK', NEW owned \in [Claimer -> SUBSET JobId], Granted(owned),
         NEW c \in Claimer, Claim(c)
  PROVE  \E o \in [Claimer -> SUBSET JobId] : Granted(o)'
<1> DEFINE new == GroupFiltered(c)
<1>1. /\ step[c] = "locked" /\ step' = [step EXCEPT ![c] = "idle"]
      /\ state' = [j \in JobId |-> IF j \in new THEN "active" ELSE state[j]]
      /\ counts' = [counts EXCEPT ![c] = [g \in Group |-> 0]]
  BY DEF Claim, Release
<1>2. new \in SUBSET JobId
  BY DEF GroupFiltered, TypeOK
<1>3. GroupConcurrency \in Nat /\ \A g \in Group : counts[c][g] \in Nat
  BY GroupAssumption DEF TypeOK
<1>4. ASSUME NEW g \in Group
      PROVE  Cardinality(ActiveIn(g)' \cap (owned[c] \cup new)) <= GroupConcurrency
  <2> DEFINE mine == ActiveIn(g) \cap owned[c]
             added == {j \in new : GroupOf[j] = g}
             all == ActiveIn(g)' \cap (owned[c] \cup new)
  <2>1. mine \in SUBSET JobId /\ added \in SUBSET JobId /\ mine \cup added \in SUBSET JobId
    BY <1>2 DEF ActiveIn
  <2>2. Cardinality(mine) <= counts[c][g] /\ Cardinality(mine) <= GroupConcurrency
    BY <1>1 DEF Granted
  <2>3. all \in SUBSET (mine \cup added)
    BY <1>1 DEF ActiveIn
  <2> HIDE DEF mine, added, all
  <2>4. Cardinality(all) <= Cardinality(mine \cup added) /\ Cardinality(all) \in Nat
    <3>1. all \in SUBSET JobId
      BY <2>1, <2>3
    <3> QED
      BY <2>1, <2>3, <3>1, JobsAreFinite
  <2>5. CASE added = {}
    <3>1. mine \cup added = mine
      BY <2>5
    <3>2. Cardinality(mine) \in Nat
      BY <2>1, JobsAreFinite
    <3>3. Cardinality(all) <= Cardinality(mine)
      BY <2>4, <3>1
    <3>4. Cardinality(all) <= GroupConcurrency
      BY <1>3, <2>2, <2>4, <3>2, <3>3
    <3> QED
      BY <3>4 DEF all
  <2>6. CASE added # {}
    <3>1. counts[c][g] + Cardinality(added) <= GroupConcurrency
      <4>1. PICK k \in new : GroupOf[k] = g
        BY <2>6 DEF added
      <4> QED
        BY <4>1, GrantsFit DEF added
    <3>2. /\ IsFiniteSet(mine) /\ IsFiniteSet(added)
          /\ Cardinality(mine) \in Nat /\ Cardinality(added) \in Nat
      BY <2>1, JobsAreFinite
    <3>3. mine \cap added \in SUBSET JobId
      BY <2>1
    <3>4. Cardinality(mine \cap added) \in Nat
      BY <3>3, JobsAreFinite
    <3>5. Cardinality(mine \cup added)
            = Cardinality(mine) + Cardinality(added) - Cardinality(mine \cap added)
      BY <3>2, FS_Union
    <3>6. Cardinality(all) <= GroupConcurrency
      BY <1>3, <2>2, <2>4, <3>1, <3>2, <3>4, <3>5
    <3> QED
      BY <3>6 DEF all
  <2> QED
    BY <2>5, <2>6
<1>5. ASSUME NEW d \in Claimer, d # c, NEW g \in Group
      PROVE  Cardinality(ActiveIn(g)' \cap (owned[d] \ new)) <= Cardinality(ActiveIn(g) \cap owned[d])
  <2>1. ActiveIn(g)' \cap (owned[d] \ new) \in SUBSET (ActiveIn(g) \cap owned[d])
    BY <1>1 DEF ActiveIn
  <2>2. ActiveIn(g) \cap owned[d] \in SUBSET JobId
    BY DEF ActiveIn
  <2> QED
    BY <2>1, <2>2, JobsAreFinite
<1>6. PICK o \in [Claimer -> SUBSET JobId] :
        o = [d \in Claimer |-> IF d = c THEN owned[c] \cup new ELSE owned[d] \ new]
  BY <1>2
<1>7. \A j \in JobId : state'[j] = "active" => \E d \in Claimer : j \in o[d]
  <2> SUFFICES ASSUME NEW j \in JobId, state'[j] = "active" PROVE \E d \in Claimer : j \in o[d]
    OBVIOUS
  <2>1. CASE j \in new
    BY <1>6, <2>1
  <2>2. CASE j \notin new
    <3>1. state[j] = "active"
      BY <1>1, <2>2
    <3>2. PICK d \in Claimer : j \in owned[d]
      BY <3>1 DEF Granted
    <3> QED
      BY <1>6, <2>2, <3>2
  <2> QED
    BY <2>1, <2>2
<1>8. ASSUME NEW d \in Claimer, NEW g \in Group
      PROVE  /\ Cardinality(ActiveIn(g)' \cap o[d]) <= GroupConcurrency
             /\ step'[d] # "idle" => Cardinality(ActiveIn(g)' \cap o[d]) <= counts'[d][g]
  <2>1. CASE d = c
    <3>1. o[d] = owned[c] \cup new /\ step'[d] = "idle"
      BY <1>1, <1>6, <2>1 DEF TypeOK
    <3> QED
      BY <1>4, <3>1
  <2>2. CASE d # c
    <3>1. o[d] = owned[d] \ new /\ step'[d] = step[d] /\ counts'[d] = counts[d]
      BY <1>1, <1>6, <2>2 DEF TypeOK
    <3>2. Cardinality(ActiveIn(g)' \cap o[d]) <= Cardinality(ActiveIn(g) \cap owned[d])
      BY <1>5, <2>2, <3>1
    <3>3. /\ Cardinality(ActiveIn(g) \cap owned[d]) <= GroupConcurrency
          /\ step[d] # "idle" => Cardinality(ActiveIn(g) \cap owned[d]) <= counts[d][g]
      BY DEF Granted
    <3>4. /\ Cardinality(ActiveIn(g)' \cap o[d]) \in Nat
          /\ Cardinality(ActiveIn(g) \cap owned[d]) \in Nat /\ counts[d][g] \in Nat
      <4>1. ActiveIn(g)' \cap o[d] \in SUBSET JobId /\ ActiveIn(g) \cap owned[d] \in SUBSET JobId
        OBVIOUS
      <4> QED
        BY <4>1, JobsAreFinite DEF TypeOK
    <3> QED
      BY <1>3, <3>1, <3>2, <3>3, <3>4
  <2> QED
    BY <2>1, <2>2
<1>9. Granted(o)'
  BY <1>7, <1>8 DEF Granted
<1> QED
  BY <1>6, <1>9

\* A snapshot counts at least what the claimer itself has granted of a group.
LEMMA CountCoversGrants ==
  ASSUME TypeOK, NEW owned \in [Claimer -> SUBSET JobId], Granted(owned),
         NEW c \in Claimer, Count(c)
  PROVE  Granted(owned)'
<1>1. /\ step' = [step EXCEPT ![c] = "counted"] /\ state' = state
      /\ counts' = [counts EXCEPT ![c] = [g \in Group |-> Cardinality(ActiveIn(g))]]
  BY DEF Count
<1>2. \A g \in Group : ActiveIn(g)' = ActiveIn(g)
  BY <1>1 DEF ActiveIn
<1>3. ASSUME NEW d \in Claimer, NEW g \in Group
      PROVE  /\ Cardinality(ActiveIn(g)' \cap owned[d]) <= GroupConcurrency
             /\ step'[d] # "idle" => Cardinality(ActiveIn(g)' \cap owned[d]) <= counts'[d][g]
  <2>1. CASE d = c
    <3>1. counts'[d][g] = Cardinality(ActiveIn(g))
      BY <1>1, <2>1 DEF TypeOK
    <3>2. ActiveIn(g) \cap owned[d] \in SUBSET ActiveIn(g) /\ ActiveIn(g) \in SUBSET JobId
      BY DEF ActiveIn
    <3>3. Cardinality(ActiveIn(g) \cap owned[d]) <= Cardinality(ActiveIn(g))
      BY <3>2, JobsAreFinite
    <3> QED
      BY <1>2, <3>1, <3>3 DEF Granted
  <2>2. CASE d # c
    <3>1. step'[d] = step[d] /\ counts'[d] = counts[d]
      BY <1>1, <2>2 DEF TypeOK
    <3> QED
      BY <1>2, <3>1 DEF Granted
  <2> QED
    BY <2>1, <2>2
<1> QED
  BY <1>1, <1>3 DEF Granted

\* Every other step makes no job active, and begins no claim.
LEMMA OtherStepsKeepGrants ==
  ASSUME TypeOK, [Next]_vars, ~ \E c \in Claimer : Count(c) \/ Claim(c),
         NEW owned \in [Claimer -> SUBSET JobId], Granted(owned)
  PROVE  Granted(owned)'
<1>1. \A j \in JobId : state'[j] = "active" => state[j] = "active"
  BY DEF Next, TypeOK, LockNext, Rollback, Send, Settle, Withdraw, Return, vars
<1>2. \A c \in Claimer : step'[c] # "idle" => step[c] # "idle" /\ counts'[c] = counts[c]
  BY DEF Next, LockNext, Rollback, Release, Send, Settle, Withdraw, Return, claim, vars, TypeOK
<1>3. ASSUME NEW d \in Claimer, NEW g \in Group
      PROVE  /\ Cardinality(ActiveIn(g)' \cap owned[d]) <= GroupConcurrency
             /\ step'[d] # "idle" => Cardinality(ActiveIn(g)' \cap owned[d]) <= counts'[d][g]
  <2> DEFINE before == ActiveIn(g) \cap owned[d]
             after == ActiveIn(g)' \cap owned[d]
  <2>1. after \in SUBSET before /\ before \in SUBSET JobId
    BY <1>1 DEF ActiveIn
  <2>2. Cardinality(before) <= GroupConcurrency
        /\ (step[d] # "idle" => Cardinality(before) <= counts[d][g])
    BY DEF Granted
  <2> HIDE DEF before, after
  <2>3. /\ Cardinality(after) <= Cardinality(before)
        /\ Cardinality(after) \in Nat /\ Cardinality(before) \in Nat
    <3>1. after \in SUBSET JobId
      BY <2>1
    <3> QED
      BY <2>1, <3>1, JobsAreFinite
  <2>4. GroupConcurrency \in Nat /\ counts[d][g] \in Nat
    BY GroupAssumption DEF TypeOK
  <2>5. /\ Cardinality(after) <= GroupConcurrency
        /\ step'[d] # "idle" => Cardinality(after) <= counts'[d][g]
    BY <1>2, <2>2, <2>3, <2>4
  <2> QED
    BY <2>5 DEF after
<1> QED
  BY <1>1, <1>3 DEF Granted

LEMMA OverrunInvKept == OverrunInv /\ [Next]_vars => OverrunInv'
<1> SUFFICES ASSUME OverrunInv, [Next]_vars PROVE OverrunInv'
  OBVIOUS
<1>1. TypeOK /\ TypeOK'
  BY TypesKept DEF OverrunInv
<1>2. PICK owned \in [Claimer -> SUBSET JobId] : Granted(owned)
  BY DEF OverrunInv
<1>3. ASSUME NEW c \in Claimer, Claim(c) PROVE \E o \in [Claimer -> SUBSET JobId] : Granted(o)'
  BY <1>1, <1>2, <1>3, ClaimGrants
<1>4. ASSUME NEW c \in Claimer, Count(c) PROVE Granted(owned)'
  BY <1>1, <1>2, <1>4, CountCoversGrants
<1>5. ASSUME ~ \E c \in Claimer : Count(c) \/ Claim(c) PROVE Granted(owned)'
  BY <1>1, <1>2, <1>5, OtherStepsKeepGrants
<1> QED
  BY <1>1, <1>2, <1>3, <1>4, <1>5 DEF OverrunInv

\* A set of jobs of which each claimer has granted at most n has at most n for each
\* of them: a job is told apart by who granted it, and its position among those.
LEMMA SharesAddUp ==
  ASSUME IsFiniteSet(Claimer), NEW A \in SUBSET JobId, NEW owned \in [Claimer -> SUBSET JobId],
         NEW n \in Nat, \A j \in A : \E c \in Claimer : j \in owned[c],
         \A c \in Claimer : Cardinality(A \cap owned[c]) <= n
  PROVE  Cardinality(A) <= Cardinality(Claimer) * n
<1> DEFINE owner(j) == CHOOSE c \in Claimer : j \in owned[c]
           Upto(c, j) == {i \in A \cap owned[c] : IdRank[i] <= IdRank[j]}
           f == [j \in A |-> <<owner(j), Cardinality(Upto(owner(j), j))>>]
<1>1. \A j \in A : owner(j) \in Claimer /\ j \in A \cap owned[owner(j)]
  OBVIOUS
<1> HIDE DEF owner
<1>2. ASSUME NEW c \in Claimer
      PROVE  /\ \A j \in A \cap owned[c] : Cardinality(Upto(c, j)) \in 1 .. n
             /\ \A i, j \in A \cap owned[c] : Cardinality(Upto(c, i)) = Cardinality(Upto(c, j)) => i = j
  <2> DEFINE S == A \cap owned[c]
  <2>1. S \in SUBSET JobId
    OBVIOUS
  <2>2. Cardinality(S) \in Nat /\ Cardinality(S) <= n
    BY <2>1, JobsAreFinite
  <2> HIDE DEF S
  <2>3. LET U(j) == {i \in S : IdRank[i] <= IdRank[j]}
        IN  /\ \A j \in S : Cardinality(U(j)) \in 1 .. Cardinality(S)
            /\ \A i, j \in S : Cardinality(U(i)) = Cardinality(U(j)) => i = j
    BY <2>1, PositionsDiffer
  <2>4. \A k \in 1 .. Cardinality(S) : k \in 1 .. n
    BY <2>2
  <2>5. \A j \in S : Upto(c, j) = {i \in S : IdRank[i] <= IdRank[j]}
    BY DEF S
  <2> HIDE DEF Upto
  <2>6. /\ \A j \in S : Cardinality(Upto(c, j)) \in 1 .. n
        /\ \A i, j \in S : Cardinality(Upto(c, i)) = Cardinality(Upto(c, j)) => i = j
    BY <2>3, <2>4, <2>5
  <2> QED
    BY <2>6 DEF S
<1> HIDE DEF Upto
<1>3. f \in [A -> Claimer \X (1 .. n)]
  BY <1>1, <1>2
<1>4. \A i, j \in A : f[i] = f[j] => i = j
  <2> SUFFICES ASSUME NEW i \in A, NEW j \in A, f[i] = f[j] PROVE i = j
    OBVIOUS
  <2>1. owner(i) = owner(j)
        /\ Cardinality(Upto(owner(i), i)) = Cardinality(Upto(owner(j), j))
    OBVIOUS
  <2> QED
    BY <1>1, <1>2, <2>1
<1> HIDE DEF f
<1>5. f \in Injection(A, Claimer \X (1 .. n))
  BY <1>3, <1>4 DEF Injection, IsInjective
<1>6. IsFiniteSet(1 .. n) /\ Cardinality(1 .. n) = n
  BY FS_Interval
<1>7. /\ IsFiniteSet(Claimer \X (1 .. n))
      /\ Cardinality(Claimer \X (1 .. n)) = Cardinality(Claimer) * n
  BY <1>6, FS_Product
<1> QED
  BY <1>5, <1>7, FS_Injection

\* Where claims do overlap, group_concurrency bounds what each worker and each caller
\* of fetch() can contribute: a group may run over its limit, but never has more
\* active jobs than the limit times the number of claimers.
THEOREM OverlapsBounded ==
  ASSUME IsFiniteSet(Claimer)
  PROVE  Spec => []OverrunBounded
<1>1. Init => OverrunInv
  <2> SUFFICES ASSUME Init PROVE OverrunInv
    OBVIOUS
  <2> DEFINE none == [c \in Claimer |-> {}]
  <2>1. TypeOK /\ none \in [Claimer -> SUBSET JobId]
    BY DEF Init, TypeOK
  <2>2. \A c \in Claimer, g \in Group : Cardinality(ActiveIn(g) \cap none[c]) = 0
    BY FS_EmptySet
  <2>3. Granted(none)
    BY <2>2, GroupAssumption DEF Init, Granted
  <2> QED
    BY <2>1, <2>3 DEF OverrunInv
<1>2. OverrunInv => OverrunBounded
  <2> SUFFICES ASSUME OverrunInv, NEW g \in Group
               PROVE  Cardinality(ActiveIn(g)) <= Cardinality(Claimer) * GroupConcurrency
    BY DEF OverrunBounded
  <2>1. PICK owned \in [Claimer -> SUBSET JobId] : Granted(owned)
    BY DEF OverrunInv
  <2>2. ActiveIn(g) \in SUBSET JobId /\ GroupConcurrency \in Nat
    BY GroupAssumption DEF ActiveIn
  <2>3. \A j \in ActiveIn(g) : \E c \in Claimer : j \in owned[c]
    BY <2>1 DEF Granted, ActiveIn
  <2>4. \A c \in Claimer : Cardinality(ActiveIn(g) \cap owned[c]) <= GroupConcurrency
    BY <2>1 DEF Granted
  <2> QED
    BY <2>2, <2>3, <2>4, SharesAddUp
<1> QED
  BY <1>1, <1>2, OverrunInvKept, PTL DEF Spec
=============================================================================
