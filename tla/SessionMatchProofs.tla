------------------------- MODULE SessionMatchProofs -------------------------
(***************************************************************************)
(* For any sessions, scores, stages and durations: the loop over stages     *)
(* and candidates finds the best match; and what a scan answers and where a *)
(* watcher turns while the process moves between sessions.                  *)
(***************************************************************************)
EXTENDS SessionMatch, FiniteSetTheorems, SequenceTheorems, Loops

-----------------------------------------------------------------------------
(* The scoring loops.                                                        *)

Matches == [best : Nat, second : Nat, winner : Maybe, tied : BOOLEAN, seen : SUBSET Sessions]

\* look gives some of the sessions their scores.
Looking(look) == DOMAIN look \subseteq Sessions /\ look \in [DOMAIN look -> Nat]

\* What the running maxima say of the transcripts seen so far: the winner has the
\* highest score and was written last of those that have it, second is the highest
\* score of the others, and a tie is noted if one of them equals the winner's.
Ranks(m, look, act) ==
    /\ m \in Matches /\ m.seen \subseteq DOMAIN look
    /\ m.winner = None => m.best = 0 /\ m.second = 0 /\ ~m.tied /\ \A t \in m.seen : look[t] = 0
    /\ m.winner # None =>
          /\ m.winner \in m.seen /\ m.best = look[m.winner] /\ m.best > 0
          /\ \A t \in m.seen : look[t] <= m.best /\ (look[t] = m.best => act[t] <= act[m.winner])
          /\ \A t \in m.seen \ {m.winner} : look[t] <= m.second
          /\ m.second # 0 => \E t \in m.seen \ {m.winner} : look[t] = m.second
          /\ m.tied <=> \E t \in m.seen \ {m.winner} : look[t] = m.best

(* A candidate that was not compared before leaves the maxima right.         *)
LEMMA ConsiderRanks ==
  ASSUME NEW m, NEW look, Looking(look), NEW act \in [Sessions -> Nat],
         Ranks(m, look, act), NEW s \in DOMAIN look \ m.seen
  PROVE  /\ Ranks(Consider(m, s, look[s], act), look, act)
         /\ Consider(m, s, look[s], act).seen = m.seen \cup {s}
<1> DEFINE n == Consider(m, s, look[s], act)
<1>0. /\ m \in Matches /\ look[s] \in Nat /\ None \notin Sessions /\ s # None
      /\ m.best \in Nat /\ m.second \in Nat /\ m.winner \in Maybe /\ m.tied \in BOOLEAN
      /\ s \in Sessions /\ s \in DOMAIN look /\ m.seen \subseteq Sessions /\ m.seen \subseteq DOMAIN look
      /\ \A t \in DOMAIN look : look[t] \in Nat /\ act[t] \in Nat
  BY MatchAssumption DEF Ranks, Matches, Looking
<1>a. n = Consider(m, s, look[s], act)
  OBVIOUS
<1> HIDE DEF n
<1>b. SUFFICES Ranks(n, look, act) /\ n.seen = m.seen \cup {s}
  BY <1>a
<1>1. CASE look[s] > m.best
  <2>1. n = [best |-> look[s], second |-> m.best, winner |-> s, tied |-> FALSE,
             seen |-> m.seen \cup {s}]
    BY <1>0, <1>1, <1>a DEF Consider, Matches
  <2>2. n \in Matches
    BY <1>0, <2>1 DEF Matches, Maybe
  <2>3. \A t \in m.seen : look[t] <= m.best /\ t # s
    BY <1>0 DEF Ranks
  <2>4. m.best # 0 => \E t \in m.seen : look[t] = m.best
    BY <1>0 DEF Ranks
  <2>5. /\ n.winner \in n.seen /\ n.winner # None /\ n.best = look[n.winner] /\ n.best > 0
        /\ \A t \in n.seen : look[t] <= n.best /\ (look[t] = n.best => act[t] <= act[n.winner])
    BY <1>0, <1>1, <2>1, <2>3
  <2>6. \A t \in n.seen \ {n.winner} : look[t] <= n.second /\ look[t] # n.best
    BY <1>0, <1>1, <2>1, <2>3
  <2>7. n.second # 0 => \E t \in n.seen \ {n.winner} : look[t] = n.second
    BY <1>0, <1>1, <2>1, <2>4
  <2>8. ~n.tied /\ n.seen = m.seen \cup {s}
    BY <2>1
  <2> QED
    BY <1>0, <2>2, <2>5, <2>6, <2>7, <2>8 DEF Ranks
<1>2. CASE look[s] = m.best /\ m.winner # None
  <2> DEFINE v == IF act[s] > act[m.winner] THEN s ELSE m.winner
  <2>1. n = [best |-> m.best, second |-> look[s], winner |-> v, tied |-> TRUE, seen |-> m.seen \cup {s}]
    <3>1. n = [[m EXCEPT !.seen = @ \cup {s}] EXCEPT !.tied = TRUE, !.second = look[s],
                 !.winner = IF act[s] > act[m.winner] THEN s ELSE @]
      BY <1>0, <1>2, <1>a DEF Consider
    <3> QED
      BY <1>0, <3>1 DEF Matches
  <2>2. n \in Matches
    BY <1>0, <2>1 DEF Matches, Maybe
  <2>3. /\ m.winner \in m.seen /\ m.best = look[m.winner] /\ m.best > 0
        /\ \A t \in m.seen : look[t] <= m.best /\ (look[t] = m.best => act[t] <= act[m.winner])
    BY <1>2 DEF Ranks
  <2>4. m.winner \in Sessions /\ m.winner # s
    BY <1>0, <2>3
  <2>5. n.winner \in n.seen /\ n.best = look[n.winner] /\ n.best > 0 /\ n.second = n.best
    BY <1>2, <2>1, <2>3
  <2>6. \A t \in n.seen : look[t] <= n.best /\ (look[t] = n.best => act[t] <= act[n.winner])
    BY <1>0, <1>2, <2>1, <2>3, <2>4
  <2>7. \E t \in n.seen \ {n.winner} : look[t] = n.best
    BY <1>2, <2>1, <2>3, <2>4
  <2>8. n.tied /\ n.winner # None /\ n.seen = m.seen \cup {s}
    BY <1>0, <2>1, <2>4
  <2> QED
    BY <1>0, <2>2, <2>5, <2>6, <2>7, <2>8 DEF Ranks
<1>3. CASE look[s] <= m.best /\ ~(look[s] = m.best /\ m.winner # None)
  <2> DEFINE v == IF look[s] > m.second THEN look[s] ELSE m.second
  <2>1. n = [best |-> m.best, second |-> v, winner |-> m.winner, tied |-> m.tied,
             seen |-> m.seen \cup {s}]
    <3>1. n = [[m EXCEPT !.seen = @ \cup {s}] EXCEPT !.second = IF look[s] > @ THEN look[s] ELSE @]
      BY <1>0, <1>3, <1>a DEF Consider
    <3> QED
      BY <1>0, <3>1 DEF Matches
  <2>2. n \in Matches
    BY <1>0, <2>1 DEF Matches
  <2>3. CASE m.winner = None
    <3>1. m.best = 0 /\ m.second = 0 /\ ~m.tied /\ \A t \in m.seen : look[t] = 0
      BY <2>3 DEF Ranks
    <3>2. n.best = 0 /\ n.second = 0 /\ ~n.tied /\ \A t \in n.seen : look[t] = 0
      BY <1>0, <1>3, <2>1, <3>1
    <3> QED
      BY <1>0, <2>1, <2>2, <2>3, <3>2 DEF Ranks
  <2>4. CASE m.winner # None
    <3>1. /\ m.winner \in m.seen /\ m.best = look[m.winner] /\ m.best > 0
          /\ \A t \in m.seen : look[t] <= m.best /\ (look[t] = m.best => act[t] <= act[m.winner])
          /\ \A t \in m.seen \ {m.winner} : look[t] <= m.second
          /\ m.second # 0 => \E t \in m.seen \ {m.winner} : look[t] = m.second
          /\ m.tied <=> \E t \in m.seen \ {m.winner} : look[t] = m.best
      BY <2>4 DEF Ranks
    <3>2. look[s] < m.best
      BY <1>0, <1>3, <2>4
    <3>3. /\ \A t \in n.seen : look[t] <= n.best /\ (look[t] = n.best => act[t] <= act[n.winner])
          /\ \A t \in n.seen \ {n.winner} : look[t] <= n.second
      BY <1>0, <2>1, <3>1, <3>2
    <3>4. n.second # 0 => \E t \in n.seen \ {n.winner} : look[t] = n.second
      BY <1>0, <2>1, <3>1, <3>2
    <3>5. n.tied <=> \E t \in n.seen \ {n.winner} : look[t] = n.best
      BY <1>0, <2>1, <3>1, <3>2
    <3>6. /\ n.winner # None /\ n.winner \in n.seen /\ n.best = look[n.winner] /\ n.best > 0
          /\ n.seen = m.seen \cup {s}
      BY <2>1, <2>4, <3>1
    <3> QED
      BY <1>0, <2>2, <3>3, <3>4, <3>5, <3>6 DEF Ranks
  <2> QED
    BY <2>3, <2>4
<1> QED
  BY <1>0, <1>1, <1>2, <1>3

(* Before any stage nothing was compared.                                    *)
LEMMA NothingRanks ==
  ASSUME NEW look, NEW act
  PROVE  Ranks(Nothing, look, act) /\ Nothing.seen = {}
BY DEF Nothing, Ranks, Matches, Maybe

(* The maxima stay maxima of sessions, whatever is compared.                 *)
LEMMA ConsiderType ==
  ASSUME NEW m \in Matches, NEW s \in Sessions, NEW score \in Nat, NEW act
  PROVE  Consider(m, s, score, act) \in Matches
<1> DEFINE new == [m EXCEPT !.seen = @ \cup {s}]
<1>1. new \in Matches /\ new.best = m.best /\ new.second = m.second /\ new.winner = m.winner
  BY DEF Matches
<1> HIDE DEF new
<1>2. s \in Maybe
  BY DEF Maybe
<1>3. CASE score > m.best
  BY <1>1, <1>2, <1>3 DEF Consider, Matches, new
<1>4. CASE ~(score > m.best) /\ score = m.best /\ m.winner # None
  <2> DEFINE v == IF act[s] > act[m.winner] THEN s ELSE m.winner
  <2>1. v \in Maybe
    BY <1>2 DEF Matches
  <2>2. Consider(m, s, score, act)
          = [new EXCEPT !.tied = TRUE, !.second = score, !.winner = IF act[s] > act[m.winner] THEN s ELSE @]
    BY <1>4 DEF Consider, new
  <2>3. Consider(m, s, score, act) = [new EXCEPT !.tied = TRUE, !.second = score, !.winner = v]
    BY <1>1, <2>2
  <2> HIDE DEF v
  <2> QED
    BY <1>1, <2>1, <2>3 DEF Matches
<1>5. CASE ~(score > m.best) /\ ~(score = m.best /\ m.winner # None)
  <2> DEFINE v == IF score > new.second THEN score ELSE new.second
  <2>1. v \in Nat
    BY <1>1 DEF Matches
  <2>2. Consider(m, s, score, act) = [new EXCEPT !.second = IF score > @ THEN score ELSE @]
    BY <1>5 DEF Consider, new
  <2>3. Consider(m, s, score, act) = [new EXCEPT !.second = v]
    BY <2>2
  <2> HIDE DEF v
  <2> QED
    BY <1>1, <2>1, <2>3 DEF Matches
<1> QED
  BY <1>3, <1>4, <1>5

\* The candidate of the i-th turn of a stage, and whether it is left out then.
Turn(n, cands, i) == IF i <= Least(n, Len(cands)) THEN cands[i] ELSE cands[i - Least(n, Len(cands))]
Skipped(n, cands, forced, i, seen) ==
    Turn(n, cands, i) \in seen \/ (i > Least(n, Len(cands)) /\ Turn(n, cands, i) \notin forced)

Turns(n, cands) == Least(n, Len(cands)) + Len(cands)

\* r[i] is what is known after i turns of a stage.
IsStaged(r, m, n, cands, forced, look, act) ==
    /\ r[0] = m
    /\ \A i \in 1..Turns(n, cands) :
          r[i] = IF Skipped(n, cands, forced, i, r[i - 1].seen) THEN r[i - 1]
                 ELSE Consider(r[i - 1], Turn(n, cands, i), look[Turn(n, cands, i)], act)

(* The turns of a stage, one after the other.                                *)
LEMMA StagedTurns ==
  ASSUME NEW m \in Matches, NEW n \in Nat, NEW look, Looking(look),
         NEW cands \in Seq(DOMAIN look), NEW forced, NEW act
  PROVE  IsStaged(Staged(m, n, cands, forced, look, act), m, n, cands, forced, look, act)
<1> DEFINE upto == Least(n, Len(cands))
           k == Turns(n, cands)
           r == Staged(m, n, cands, forced, look, act)
           turn(i) == Turn(n, cands, i)
           Next1(x, i) == IF Skipped(n, cands, forced, i, x.seen) THEN x
                          ELSE Consider(x, turn(i), look[turn(i)], act)
           G == [i \in 1..k |-> [x \in Matches |-> Next1(x, i)]]
           Is(f) == f = [i \in 0..k |-> IF i = 0 THEN m ELSE Next1(f[i - 1], i)]
<1>1. Len(cands) \in Nat /\ upto \in 0..Len(cands) /\ k = upto + Len(cands) /\ k \in Nat
  BY DEF Least, Turns
<1>2. \A i \in 1..k : turn(i) \in DOMAIN look /\ turn(i) \in Sessions /\ look[turn(i)] \in Nat
  BY <1>1 DEF Turn, Looking
<1>3. G \in [1..k -> [Matches -> Matches]]
  <2>1. ASSUME NEW i \in 1..k, NEW x \in Matches PROVE Next1(x, i) \in Matches
    BY <1>2, ConsiderType
  <2> QED
    BY <2>1
<1>4. PICK f : IsLoop(f, k, Matches, m, G)
  <2> HIDE DEF G, Next1, upto, turn, Is
  <2> QED
    BY <1>1, <1>3, LoopExists
<1>5. Is(f)
  <2>1. ASSUME NEW i \in 1..k PROVE f[i] = Next1(f[i - 1], i)
    <3> HIDE DEF Next1
    <3>1. f[i - 1] \in Matches
      <4>1. i - 1 \in 0..k
        BY <1>1
      <4> QED
        BY <1>4, <4>1 DEF IsLoop
    <3> QED
      BY <1>4, <3>1 DEF IsLoop
  <2> HIDE DEF Next1
  <2> QED
    BY <1>1, <1>4, <2>1 DEF IsLoop
<1>6. r = CHOOSE g : Is(g)
  BY <1>1 DEF Staged, Turn, Skipped, Turns
<1>7. Is(r)
  <2> HIDE DEF Is
  <2> QED
    BY <1>5, <1>6
<1>8. r[0] = m /\ \A i \in 1..k : r[i] = Next1(r[i - 1], i)
  <2> HIDE DEF Next1
  <2> QED
    BY <1>1, <1>7
<1> QED
  BY <1>8 DEF IsStaged

(* A stage compares the foremost candidates and the forced ones that were    *)
(* not compared before, and no other.                                        *)
LEMMA StageRanks ==
  ASSUME NEW m, NEW n \in Nat, NEW look, Looking(look),
         NEW cands \in Seq(DOMAIN look), NEW forced, NEW act \in [Sessions -> Nat],
         Ranks(m, look, act)
  PROVE  /\ Ranks(Stage(m, n, cands, forced, look, act), look, act)
         /\ Stage(m, n, cands, forced, look, act).seen = m.seen \cup Foremost(n, cands, forced)
<1> DEFINE upto == Least(n, Len(cands))
           k == upto + Len(cands)
           r == Staged(m, n, cands, forced, look, act)
           turn(i) == Turn(n, cands, i)
           Kept(i) == {turn(j) : j \in {l \in 1..i : l <= upto \/ turn(l) \in forced}}
           T == {i \in 0..k : Ranks(r[i], look, act) /\ r[i].seen = m.seen \cup Kept(i)}
<1>1. Len(cands) \in Nat /\ upto \in 0..Len(cands)
  BY DEF Least
<1>2. /\ k \in Nat /\ \A i \in 1..k : turn(i) \in DOMAIN look /\ turn(i) \in Sessions
      /\ r[0] = m
      /\ \A i \in 1..k : r[i] = IF Skipped(n, cands, forced, i, r[i - 1].seen) THEN r[i - 1]
                                ELSE Consider(r[i - 1], turn(i), look[turn(i)], act)
  <2>1. m \in Matches
    BY DEF Ranks
  <2>2. IsStaged(r, m, n, cands, forced, look, act)
    BY <2>1, StagedTurns
  <2>3. \A i \in 1..k : turn(i) \in DOMAIN look /\ turn(i) \in Sessions
    <3>1. \A i \in 1..Len(cands) : cands[i] \in DOMAIN look
      OBVIOUS
    <3>2. ASSUME NEW i \in 1..k PROVE turn(i) \in DOMAIN look
      <4>1. CASE i <= upto
        BY <1>1, <3>1, <4>1 DEF Turn
      <4>2. CASE ~(i <= upto)
        <5>1. i - upto \in 1..Len(cands)
          BY <1>1, <4>2
        <5> QED
          BY <3>1, <4>2, <5>1 DEF Turn
      <4> QED
        BY <4>1, <4>2
    <3> HIDE DEF turn
    <3> QED
      BY <3>2 DEF Looking
  <2> QED
    BY <1>1, <2>2, <2>3 DEF IsStaged, Turns
<1> HIDE DEF r, turn
<1>3. 0 \in T
  BY <1>2
<1>4. ASSUME NEW i \in 1..k, i - 1 \in T PROVE i \in T
  <2>1. Ranks(r[i - 1], look, act) /\ r[i - 1].seen = m.seen \cup Kept(i - 1)
    BY <1>4
  <2>2. 1..i = 1..i - 1 \cup {i}
    BY <1>2
  <2>3. CASE Skipped(n, cands, forced, i, r[i - 1].seen)
    <3>1. r[i] = r[i - 1]
      BY <1>2, <2>3
    <3>2. turn(i) \in r[i - 1].seen \/ (i > upto /\ turn(i) \notin forced)
      BY <2>3 DEF Skipped, turn
    <3>3. ~(i <= upto) <=> i > upto
      BY <1>1, <1>2
    <3>4. m.seen \cup Kept(i) = m.seen \cup Kept(i - 1)
      BY <2>1, <2>2, <3>2, <3>3
    <3> HIDE DEF Kept
    <3>5. Ranks(r[i], look, act) /\ r[i].seen = m.seen \cup Kept(i) /\ i \in 0..k
      BY <2>1, <3>1, <3>4, <1>2
    <3> QED
      BY <3>5
  <2>4. CASE ~Skipped(n, cands, forced, i, r[i - 1].seen)
    <3>1. r[i] = Consider(r[i - 1], turn(i), look[turn(i)], act)
      BY <1>2, <2>4
    <3>2. turn(i) \notin r[i - 1].seen /\ ~(i > upto /\ turn(i) \notin forced)
      BY <2>4 DEF Skipped, turn
    <3>3. turn(i) \in DOMAIN look \ r[i - 1].seen
      BY <1>2, <3>2
    <3>4. Ranks(r[i], look, act) /\ r[i].seen = r[i - 1].seen \cup {turn(i)}
      <4> DEFINE x == r[i - 1]
                 s == turn(i)
      <4>1. Ranks(x, look, act) /\ s \in DOMAIN look \ x.seen /\ r[i] = Consider(x, s, look[s], act)
        BY <2>1, <3>1, <3>3
      <4> HIDE DEF x, s
      <4>2. Ranks(r[i], look, act) /\ r[i].seen = x.seen \cup {s}
        BY <4>1, ConsiderRanks
      <4> QED
        BY <4>2 DEF x, s
    <3>5. ~(i > upto) <=> i <= upto
      BY <1>1, <1>2
    <3>6. Kept(i) = Kept(i - 1) \cup {turn(i)}
      BY <2>2, <3>2, <3>5
    <3> HIDE DEF Kept
    <3>7. r[i].seen = m.seen \cup Kept(i)
      BY <2>1, <3>4, <3>6
    <3>8. i \in 0..k
      BY <1>2
    <3> QED
      BY <3>4, <3>7, <3>8
  <2> QED
    BY <2>3, <2>4
<1>5. k \in T
  <2> HIDE DEF T
  <2>1. 0..k \subseteq T
    BY <1>2, <1>3, <1>4, Reaches
  <2> QED
    BY <1>2, <2>1
<1>6. Ranks(r[k], look, act) /\ r[k].seen = m.seen \cup Kept(k)
  BY <1>5
<1>7. Kept(k) = Foremost(n, cands, forced)
  <2>1. \A i \in 1..k : turn(i) = IF i <= upto THEN cands[i] ELSE cands[i - upto]
    BY DEF turn, Turn
  <2>2. Range(cands) = {cands[i] : i \in 1..Len(cands)}
    <3>1. DOMAIN cands = 1..Len(cands)
      OBVIOUS
    <3> QED
      BY <3>1 DEF Range
  <2>3. ASSUME NEW s \in Foremost(n, cands, forced) PROVE s \in Kept(k)
    <3>1. CASE \E i \in 1..upto : s = cands[i]
      BY <1>1, <2>1, <3>1
    <3>2. CASE s \in forced /\ \E i \in 1..Len(cands) : s = cands[i]
      <4>1. PICK i \in 1..Len(cands) : s = cands[i]
        BY <3>2
      <4>2. CASE i <= upto
        <5>1. i \in 1..k /\ turn(i) = s
          BY <1>1, <2>1, <4>1, <4>2
        <5> QED
          BY <4>2, <5>1
      <4>3. CASE ~(i <= upto)
        <5>1. i + upto \in 1..k /\ ~(i + upto <= upto) /\ (i + upto) - upto = i
          BY <1>1, <4>3
        <5>2. turn(i + upto) = s
          BY <2>1, <4>1, <5>1
        <5> QED
          BY <3>2, <5>1, <5>2
      <4> QED
        BY <4>2, <4>3
    <3> QED
      BY <2>2, <2>3, <3>1, <3>2 DEF Foremost
  <2>4. ASSUME NEW s \in Kept(k) PROVE s \in Foremost(n, cands, forced)
    <3>1. PICK i \in 1..k : s = turn(i) /\ (i <= upto \/ turn(i) \in forced)
      BY <2>4
    <3>2. CASE i <= upto
      <4>1. i \in 1..upto /\ s = cands[i]
        BY <1>1, <2>1, <3>1, <3>2
      <4> QED
        BY <4>1 DEF Foremost
    <3>3. CASE ~(i <= upto)
      <4>1. i - upto \in 1..Len(cands)
        BY <1>1, <3>3
      <4>2. s = cands[i - upto] /\ s \in forced
        BY <2>1, <3>1, <3>3
      <4> QED
        BY <2>2, <4>1, <4>2 DEF Foremost
    <3> QED
      BY <3>2, <3>3
  <2> QED
    BY <2>3, <2>4
<1>8. Stage(m, n, cands, forced, look, act) = r[k]
  BY DEF Stage, r
<1> QED
  BY <1>6, <1>7, <1>8

\* The order of the scores and the margin, which grows as the second falls.
(* A margin over a score is a margin over every lower one, and puts it ahead. *)
LEMMA MarginMonotone ==
  ASSUME NEW b \in Nat, NEW c \in Nat, NEW d \in Nat
  PROVE  /\ Margin(b, c, 30) /\ d <= c => Margin(b, d, 30)
         /\ Margin(b, c, 30) => c < b
         /\ b > 0 => Margin(b, 0, 30)
BY DEF Margin

(* The running maxima decide when one transcript is clear of all others.     *)
LEMMA DecidedIsClear ==
  ASSUME NEW m, NEW look, Looking(look), NEW act, Ranks(m, look, act)
  PROVE  Decided(m) <=> Clear(m.seen, look)
<1>0. /\ m.best \in Nat /\ m.second \in Nat /\ m.seen \subseteq DOMAIN look
      /\ \A t \in DOMAIN look : look[t] \in Nat
  BY DEF Ranks, Matches, Looking
<1>1. ASSUME Decided(m) PROVE Clear(m.seen, look)
  <2>1. m.winner # None /\ m.best >= MinScore /\ Margin(m.best, m.second, 30)
    BY <1>1 DEF Decided, MinScore, Ranks
  <2>2. /\ m.winner \in m.seen /\ m.best = look[m.winner]
        /\ \A t \in m.seen \ {m.winner} : look[t] <= m.second
    BY <2>1 DEF Ranks
  <2>3. \A t \in m.seen \ {m.winner} : Margin(look[m.winner], look[t], 30)
    BY <1>0, <2>1, <2>2, MarginMonotone
  <2> QED
    BY <2>1, <2>2, <2>3 DEF Clear
<1>2. ASSUME Clear(m.seen, look) PROVE Decided(m)
  <2>1. PICK s \in m.seen : look[s] >= MinScore /\ \A t \in m.seen \ {s} : Margin(look[s], look[t], 30)
    BY <1>2 DEF Clear
  <2>2. \A t \in m.seen \ {s} : look[t] < look[s]
    BY <1>0, <2>1, MarginMonotone
  <2>3. m.winner # None
    BY <2>1 DEF Ranks, MinScore
  <2>4. /\ m.winner \in m.seen /\ m.best = look[m.winner]
        /\ \A t \in m.seen : look[t] <= m.best
        /\ m.second # 0 => \E t \in m.seen \ {m.winner} : look[t] = m.second
    BY <2>3 DEF Ranks
  <2>5. m.winner = s
    BY <1>0, <2>2, <2>4
  <2>6. Margin(m.best, m.second, 30)
    BY <1>0, <2>1, <2>4, <2>5, MarginMonotone DEF MinScore
  <2> QED
    BY <2>1, <2>4, <2>5, <2>6 DEF Decided
<1> QED
  BY <1>1, <1>2

\* after[i] is what is known after i stages.
IsMatching(after, cands, forced, look, act) ==
    /\ after[0] = Nothing
    /\ \A i \in 1..Len(Stages) :
          after[i] = IF Decided(after[i - 1]) THEN after[i - 1]
                     ELSE Stage(after[i - 1], Stages[i], cands, forced, look, act)

(* The stages, one after the other.                                          *)
LEMMA MatchingStages ==
  ASSUME NEW look, Looking(look), NEW cands \in Seq(DOMAIN look), NEW forced,
         NEW act \in [Sessions -> Nat]
  PROVE  IsMatching(Matching(cands, forced, look, act), cands, forced, look, act)
<1> DEFINE k == Len(Stages)
           X == {m \in Matches : Ranks(m, look, act)}
           r == Matching(cands, forced, look, act)
           Next1(x, i) == IF Decided(x) THEN x ELSE Stage(x, Stages[i], cands, forced, look, act)
           G == [i \in 1..k |-> [x \in X |-> Next1(x, i)]]
           Is(f) == f = [i \in 0..k |-> IF i = 0 THEN Nothing ELSE Next1(f[i - 1], i)]
<1>1. k \in Nat /\ Nothing \in X /\ \A i \in 1..k : Stages[i] \in Nat
  <2>1. Ranks(Nothing, look, act)
    BY NothingRanks
  <2> QED
    BY <2>1, MatchAssumption DEF Ranks
<1>2. G \in [1..k -> [X -> X]]
  <2>1. ASSUME NEW i \in 1..k, NEW x \in X PROVE Next1(x, i) \in X
    <3>1. Ranks(Stage(x, Stages[i], cands, forced, look, act), look, act)
      BY <1>1, StageRanks
    <3> QED
      BY <3>1 DEF Ranks
  <2> QED
    BY <2>1
<1>3. PICK f : IsLoop(f, k, X, Nothing, G)
  <2> HIDE DEF G, Next1, Is, X, k
  <2> QED
    BY <1>1, <1>2, LoopExists
<1>4. Is(f)
  <2>1. ASSUME NEW i \in 1..k PROVE f[i] = Next1(f[i - 1], i)
    <3> HIDE DEF Next1, X
    <3>1. f[i - 1] \in X
      <4>1. i - 1 \in 0..k
        BY <1>1
      <4> QED
        BY <1>3, <4>1 DEF IsLoop
    <3> QED
      BY <1>3, <3>1 DEF IsLoop
  <2> HIDE DEF Next1, X
  <2> QED
    BY <1>1, <1>3, <2>1 DEF IsLoop
<1>5. r = CHOOSE g : Is(g)
  BY DEF Matching
<1>6. Is(r)
  <2> HIDE DEF Is
  <2> QED
    BY <1>4, <1>5
<1>7. r[0] = Nothing /\ \A i \in 1..k : r[i] = Next1(r[i - 1], i)
  <2> HIDE DEF Next1
  <2> QED
    BY <1>1, <1>6
<1> QED
  BY <1>7 DEF IsMatching

(* What is compared with a larger bound includes what is with a smaller one. *)
LEMMA ForemostGrows ==
  ASSUME NEW cands, Len(cands) \in Nat, NEW forced, NEW i \in Nat, NEW j \in Nat, i <= j
  PROVE  Foremost(i, cands, forced) \subseteq Foremost(j, cands, forced)
BY DEF Foremost, Least

(* Only candidates are compared.                                             *)
LEMMA ForemostListed ==
  ASSUME NEW D, NEW cands \in Seq(D), NEW forced, NEW n \in Nat
  PROVE  Foremost(n, cands, forced) \subseteq Range(cands)
<1>1. Len(cands) \in Nat /\ DOMAIN cands = 1..Len(cands)
  OBVIOUS
<1>2. ASSUME NEW i \in 1..Least(n, Len(cands)) PROVE cands[i] \in Range(cands)
  BY <1>1, <1>2 DEF Least, Range
<1> QED
  BY <1>2 DEF Foremost

(* The match rests on the comparison of just the transcripts that are to be  *)
(* compared: those of the first stage that is clear, or of the last.         *)
LEMMA MatchRanks ==
  ASSUME NEW look, Looking(look), NEW cands \in Seq(DOMAIN look), NEW forced,
         NEW act \in [Sessions -> Nat], NEW m, m = ContentMatch(cands, forced, look, act)
  PROVE  Ranks(m, look, act) /\ m.seen = Compared(cands, forced, look) /\ m.seen \subseteq Range(cands)
<1>a. ASSUME NEW x, Ranks(x, look, act), NEW j \in Nat
      PROVE  /\ Ranks(Stage(x, j, cands, forced, look, act), look, act)
             /\ Stage(x, j, cands, forced, look, act).seen = x.seen \cup Foremost(j, cands, forced)
  BY <1>a, StageRanks
<1> DEFINE after == Matching(cands, forced, look, act)
           k == Len(Stages)
           F(i) == Foremost(Stages[i], cands, forced)
           Ends(i, j) == /\ after[i].seen = F(j)
                         /\ \A l \in 1..j - 1 : ~Clear(F(l), look)
                         /\ j = i \/ Decided(after[i])
           T == {i \in 0..k : Ranks(after[i], look, act) /\ (i > 0 => \E j \in 1..i : Ends(i, j))}
<1>1. /\ k \in Nat \ {0} /\ \A i \in 1..k : Stages[i] \in Nat
      /\ \A i, j \in 1..k : i <= j => Stages[i] <= Stages[j]
  <2>1. Stages \in Seq(Nat \ {0}) /\ Stages # <<>> /\ DOMAIN Stages = 1..Len(Stages)
    BY MatchAssumption
  <2>2. k \in Nat \ {0} /\ \A i \in 1..k : Stages[i] \in Nat
    BY <2>1
  <2> QED
    BY <2>1, <2>2, MatchAssumption
<1>2. IsMatching(after, cands, forced, look, act)
  BY MatchingStages
<1> HIDE DEF after, F
<1>3. 0 \in T
  BY <1>1, <1>2, NothingRanks DEF IsMatching
<1>4. ASSUME NEW i \in 1..k, i - 1 \in T PROVE i \in T
  <2>1. Ranks(after[i - 1], look, act)
    BY <1>4
  <2>2. i \in 0..k /\ i > 0 /\ i - 1 \in 0..k /\ Stages[i] \in Nat
    BY <1>1
  <2>3. CASE Decided(after[i - 1])
    <3>1. after[i] = after[i - 1]
      BY <1>2, <2>3 DEF IsMatching
    <3>2. i - 1 # 0
      BY <1>2, <2>3 DEF IsMatching, Decided, Nothing, MinScore
    <3>3. PICK j \in 1..i - 1 : Ends(i - 1, j)
      BY <1>4, <2>2, <3>2
    <3>4. j \in 1..i /\ Ends(i, j)
      BY <2>3, <3>1, <3>3
    <3> HIDE DEF Ends
    <3> QED
      BY <2>1, <2>2, <3>1, <3>4
  <2>4. CASE ~Decided(after[i - 1])
    <3>1. after[i] = Stage(after[i - 1], Stages[i], cands, forced, look, act)
      BY <1>2, <2>4 DEF IsMatching
    <3>2. Ranks(after[i], look, act) /\ after[i].seen = after[i - 1].seen \cup F(i)
      <4>1. Ranks(after[i - 1], look, act) /\ Stages[i] \in Nat
        BY <2>1, <2>2
      <4> HIDE DEF T, Ends, k
      <4>2. /\ Ranks(Stage(after[i - 1], Stages[i], cands, forced, look, act), look, act)
            /\ Stage(after[i - 1], Stages[i], cands, forced, look, act).seen
                  = after[i - 1].seen \cup Foremost(Stages[i], cands, forced)
        BY <1>a, <4>1
      <4> QED
        BY <4>2, <3>1 DEF F
    <3>3. Ends(i, i)
      <4>1. CASE i = 1
        <5>1. after[i - 1].seen = {}
          BY <1>2, <4>1 DEF IsMatching, Nothing
        <5> QED
          BY <3>2, <4>1, <5>1
      <4>2. CASE i # 1
        <5>1. PICK j \in 1..i - 1 : Ends(i - 1, j)
          BY <1>4, <2>2, <4>2
        <5>2. j = i - 1
          BY <2>4, <5>1
        <5>3. after[i - 1].seen = F(i - 1) /\ \A l \in 1..i - 2 : ~Clear(F(l), look)
          BY <5>1, <5>2
        <5>4. ~Clear(F(i - 1), look)
          BY <2>1, <2>4, <5>3, DecidedIsClear
        <5>5. F(i - 1) \subseteq F(i)
          <6>1. i - 1 \in 1..k /\ Stages[i - 1] \in Nat /\ Stages[i - 1] <= Stages[i]
            BY <1>1, <2>2, <4>2
          <6>2. Len(cands) \in Nat
            OBVIOUS
          <6> QED
            BY <2>2, <6>1, <6>2, ForemostGrows DEF F
        <5>6. \A l \in 1..i - 1 : l = i - 1 \/ l \in 1..i - 2
          BY <2>2
        <5> QED
          BY <3>2, <5>3, <5>4, <5>5, <5>6
      <4> QED
        BY <4>1, <4>2
    <3> HIDE DEF Ends
    <3> QED
      BY <2>2, <3>2, <3>3
  <2> QED
    BY <2>3, <2>4
<1>5. k \in T
  <2> HIDE DEF T
  <2>1. 0..k \subseteq T
    BY <1>1, <1>3, <1>4, Reaches
  <2> QED
    BY <1>1, <2>1
<1>6. Ranks(after[k], look, act) /\ m = after[k]
  BY <1>5 DEF ContentMatch, after
<1>7. PICK j \in 1..k : Ends(k, j)
  <2> HIDE DEF Ends
  <2> QED
    BY <1>1, <1>5
<1>8. F(j) = Compared(cands, forced, look)
  <2> DEFINE ends == {i \in DOMAIN Stages : Clear(F(i), look)}
  <2>1. Compared(cands, forced, look) = F(IF ends = {} THEN k ELSE Min(ends))
    BY DEF Compared, F
  <2>2. DOMAIN Stages = 1..k
    BY MatchAssumption
  <2>3. CASE Decided(after[k])
    <3>1. Clear(F(j), look)
      BY <1>6, <1>7, <2>3, DecidedIsClear
    <3>2. j \in ends /\ \A l \in ends : l \in 1..k /\ l \notin 1..j - 1
      BY <1>7, <2>2, <3>1
    <3>3. j \in ends /\ \A l \in ends : j <= l /\ l \in Int
      <4> HIDE DEF ends
      <4> QED
        BY <1>1, <3>2
    <3> HIDE DEF ends
    <3>4. Min(ends) = j
      <4>1. \A x \in ends : (\A y \in ends : x <= y) => x = j
        BY <3>3
      <4> QED
        BY <3>3, <4>1 DEF Min
    <3> QED
      BY <2>1, <3>2, <3>4
  <2>4. CASE ~Decided(after[k])
    <3>1. j = k
      BY <1>7, <2>4
    <3>2. ~Clear(F(k), look)
      BY <1>6, <1>7, <2>4, <3>1, DecidedIsClear
    <3>3. ends = {}
      BY <1>1, <1>7, <2>2, <3>1, <3>2
    <3> QED
      BY <2>1, <3>1, <3>3
  <2> QED
    BY <2>3, <2>4
<1>9. F(j) \subseteq Range(cands)
  <2>1. Stages[j] \in Nat
    BY <1>1
  <2> QED
    BY <2>1, ForemostListed DEF F
<1> QED
  BY <1>6, <1>7, <1>8, <1>9

(* The running maxima pick the best of the transcripts that are to be        *)
(* compared, and nothing just when none of them is good enough.              *)
LEMMA MatchesBest ==
  ASSUME NEW look, Looking(look), NEW cands \in Seq(DOMAIN look), NEW forced,
         NEW act \in [Sessions -> Nat], NEW m, m = ContentMatch(cands, forced, look, act),
         NEW best, best = BestMatches(cands, forced, look, act)
  PROVE  IF best = {} THEN ~Accepted(m) ELSE Accepted(m) /\ m.winner \in best
<1> DEFINE S == Compared(cands, forced, look)
           top == {s \in S : \A t \in S : look[t] <= look[s]}
<1>1. Ranks(m, look, act) /\ m.seen = S
  BY MatchRanks
<1> HIDE DEF S
<1>2. /\ m.best \in Nat /\ m.second \in Nat /\ S \subseteq DOMAIN look /\ S \subseteq Sessions
      /\ \A t \in S : look[t] \in Nat /\ act[t] \in Nat
  BY <1>1 DEF Ranks, Matches, Looking
<1>3. \A s : s \in best <=> /\ s \in top /\ look[s] >= MinScore
                            /\ \A t \in top : act[t] <= act[s]
                            /\ top = {s} => \A t \in S \ {s} : Margin(look[s], look[t], 30)
  BY DEF BestMatches, S
<1>4. ASSUME Accepted(m) PROVE m.winner \in best
  <2>1. m.best >= MinScore /\ (m.tied \/ Margin(m.best, m.second, 30))
    BY <1>4 DEF Accepted
  <2>2. m.winner # None
    BY <1>1, <2>1 DEF Ranks, MinScore
  <2>3. /\ m.winner \in S /\ m.best = look[m.winner]
        /\ \A t \in S : look[t] <= m.best /\ (look[t] = m.best => act[t] <= act[m.winner])
        /\ \A t \in S \ {m.winner} : look[t] <= m.second
        /\ m.tied <=> \E t \in S \ {m.winner} : look[t] = m.best
    BY <1>1, <2>2 DEF Ranks
  <2>4. m.winner \in top /\ \A t \in top : look[t] = m.best
    BY <1>2, <2>3
  <2>5. ASSUME top = {m.winner} PROVE \A t \in S \ {m.winner} : Margin(look[m.winner], look[t], 30)
    <3>1. ~m.tied
      BY <1>2, <2>3, <2>5
    <3> QED
      BY <1>2, <2>1, <2>3, <3>1, MarginMonotone
  <2> QED
    BY <1>3, <2>1, <2>3, <2>4, <2>5
<1>5. ASSUME NEW s \in best PROVE Accepted(m)
  <2>1. /\ s \in S /\ \A t \in S : look[t] <= look[s]
        /\ look[s] >= MinScore
        /\ top = {s} => \A t \in S \ {s} : Margin(look[s], look[t], 30)
    BY <1>3, <1>5
  <2>2. m.winner # None
    BY <1>1, <2>1 DEF Ranks, MinScore
  <2>3. /\ m.winner \in S /\ m.best = look[m.winner]
        /\ \A t \in S : look[t] <= m.best
        /\ m.second # 0 => \E t \in S \ {m.winner} : look[t] = m.second
        /\ m.tied <=> \E t \in S \ {m.winner} : look[t] = m.best
    BY <1>1, <2>2 DEF Ranks
  <2>4. m.best = look[s]
    BY <1>2, <2>1, <2>3
  <2>5. CASE ~m.tied
    <3>1. s = m.winner /\ top = {s}
      BY <1>2, <2>1, <2>3, <2>4, <2>5
    <3>2. Margin(m.best, m.second, 30)
      BY <1>2, <2>1, <2>3, <2>4, <3>1, MarginMonotone DEF MinScore
    <3> QED
      BY <2>1, <2>4, <3>2 DEF Accepted
  <2> QED
    BY <2>1, <2>4, <2>5 DEF Accepted
<1> QED
  BY <1>4, <1>5

(* A list of a set's members lists members of it.                            *)
LEMMA ListsMembers ==
  ASSUME NEW S \in SUBSET Sessions, NEW q \in SetToSeqs(S)
  PROVE  q \in Seq(S) /\ Range(q) \subseteq S
<1>1. Cardinality(S) \in Nat
  BY MatchAssumption, FS_Subset, FS_CardinalityType
<1>2. q \in [1..Cardinality(S) -> S]
  BY DEF SetToSeqs
<1> QED
  BY <1>1, <1>2 DEF Range

(* What the pane may show scores the candidates.                             *)
LEMMA LooksScore ==
  ASSUME NEW S \in SUBSET Sessions, NEW look \in Looks(S)
  PROVE  Looking(look) /\ DOMAIN look = S
BY MatchAssumption DEF Looks, Looking

-----------------------------------------------------------------------------
(* Scans and watchers.                                                       *)

Kept(e)  == IF e.strong THEN StrongTTL ELSE WeakTTL
Fresh(s) == Plausible(s) \/ since = now

\* Every empty poll since the last look has taken its tick.
Waits == /\ watch.late + (IF watch.polled THEN 0 ELSE 1) <= now - watch.refreshed
         /\ SwitchFollowedSoon

\* What a scan has found so far is true of the process, or was until just now.
ScanTrue ==
    /\ scan.pc \in {"list", "store"} => \A s \in scan.forced : Fresh(s)
    /\ scan.pc = "store" =>
          /\ scan.result \in scan.cands \cup {None}
          /\ scan.fallback \in scan.forced \cup {None}
          /\ scan.told /\ scan.result # None => Fresh(scan.result)

\* A cached answer is kept no longer than its kind may be, and one that is not true of
\* the process any more, no longer than that since the process changed.
EntryTrue(e) ==
    /\ now < e.expiry /\ e.expiry <= now + Kept(e)
    /\ e.told /\ e.result # None /\ ~Plausible(e.result) => e.expiry <= since + Kept(e)
CacheTrue == \A k \in DOMAIN cache : EntryTrue(cache[k])

Inv == TypeOK /\ Waits /\ ScanTrue /\ CacheTrue

Scans   == [pc : {"idle", "list", "store", "done"}, forced : SUBSET Sessions,
            cands : SUBSET Sessions, result : Maybe, fallback : Maybe,
            strong : BOOLEAN, told : BOOLEAN]
Watches == [path : Files, read : Never..now, refreshed : 0..now, polled : BOOLEAN, late : Nat]

\* What the assumptions say of the numbers.
(* The durations are positive and time begins within its bound.              *)
LEMMA Durations ==
  /\ StrongTTL \in Nat \ {0} /\ WeakTTL \in Nat \ {0} /\ RefreshEvery \in Nat \ {0}
  /\ WeakTTL < StrongTTL /\ MaxTime \in Nat /\ Start \in Nat /\ Start <= MaxTime /\ Start = 2
  /\ None \notin Sessions /\ StaleAfter \in Nat
BY MatchAssumption DEF Start

(* It begins well.                                                           *)
LEMMA Begins == Init => Inv
<1> SUFFICES ASSUME Init PROVE Inv
  OBVIOUS
<1>1. Blank \in Scans /\ Blank.pc = "idle"
  BY DEF Blank, Scans, Maybe
<1>2. now = 2 /\ since = 2 /\ scan = Blank /\ cache = [k \in {} |-> 0] /\ active \in [Sessions -> {0, 2}]
  BY DEF Init, Start, Never
<1>3. PICK s \in Files : watch = [path |-> s, read |-> active[s], refreshed |-> 0, polled |-> FALSE, late |-> 0]
  BY DEF Init
<1>4. watch \in Watches
  <2>1. active[s] \in 0..2
    BY <1>2 DEF Files
  <2> QED
    BY <1>2, <1>3, <2>1 DEF Watches, Never
<1>5. TypeOK
  <2>1. now \in Start..MaxTime /\ since \in Start..now
    BY <1>2, Durations
  <2>2. /\ provider \in {"claude", "codex", "opencode"} /\ {tmux, maps, alive} \subseteq BOOLEAN
        /\ session \in Sessions /\ fds \subseteq Sessions
    BY DEF Init
  <2>3. active \in [Sessions -> Never..now]
    BY <1>2 DEF Never
  <2>4. DOMAIN cache = {}
    BY <1>2
  <2> QED
    BY <1>1, <1>2, <1>4, <2>1, <2>2, <2>3, <2>4 DEF TypeOK, Scans, Watches
<1>6. Waits
  BY <1>2, <1>3, Durations DEF Waits, SwitchFollowedSoon
<1> QED
  BY <1>1, <1>2, <1>5, <1>6 DEF Inv, ScanTrue, CacheTrue

(* What may be reported is settled by what is not the scanner's or the        *)
(* watcher's.                                                                *)
LEMMA PlausibleKept ==
  ASSUME UNCHANGED <<session, fds, active>>
  PROVE  (\A s : Plausible(s)' = Plausible(s)) /\ ProjectDir' = ProjectDir /\ Files' = Files
BY DEF Plausible, ProjectDir, Files, Exists

(* A step that changes nothing of the process leaves since alone.            *)
LEMMA StillSince ==
  ASSUME Moved, UNCHANGED <<session, fds, active>>
  PROVE  since' = since /\ \A s : Plausible(s)' = Plausible(s)
BY PlausibleKept DEF Moved

(* What was true until just now still is, or was until just now.             *)
LEMMA MovedFresh ==
  ASSUME Moved, now' = now
  PROVE  /\ since' \in {since, now}
         /\ since' = now \/ (since' = since /\ \A s \in Sessions : Plausible(s)' = Plausible(s))
         /\ \A s \in Sessions : Fresh(s) => Fresh(s)'
<1>1. since' = now \/ (since' = since /\ \A s \in Sessions : Plausible(s)' = Plausible(s))
  <2>1. CASE \A s \in Sessions : Plausible(s) = Plausible(s)'
    BY <2>1, Zenon DEF Moved
  <2>2. CASE ~\A s \in Sessions : Plausible(s) = Plausible(s)'
    BY <2>2, Zenon DEF Moved
  <2> QED
    BY <2>1, <2>2
<1>2. ASSUME NEW s \in Sessions, Fresh(s) PROVE Fresh(s)'
  <2>1. CASE since' = now
    BY <2>1 DEF Fresh
  <2>2. CASE since' = since /\ \A t \in Sessions : Plausible(t)' = Plausible(t)
    BY <1>2, <2>2 DEF Fresh
  <2> QED
    BY <1>1, <2>1, <2>2
<1> QED
  BY <1>1, <1>2

(* What a report leaves.                                                     *)
LEMMA ReportIs ==
  ASSUME NEW s \in Maybe, Report(s)
  PROVE  /\ scan' \in Scans /\ scan'.pc = "done" /\ scan'.result = s /\ ~scan'.strong /\ scan'.told
<1>1. scan' = [pc |-> "done", forced |-> {}, cands |-> {}, result |-> s,
               fallback |-> None, strong |-> FALSE, told |-> TRUE]
  BY DEF Report, Blank
<1> QED
  BY <1>1 DEF Scans, Maybe

(* What a computed or cached answer leaves.                                  *)
LEMMA AnswerIs ==
  ASSUME NEW e, e.result \in Maybe, e.strong \in BOOLEAN, e.told \in BOOLEAN,
         NEW f \in Maybe, Answer(e, f)
  PROVE  /\ scan' \in Scans /\ scan'.pc = "done"
         /\ e.result # None => /\ scan'.result = e.result /\ scan'.strong = e.strong
                               /\ scan'.told = e.told
         /\ e.result = None => scan'.result = f /\ scan'.told
<1>1. CASE e.result = None
  <2>1. Report(f)
    BY <1>1 DEF Answer
  <2> QED
    BY <1>1, <2>1, ReportIs
<1>2. CASE e.result # None
  <2>1. scan' = [pc |-> "done", forced |-> {}, cands |-> {}, result |-> e.result,
                 fallback |-> None, strong |-> e.strong, told |-> e.told]
    BY <1>2 DEF Answer, Blank
  <2> QED
    BY <1>2, <2>1 DEF Scans, Maybe
<1> QED
  BY <1>1, <1>2

(* Of some numbers one is least.                                             *)
LEMMA NatHasLeast ==
  ASSUME NEW S \in SUBSET Nat, S # {}
  PROVE  \E i \in S : \A j \in S : i <= j
<1> DEFINE R == OpToRel(<, Nat)
<1>1. IsWellFoundedOn(R, Nat)
  BY NatLessThanWellFounded
<1>2. \A x, y \in Nat : <<y, x>> \in R <=> y < x
  BY DEF OpToRel
<1> HIDE DEF R
<1>3. PICK x \in S : \A y \in S : ~(<<y, x>> \in R)
  BY <1>1, WFMin
<1>4. ASSUME NEW y \in S PROVE x <= y
  <2>1. x \in Nat /\ y \in Nat /\ ~(y < x)
    BY <1>2, <1>3
  <2> QED
    BY <2>1
<1> QED
  BY <1>4

(* The last resort is a forced candidate or nothing.                         *)
LEMMA FallbackIsForced ==
  ASSUME NEW S \in SUBSET Sessions, NEW q \in SetToSeqs(S), NEW forced \in SUBSET Sessions
  PROVE  TaskFallback(q, forced) \in forced \cup {None}
<1> DEFINE open == {i \in DOMAIN q : q[i] \in forced}
<1>1. CASE open = {}
  BY <1>1 DEF TaskFallback
<1>2. CASE open # {}
  <2>1. open \subseteq Nat
    <3>1. DOMAIN q \subseteq Nat
      BY ListsMembers
    <3> QED
      BY <3>1
  <2>2. \E i \in open : \A j \in open : i <= j
    BY <1>2, <2>1, NatHasLeast
  <2>3. Min(open) \in open
    BY <2>2 DEF Min
  <2> QED
    BY <1>2, <2>3 DEF TaskFallback
<1> QED
  BY <1>1, <1>2

(* An order of the candidates lists them.                                    *)
LEMMA OrdersList ==
  ASSUME TypeOK, NEW q \in Orders
  PROVE  q \in SetToSeqs(Candidates) /\ Candidates \in SUBSET Sessions
BY DEF Orders, Sorted, Candidates, ProjectDir, Files

(* Scores are compared with when a candidate was active.                     *)
LEMMA ActivityIsTime ==
  ASSUME TypeOK
  PROVE  Activity \in [Sessions -> Nat] /\ active \in [Sessions -> Nat]
<1>1. now \in Nat /\ active \in [Sessions -> Nat]
  BY Durations DEF TypeOK, Never
<1> QED
  BY <1>1 DEF Activity, LastActivity

(* What a comparison comes to: a candidate or nothing, and, if the pane       *)
(* showed the process's session best, that session or nothing.               *)
LEMMA OutcomeIs ==
  ASSUME TypeOK, NEW q \in Orders, NEW look \in Looks(Candidates), NEW o, o = Outcome(q, look)
  PROVE  /\ o \in Scans /\ o.pc = "store" /\ o.forced = scan.forced
         /\ o.result \in o.cands \cup {None} /\ o.fallback \in o.forced \cup {None}
         /\ o.told /\ o.result # None => o.result = session
<1> DEFINE m == ContentMatch(q, scan.forced, look, Activity)
           res == IF Accepted(m) THEN m.winner ELSE None
<1>1. /\ q \in Seq(Candidates) /\ Range(q) \subseteq Candidates /\ Candidates \in SUBSET Sessions
      /\ Looking(look) /\ DOMAIN look = Candidates
  BY OrdersList, ListsMembers, LooksScore
<1>2. scan \in Scans
  BY DEF TypeOK, Scans
<1>3. Ranks(m, look, Activity) /\ m.seen = Compared(q, scan.forced, look) /\ m.seen \subseteq Range(q)
  BY <1>1, ActivityIsTime, MatchRanks
<1> HIDE DEF m
<1>4. o = [pc |-> "store", forced |-> scan.forced, cands |-> Candidates, result |-> res,
           fallback |-> TaskFallback(q, scan.forced), strong |-> Strong(m), told |-> ShownBest(q, look)]
  BY <1>2 DEF Outcome, m, Scans
<1>5. Accepted(m) => m.winner # None /\ m.winner \in m.seen /\ \A t \in m.seen : look[t] <= look[m.winner]
  BY <1>3 DEF Ranks, Accepted, MinScore
<1>6. m.seen \subseteq Candidates
  BY <1>1, <1>3 DEF Ranks
<1>7. res \in Candidates \cup {None} /\ res \in Maybe
  BY <1>1, <1>5, <1>6 DEF Maybe
<1>8. TaskFallback(q, scan.forced) \in scan.forced \cup {None} /\ TaskFallback(q, scan.forced) \in Maybe
  <2>1. scan.forced \in SUBSET Sessions
    BY <1>2 DEF Scans
  <2> QED
    BY <2>1, OrdersList, FallbackIsForced DEF Maybe
<1>9. ShownBest(q, look) /\ res # None => res = session
  <2> SUFFICES ASSUME ShownBest(q, look), res # None, res # session PROVE FALSE
    OBVIOUS
  <2>1. Accepted(m) /\ res = m.winner /\ m.winner \in m.seen
    BY <1>5
  <2>2. session \in m.seen /\ \A s \in Range(q) \ {session} : look[s] < look[session]
    BY <1>3 DEF ShownBest
  <2>3. look[session] <= look[m.winner] /\ look[session] \in Nat /\ look[m.winner] \in Nat
    BY <1>1, <1>5, <1>6, <2>1, <2>2 DEF Looking
  <2>4. m.winner \in Range(q)
    BY <1>3, <2>1
  <2> QED
    BY <2>1, <2>2, <2>3, <2>4
<1>10. Strong(m) \in BOOLEAN /\ ShownBest(q, look) \in BOOLEAN
  BY DEF Strong, ShownBest
<1> QED
  BY <1>1, <1>2, <1>4, <1>7, <1>8, <1>9, <1>10 DEF Scans

(* Each step of the scanner: what it leaves of the scan, and what it answers.*)
LEMMA ScannerSteps ==
  ASSUME Inv, Scanner
  PROVE  /\ UNCHANGED <<now, env, watch>>
         /\ scan' \in Scans
         /\ scan'.pc \in {"list", "store"} => \A s \in scan'.forced : Fresh(s)
         /\ scan'.pc = "store" =>
               /\ scan'.result \in scan'.cands \cup {None}
               /\ scan'.fallback \in scan'.forced \cup {None}
               /\ scan'.told /\ scan'.result # None => scan'.result = session
         /\ Answers /\ provider = "claude" /\ scan'.told /\ ~Plausible(scan'.result) =>
               now < since + Kept(scan')
<1>0. /\ TypeOK /\ ScanTrue /\ CacheTrue /\ scan \in Scans /\ now \in Nat /\ since \in Nat
      /\ \A e : e.strong \in BOOLEAN => Kept(e) \in Nat \ {0}
  BY Durations DEF Inv, TypeOK, Scans, Kept
<1>1. \A e : \A s \in Sessions : Fresh(s) /\ e.strong \in BOOLEAN /\ ~Plausible(s) => now < since + Kept(e)
  BY <1>0 DEF Fresh
<1>2. CASE Scan
  <2>1. UNCHANGED <<now, env, watch>> /\ scan.pc # "store"
    BY <1>2 DEF Scan
  <2>2. CASE provider # "claude"
    <3>1. PICK s \in Maybe : Report(s)
      BY <1>0, <1>2, <2>2 DEF Scan, OtherProvider, CodexFound, OpenCodeFound, Latest, ProjectDir,
         Files, Maybe
    <3> QED
      BY <2>1, <2>2, <3>1, ReportIs
  <2>3. CASE provider = "claude" /\ FromPIDMap # {}
    <3>1. PICK s \in FromPIDMap : Report(s)
      BY <1>2, <2>3 DEF Scan
    <3>2. s \in Maybe /\ Plausible(s)
      BY <3>1 DEF FromPIDMap, Transcript, Files, Plausible, Maybe
    <3> QED
      BY <2>1, <3>1, <3>2, ReportIs
  <2>4. CASE provider = "claude" /\ FromPIDMap = {} /\ Cardinality(FromTasks) = 1 /\ FromTasks \subseteq Files
    <3>1. PICK s \in FromTasks : Report(s)
      BY <1>2, <2>4 DEF Scan
    <3>2. s \in Maybe /\ Plausible(s)
      BY <1>0, <3>1 DEF FromTasks, TypeOK, Plausible, Maybe
    <3> QED
      BY <2>1, <3>1, <3>2, ReportIs
  <2>5. CASE /\ provider = "claude" /\ FromPIDMap = {}
             /\ ~(Cardinality(FromTasks) = 1 /\ FromTasks \subseteq Files)
    <3>1. scan' = [pc |-> "list", forced |-> fds, cands |-> {}, result |-> None,
                   fallback |-> None, strong |-> FALSE, told |-> TRUE]
      BY <1>2, <2>5 DEF Scan, Blank, FromTasks
    <3>2. scan' \in Scans /\ \A s \in scan'.forced : Fresh(s)
      BY <1>0, <3>1 DEF TypeOK, Scans, Maybe, Fresh, Plausible
    <3> QED
      BY <2>1, <3>1, <3>2 DEF Answers
  <2> QED
    BY <2>2, <2>3, <2>4, <2>5
<1>3. CASE List
  <2>0. UNCHANGED <<now, env, watch>> /\ scan.pc = "list" /\ scan.forced \subseteq Sessions
        /\ Candidates \subseteq Sessions /\ \A s \in scan.forced : Fresh(s)
    BY <1>0, <1>3 DEF List, Scans, ScanTrue, Candidates, ProjectDir, Files
  <2>a. \A q \in Orders : TaskFallback(q, scan.forced) \in scan.forced \cup {None}
    BY <1>0, <2>0, OrdersList, FallbackIsForced
  <2>b. ASSUME NEW s \in scan.forced \cup {None}, Report(s)
        PROVE  /\ scan' \in Scans /\ scan'.pc = "done"
               /\ Answers /\ ~Plausible(scan'.result) => now < since + Kept(scan')
    <3>1. s \in Maybe /\ (s # None => Fresh(s) /\ s \in Sessions)
      BY <2>0, <2>b DEF Maybe
    <3>2. scan' \in Scans /\ scan'.pc = "done" /\ scan'.result = s /\ scan'.strong \in BOOLEAN
      BY <2>b, <3>1, ReportIs DEF Scans
    <3> QED
      BY <1>1, <3>1, <3>2 DEF Answers
  <2>1. CASE Candidates = {}
    <3>1. Report(None)
      BY <1>3, <2>1 DEF List
    <3> QED
      BY <2>0, <2>b, <3>1
  <2>2. CASE Candidates # {} /\ Cardinality(Candidates) = 1
    <3> DEFINE s == CHOOSE s \in Candidates : TRUE
    <3>1. Report(s) /\ s \in Candidates
      BY <1>3, <2>2 DEF List
    <3> HIDE DEF s
    <3>2. Plausible(s)
      <4>1. CASE session \in ProjectDir
        <5>1. session \in Candidates
          BY <4>1 DEF Candidates
        <5>2. IsFiniteSet(Candidates)
          BY <2>0, MatchAssumption, FS_Subset
        <5>3. PICK x : Candidates = {x}
          BY <2>2, <5>2, FS_Singleton
        <5> QED
          BY <3>1, <5>1, <5>3 DEF Plausible
      <4> QED
        BY <4>1 DEF Plausible
    <3>3. s \in Maybe
      BY <2>0, <3>1 DEF Maybe
    <3> QED
      BY <2>0, <3>1, <3>2, <3>3, ReportIs
  <2>3. ASSUME NEW q \in Orders, Report(TaskFallback(q, scan.forced)) PROVE scan' \in Scans /\ scan'.pc = "done"
               /\ (Answers /\ ~Plausible(scan'.result) => now < since + Kept(scan'))
    BY <2>a, <2>b, <2>3
  <2>4. ASSUME NEW q \in Orders, Hit, Answer(cache[Key(Candidates, scan.forced)], TaskFallback(q, scan.forced))
        PROVE  /\ scan' \in Scans /\ scan'.pc = "done"
               /\ Answers /\ scan'.told /\ ~Plausible(scan'.result) => now < since + Kept(scan')
    <3> DEFINE k == Key(Candidates, scan.forced)
               e == cache[k]
               f == TaskFallback(q, scan.forced)
    <3>1. k \in DOMAIN cache /\ k[1] = Candidates
      BY <2>4 DEF Hit, Key
    <3>2. e \in [result : k[1] \cup {None}, expiry : Nat, strong : BOOLEAN, told : BOOLEAN]
      BY <1>0, <3>1 DEF TypeOK
    <3>3. /\ now < e.expiry
          /\ e.told /\ e.result # None /\ ~Plausible(e.result) => e.expiry <= since + Kept(e)
      BY <1>0, <3>1 DEF CacheTrue, EntryTrue
    <3>4. Answer(e, f) /\ f \in scan.forced \cup {None} /\ f \in Maybe
      BY <2>0, <2>4, <2>a DEF Maybe
    <3> HIDE DEF e, f, k
    <3>5. e.result \in Maybe /\ e.strong \in BOOLEAN /\ e.told \in BOOLEAN /\ e.expiry \in Nat
      BY <2>0, <3>1, <3>2 DEF Maybe
    <3>6. CASE e.result = None
      <4>1. Report(f)
        BY <3>4, <3>6 DEF Answer
      <4> QED
        BY <2>b, <3>4, <4>1
    <3>7. CASE e.result # None
      <4>1. /\ scan' \in Scans /\ scan'.pc = "done" /\ scan'.result = e.result
            /\ scan'.strong = e.strong /\ scan'.told = e.told
        BY <3>4, <3>5, <3>7, AnswerIs
      <4>2. Kept(scan') = Kept(e) /\ Kept(e) \in Nat
        BY <1>0, <3>5, <4>1 DEF Kept
      <4> QED
        BY <1>0, <3>3, <3>5, <3>7, <4>1, <4>2
    <3> QED
      BY <3>6, <3>7
  <2>5. ASSUME NEW q \in Orders, NEW look \in Looks(Candidates), scan' = Outcome(q, look)
        PROVE  /\ scan' \in Scans /\ scan'.pc = "store" /\ scan'.forced = scan.forced
               /\ scan'.result \in scan'.cands \cup {None} /\ scan'.fallback \in scan'.forced \cup {None}
               /\ scan'.told /\ scan'.result # None => scan'.result = session
    BY <1>0, <2>5, OutcomeIs
  <2>6. CASE Candidates # {} /\ Cardinality(Candidates) # 1
    <3>1. \/ \E q \in Orders : Report(TaskFallback(q, scan.forced))
          \/ \E q \in Orders : Hit /\ Answer(cache[Key(Candidates, scan.forced)], TaskFallback(q, scan.forced))
          \/ \E q \in Orders, look \in Looks(Candidates) : scan' = Outcome(q, look)
      BY <1>3, <2>6 DEF List
    <3>2. CASE \E q \in Orders : Report(TaskFallback(q, scan.forced))
      BY <2>0, <2>3, <3>2
    <3>3. CASE \E q \in Orders : Hit /\ Answer(cache[Key(Candidates, scan.forced)], TaskFallback(q, scan.forced))
      BY <2>0, <2>4, <3>3
    <3>4. CASE \E q \in Orders, look \in Looks(Candidates) : scan' = Outcome(q, look)
      <4>1. /\ scan' \in Scans /\ scan'.pc = "store" /\ scan'.forced = scan.forced
            /\ scan'.result \in scan'.cands \cup {None} /\ scan'.fallback \in scan'.forced \cup {None}
            /\ scan'.told /\ scan'.result # None => scan'.result = session
        BY <2>5, <3>4
      <4> QED
        BY <2>0, <4>1 DEF Answers
    <3> QED
      BY <3>1, <3>2, <3>3, <3>4
  <2> QED
    BY <2>1, <2>2, <2>6
<1>4. CASE Store
  <2> DEFINE e == Entry(IF scan.strong THEN StrongTTL ELSE WeakTTL)
             f == scan.fallback
  <2>1. UNCHANGED <<now, env, watch>> /\ scan.pc = "store" /\ Answer(e, f)
    BY <1>4 DEF Store
  <2>2. /\ e.result = scan.result /\ e.strong = scan.strong /\ e.told = scan.told
        /\ scan.result \in Maybe /\ scan.strong \in BOOLEAN /\ scan.told \in BOOLEAN /\ f \in Maybe
    BY <1>0 DEF Entry, Scans
  <2>3. /\ \A s \in scan.forced : Fresh(s)
        /\ f # None => Fresh(f)
        /\ scan.told /\ scan.result # None => Fresh(scan.result)
    BY <1>0, <2>1 DEF ScanTrue
  <2> HIDE DEF e, f
  <2>4. /\ scan' \in Scans /\ scan'.pc = "done"
        /\ e.result # None => scan'.result = e.result /\ scan'.told = e.told
        /\ e.result = None => scan'.result = f
    BY <2>1, <2>2, AnswerIs
  <2>5. Answers /\ scan'.told => Fresh(scan'.result) /\ scan'.result \in Sessions
    <3>1. scan'.result # None => scan'.result \in Sessions
      BY <2>4 DEF Scans, Maybe
    <3> QED
      BY <2>2, <2>3, <2>4, <3>1 DEF Answers
  <2> QED
    BY <1>1, <2>1, <2>4, <2>5 DEF Scans
<1> QED
  BY <1>2, <1>3, <1>4 DEF Scanner

(* Each step of the watcher: where it turns, and how long it has waited.     *)
LEMMA WatcherSteps ==
  ASSUME Inv, Watcher
  PROVE  /\ UNCHANGED <<now, env>> /\ Silent
         /\ UNCHANGED cache \/ cache' = [k \in {} |-> 0]
         /\ watch' \in Watches /\ Waits'
         /\ watch'.path # watch.path /\ alive => Plausible(watch'.path)
<1>0. /\ TypeOK /\ Waits /\ watch \in Watches /\ now \in Nat /\ RefreshEvery \in Nat \ {0}
  BY Durations DEF Inv, TypeOK, Watches
<1>1. active[watch.path] \in Never..now
  BY <1>0 DEF TypeOK, Watches, Files
<1>2. /\ watch.late \in Nat /\ watch.refreshed \in 0..now /\ watch.path \in Files
      /\ Never \in Never..now /\ FALSE \in BOOLEAN
  BY <1>0 DEF Watches, Never
<1>a. Polled(watch) = [path |-> watch.path, read |-> active[watch.path], refreshed |-> watch.refreshed,
                       polled |-> TRUE, late |-> watch.late]
  <2>1. Polled(watch) = [watch EXCEPT !.polled = TRUE, !.read = active[watch.path]]
    BY DEF Polled
  <2> QED
    BY <1>0, <2>1 DEF Watches
<1>3. CASE PollReads
  <2>1. UNCHANGED <<now, env, cache>> /\ Silent /\ ~watch.polled
    BY <1>3 DEF PollReads, env
  <2>2. watch' = [path |-> watch.path, read |-> active[watch.path], refreshed |-> watch.refreshed,
                  polled |-> TRUE, late |-> watch.late]
    BY <1>a, <1>3 DEF PollReads
  <2>3. watch' \in Watches
    BY <1>1, <1>2, <2>2 DEF Watches
  <2>4. Waits'
    BY <1>0, <1>2, <2>1, <2>2 DEF Waits, SwitchFollowedSoon
  <2> QED
    BY <2>1, <2>2, <2>3, <2>4
<1>4. CASE PollEmpty
  <2>1. UNCHANGED <<now, env, cache>> /\ Silent /\ ~watch.polled /\ now < watch.refreshed + RefreshEvery
    BY <1>4 DEF PollEmpty, env
  <2>2. PICK l \in {0, watch.late + 1} :
           watch' = [path |-> watch.path, read |-> active[watch.path], refreshed |-> watch.refreshed,
                     polled |-> TRUE, late |-> l]
    <3> DEFINE w == Polled(watch)
    <3>1. watch' = [w EXCEPT !.late = IF Named THEN @ + 1 ELSE 0]
      BY <1>4 DEF PollEmpty
    <3>2. w = [path |-> watch.path, read |-> active[watch.path], refreshed |-> watch.refreshed,
               polled |-> TRUE, late |-> watch.late]
      BY <1>a
    <3> HIDE DEF w
    <3>3. watch' = [path |-> watch.path, read |-> active[watch.path], refreshed |-> watch.refreshed,
                    polled |-> TRUE, late |-> IF Named THEN watch.late + 1 ELSE 0]
      BY <3>1, <3>2
    <3> QED
      BY <3>3
  <2>3. watch' \in Watches
    BY <1>1, <1>2, <2>2 DEF Watches
  <2>4. Waits'
    BY <1>0, <1>2, <2>1, <2>2 DEF Waits, SwitchFollowedSoon
  <2> QED
    BY <2>1, <2>2, <2>3, <2>4
<1>5. CASE Refresh
  <2>1. UNCHANGED <<now, env>> /\ Silent /\ ~watch.polled
    BY <1>5 DEF Refresh, env
  <2> DEFINE stay == [Polled(watch) EXCEPT !.refreshed = now, !.late = IF Named THEN @ + 1 ELSE 0]
  <2> DEFINE l == IF Named THEN watch.late + 1 ELSE 0
  <2>2. stay = [path |-> watch.path, read |-> active[watch.path], refreshed |-> now,
                polled |-> TRUE, late |-> l]
    <3> DEFINE w == Polled(watch)
    <3>1. w = [path |-> watch.path, read |-> active[watch.path], refreshed |-> watch.refreshed,
               polled |-> TRUE, late |-> watch.late]
      BY <1>a
    <3>2. stay = [w EXCEPT !.refreshed = now, !.late = IF Named THEN @ + 1 ELSE 0]
      OBVIOUS
    <3> HIDE DEF w, stay
    <3> QED
      BY <3>1, <3>2
  <2>3. CASE Targets \subseteq {watch.path}
    <3>1. watch' = stay /\ UNCHANGED cache
      BY <1>5, <2>3 DEF Refresh
    <3>2. ~Named
      <4> SUFFICES ASSUME Named PROVE FALSE
        OBVIOUS
      <4>1. PidMap = {session} /\ session # watch.path
        BY DEF Named, PidMap
      <4>2. Targets = PidMap
        BY <4>1 DEF Targets
      <4> QED
        BY <2>3, <4>1, <4>2
    <3>3. watch' = [path |-> watch.path, read |-> active[watch.path], refreshed |-> now,
                    polled |-> TRUE, late |-> 0]
      BY <2>2, <3>1, <3>2
    <3>4. watch' \in Watches
      BY <1>0, <1>1, <1>2, <2>1, <3>3 DEF Watches
    <3>5. Waits'
      BY <1>0, <2>1, <3>3 DEF Waits, SwitchFollowedSoon
    <3>6. watch'.path = watch.path
      BY <3>3
    <3> QED
      BY <2>1, <3>1, <3>4, <3>5, <3>6
  <2>4. CASE ~(Targets \subseteq {watch.path})
    <3>1. PICK s \in Targets \ {watch.path} : SwitchTo(s, stay)
      BY <1>5, <2>4 DEF Refresh
    <3>2. watch' = [path |-> s, read |-> Never, refreshed |-> now, polled |-> TRUE, late |-> 0]
      <4>1. watch' = [stay EXCEPT !.path = s, !.read = Never, !.late = 0]
        BY <3>1 DEF SwitchTo
      <4> HIDE DEF stay
      <4> QED
        BY <2>2, <4>1
    <3>3. UNCHANGED cache \/ cache' = [k \in {} |-> 0]
      BY <3>1 DEF SwitchTo
    <3>4. s \in Files /\ (alive => Plausible(s))
      <4>1. CASE PidMap \ {watch.path} # {}
        BY <3>1, <4>1 DEF Targets, PidMap, ProjectDir, Plausible
      <4>2. CASE PidMap \ {watch.path} = {} /\ s \in OpenTasks \cap ProjectDir
        BY <4>2 DEF OpenTasks, ProjectDir, Plausible
      <4>3. CASE PidMap \ {watch.path} = {} /\ Stale /\ s \in Elected
        <5>1. Elected \subseteq Recent
          BY DEF Elected, PaneMatches, Nearest
        <5> QED
          BY <4>3, <5>1 DEF Recent, ProjectDir, Stale
      <4> QED
        BY <3>1, <4>1, <4>2, <4>3 DEF Targets, Latest
    <3>5. watch' \in Watches
      BY <1>0, <1>2, <2>1, <3>2, <3>4, PlausibleKept DEF Watches, env
    <3>6. Waits'
      BY <1>0, <2>1, <3>2 DEF Waits, SwitchFollowedSoon
    <3> QED
      BY <2>1, <3>2, <3>3, <3>4, <3>5, <3>6
  <2> QED
    BY <2>3, <2>4
<1> QED
  BY <1>3, <1>4, <1>5 DEF Watcher

(* Steps of the environment other than the passing of time.                  *)
LEMMA EnvironmentSteps ==
  ASSUME Inv, Exit \/ \E s \in Sessions : Switch(s) \/ Write(s)
  PROVE  /\ UNCHANGED <<now, provider, tmux, maps, cache, watch>> /\ Silent
         /\ alive' \in BOOLEAN /\ session' \in Sessions /\ fds' \subseteq Sessions
         /\ active' \in [Sessions -> Never..now] /\ Files \subseteq Files'
<1>0. TypeOK /\ now \in Nat /\ now # Never /\ now \in Never..now
  BY Durations DEF Inv, TypeOK, Never
<1>1. CASE Exit
  BY <1>0, <1>1 DEF Exit, TypeOK, Files, Exists
<1>2. CASE \E s \in Sessions : Switch(s)
  <2>1. PICK s \in Sessions : Switch(s)
    BY <1>2
  <2>2. fds' \subseteq fds \cup {s}
    BY <2>1 DEF Switch
  <2> QED
    BY <1>0, <2>1, <2>2 DEF Switch, TypeOK, Files, Exists
<1>3. CASE \E s \in Sessions : Write(s)
  <2>1. PICK s \in Sessions : Write(s)
    BY <1>3
  <2> QED
    BY <1>0, <2>1 DEF Write, TypeOK, Files, Exists
<1> QED
  BY <1>1, <1>2, <1>3

(* The answer of a scan is there for one step.                               *)
LEMMA SilentScan ==
  ASSUME scan \in Scans, Silent
  PROVE  /\ scan' \in Scans /\ scan'.pc # "done" /\ ~Answers
         /\ scan'.pc \in {"list", "store"} => scan' = scan
<1>1. Blank \in Scans /\ Blank.pc = "idle"
  BY DEF Blank, Scans, Maybe
<1> QED
  BY <1>1 DEF Silent, Answers

(* Cached answers stay what they are while time stands still.                *)
LEMMA CacheStill ==
  ASSUME Inv, Moved, now' = now, UNCHANGED cache \/ cache' = [k \in {} |-> 0]
  PROVE  CacheTrue'
<1>1. SUFFICES ASSUME NEW k \in DOMAIN cache', UNCHANGED cache PROVE EntryTrue(cache[k])'
  <2>1. CASE UNCHANGED cache
    BY <2>1 DEF CacheTrue
  <2>2. CASE DOMAIN cache' = {}
    BY <2>2 DEF CacheTrue
  <2> QED
    BY <2>1, <2>2
<1>2. PICK e : e = cache[k]
  OBVIOUS
<1>3. /\ e.result \in Maybe /\ e.strong \in BOOLEAN /\ e.expiry \in Nat /\ EntryTrue(e)
      /\ Kept(e) \in Nat
  BY <1>1, <1>2, Durations DEF Inv, TypeOK, CacheTrue, Maybe, Kept
<1>4. e.result # None => Plausible(e.result)' = Plausible(e.result) \/ since' = now
  BY <1>3, MovedFresh DEF Maybe
<1>5. since' = now \/ since' = since
  BY MovedFresh
<1>6. EntryTrue(e)'
  <2>1. Kept(e)' = Kept(e)
    BY DEF Kept
  <2>2. now' < e.expiry /\ e.expiry <= now' + Kept(e)
    BY <1>3 DEF EntryTrue
  <2>3. ASSUME e.told, e.result # None, ~Plausible(e.result)' PROVE e.expiry <= since' + Kept(e)
    <3>1. CASE since' = now
      BY <2>2, <3>1
    <3>2. CASE since' # now
      BY <1>3, <1>4, <1>5, <2>3, <3>2 DEF EntryTrue
    <3> QED
      BY <3>1, <3>2
  <2> QED
    BY <2>1, <2>2, <2>3 DEF EntryTrue
<1>7. cache'[k] = e
  BY <1>1, <1>2
<1> QED
  BY <1>6, <1>7 DEF EntryTrue, Plausible, Kept

(* An entry made now.                                                        *)
LEMMA StoreCaches ==
  ASSUME Inv, Store, Moved
  PROVE  /\ CacheTrue' /\ DOMAIN cache' \subseteq (SUBSET Sessions) \X (SUBSET Sessions)
         /\ \A k \in DOMAIN cache' :
               cache'[k] \in [result : k[1] \cup {None}, expiry : Nat, strong : BOOLEAN, told : BOOLEAN]
<1> DEFINE e == Entry(IF scan.strong THEN StrongTTL ELSE WeakTTL)
           key == Key(scan.cands, scan.forced)
<1>1. /\ cache' = [k \in DOMAIN cache \cup {key} |-> IF k = key THEN e ELSE cache[k]]
      /\ UNCHANGED <<now, session, fds, active>> /\ scan.pc = "store"
  BY DEF Store, env
<1>2. now' = now /\ since' = since /\ \A s : Plausible(s)' = Plausible(s)
  BY <1>1, StillSince
<1>3. /\ TypeOK /\ CacheTrue /\ ScanTrue /\ scan \in Scans /\ now \in Nat /\ since \in Nat
  BY Durations DEF Inv, TypeOK, Scans
<1>4. /\ e = [result |-> scan.result, expiry |-> now + Kept(e), strong |-> scan.strong, told |-> scan.told]
      /\ Kept(e) \in Nat \ {0}
  BY <1>3, Durations DEF Entry, Kept, Scans
<1>5. /\ key \in (SUBSET Sessions) \X (SUBSET Sessions)
      /\ e \in [result : key[1] \cup {None}, expiry : Nat, strong : BOOLEAN, told : BOOLEAN]
  BY <1>1, <1>3, <1>4 DEF Key, Scans, ScanTrue
<1>6. EntryTrue(e)
  BY <1>1, <1>3, <1>4 DEF EntryTrue, ScanTrue, Fresh
<1> HIDE DEF e, key
<1>7. DOMAIN cache' = DOMAIN cache \cup {key}
  BY <1>1
<1>8. \A k \in DOMAIN cache' : cache'[k] = IF k = key THEN e ELSE cache[k]
  BY <1>1
<1>9. ASSUME NEW k \in DOMAIN cache' PROVE EntryTrue(cache[k])'
  <2>1. PICK x : x = cache'[k]
    OBVIOUS
  <2>2. EntryTrue(x)
    BY <1>3, <1>6, <1>7, <1>8, <2>1 DEF CacheTrue
  <2>3. EntryTrue(x)'
    BY <1>2, <2>2 DEF EntryTrue, Kept
  <2> QED
    BY <2>1, <2>3 DEF EntryTrue, Plausible, Kept
<1>10. ASSUME NEW k \in DOMAIN cache'
       PROVE  cache'[k] \in [result : k[1] \cup {None}, expiry : Nat, strong : BOOLEAN, told : BOOLEAN]
  BY <1>3, <1>5, <1>7, <1>8 DEF TypeOK
<1> QED
  BY <1>3, <1>5, <1>7, <1>9, <1>10 DEF CacheTrue, TypeOK

(* The passing of a tick.                                                    *)
LEMMA TickSteps ==
  ASSUME Inv, Tick, Moved
  PROVE  /\ UNCHANGED env /\ since' = since /\ Silent
         /\ now' \in Start..MaxTime /\ now' = now + 1 /\ scan.pc \in {"idle", "done"}
         /\ Waits' /\ watch' \in [path : Files, read : Never..now', refreshed : 0..now',
                                  polled : BOOLEAN, late : Nat]
         /\ CacheTrue' /\ DOMAIN cache' \subseteq DOMAIN cache
         /\ \A k \in DOMAIN cache' : cache'[k] = cache[k]
<1>1. /\ UNCHANGED env /\ UNCHANGED <<session, fds, active>> /\ Silent /\ now' = now + 1 /\ now < MaxTime
      /\ watch.polled /\ scan.pc \in {"idle", "done"}
      /\ cache' = [k \in {l \in DOMAIN cache : now' < cache[l].expiry} |-> cache[k]]
      /\ watch' = [watch EXCEPT !.polled = FALSE]
  BY DEF Tick, env
<1>2. TypeOK /\ Waits /\ CacheTrue /\ watch \in Watches /\ now \in Start..MaxTime /\ MaxTime \in Nat /\ Start = 2
  BY Durations DEF Inv, TypeOK, Watches
<1>3. since' = since /\ \A s : Plausible(s)' = Plausible(s)
  BY <1>1, StillSince
<1>4. watch' = [path |-> watch.path, read |-> watch.read, refreshed |-> watch.refreshed,
                polled |-> FALSE, late |-> watch.late]
  BY <1>1, <1>2 DEF Watches
<1>5. /\ watch.late \in Nat /\ watch.refreshed \in 0..now /\ watch.path \in Files /\ watch.read \in Never..now
      /\ 0..now \subseteq 0..now' /\ Never = 0
  BY <1>1, <1>2 DEF Watches, Never
<1>6. Waits'
  BY <1>1, <1>2, <1>4, <1>5 DEF Waits, SwitchFollowedSoon
<1>7. watch' \in [path : Files, read : Never..now', refreshed : 0..now', polled : BOOLEAN, late : Nat]
  BY <1>4, <1>5
<1>8. ASSUME NEW k \in DOMAIN cache' PROVE EntryTrue(cache[k])'
  <2>1. PICK x : x = cache'[k]
    OBVIOUS
  <2>2. EntryTrue(x) /\ now' < x.expiry /\ x.expiry \in Nat /\ Kept(x) \in Nat
    BY <1>1, <1>2, <2>1, Durations DEF CacheTrue, TypeOK, Kept
  <2>3. EntryTrue(x)'
    <3>1. Kept(x)' = Kept(x) /\ Plausible(x.result)' = Plausible(x.result)
      BY <1>3 DEF Kept
    <3> QED
      BY <1>1, <1>2, <1>3, <2>2, <3>1 DEF EntryTrue
  <2> QED
    BY <2>1, <2>3 DEF EntryTrue, Plausible, Kept
<1> QED
  BY <1>1, <1>2, <1>3, <1>6, <1>7, <1>8 DEF CacheTrue

(* Every step preserves the invariant.                                       *)
LEMMA StepKeepsInv == Inv /\ [Next]_vars => Inv'
<1> SUFFICES ASSUME Inv, [Next]_vars PROVE Inv'
  OBVIOUS
<1>0. /\ TypeOK /\ ScanTrue /\ scan \in Scans /\ now \in Start..MaxTime /\ since \in Start..now
      /\ MaxTime \in Nat /\ Start = 2
  BY Durations DEF Inv, TypeOK, Scans
<1>1. CASE UNCHANGED vars
  <2>1. TypeOK' /\ Waits'
    BY <1>1 DEF Inv, vars, TypeOK, Waits, SwitchFollowedSoon, Files, Exists
  <2>2. ScanTrue'
    BY <1>1 DEF Inv, vars, ScanTrue, Fresh, Plausible, ProjectDir, Files, Exists
  <2>3. CacheTrue'
    BY <1>1 DEF Inv, vars, CacheTrue, EntryTrue, Kept, Plausible, ProjectDir, Files, Exists
  <2> QED
    BY <2>1, <2>2, <2>3 DEF Inv
<1>2. CASE Moved /\ Tick
  <2>1. TypeOK'
    BY <1>0, <1>2, TickSteps, SilentScan, PlausibleKept DEF TypeOK, env, Scans
  <2>2. ScanTrue'
    <3>1. scan'.pc \notin {"list", "store"}
      BY <1>0, <1>2, TickSteps, SilentScan
    <3> QED
      BY <3>1 DEF ScanTrue
  <2> QED
    BY <1>2, <2>1, <2>2, TickSteps DEF Inv
<1>3. ASSUME Silent, Moved, now' = now PROVE ScanTrue'
  BY <1>0, <1>3, SilentScan, MovedFresh DEF ScanTrue, Scans, Maybe
<1>4. ASSUME Moved, now' = now PROVE since' \in Start..now'
  BY <1>0, <1>4, MovedFresh
<1>5. CASE Moved /\ (Exit \/ \E s \in Sessions : Switch(s) \/ Write(s))
  <2>1. /\ UNCHANGED <<now, provider, tmux, maps, cache, watch>> /\ Silent
        /\ alive' \in BOOLEAN /\ session' \in Sessions /\ fds' \subseteq Sessions
        /\ active' \in [Sessions -> Never..now] /\ Files \subseteq Files'
    BY <1>5, EnvironmentSteps
  <2>2. TypeOK'
    <3>1. watch.path \in Files'
      BY <1>0, <2>1 DEF TypeOK
    <3> QED
      BY <1>0, <1>4, <1>5, <2>1, <3>1, SilentScan DEF TypeOK, Scans
  <2>3. CacheTrue'
    BY <1>5, <2>1, CacheStill
  <2>4. Waits'
    BY <2>1 DEF Inv, Waits, SwitchFollowedSoon
  <2> QED
    BY <1>3, <1>5, <2>1, <2>2, <2>3, <2>4 DEF Inv
<1>6. CASE Moved /\ Watcher
  <2>1. /\ UNCHANGED <<now, env>> /\ Silent
        /\ UNCHANGED cache \/ cache' = [k \in {} |-> 0]
        /\ watch' \in Watches /\ Waits'
    BY <1>6, WatcherSteps
  <2>2. TypeOK'
    <3>1. scan' \in Scans /\ since' \in Start..now'
      BY <1>0, <1>4, <1>6, <2>1, SilentScan
    <3>2. /\ DOMAIN cache' \subseteq DOMAIN cache /\ \A k \in DOMAIN cache' : cache'[k] = cache[k]
      BY <2>1
    <3>3. Files' = Files
      BY <2>1, PlausibleKept DEF env
    <3> QED
      BY <1>0, <2>1, <3>1, <3>2, <3>3 DEF TypeOK, Scans, Watches, env
  <2>3. CacheTrue'
    BY <1>6, <2>1, CacheStill
  <2> QED
    BY <1>3, <1>6, <2>1, <2>2, <2>3 DEF Inv
<1>7. CASE Moved /\ Scanner
  <2>1. /\ UNCHANGED <<now, env, watch>>
        /\ scan' \in Scans
        /\ scan'.pc \in {"list", "store"} => \A s \in scan'.forced : Fresh(s)
        /\ scan'.pc = "store" =>
              /\ scan'.result \in scan'.cands \cup {None}
              /\ scan'.fallback \in scan'.forced \cup {None}
              /\ scan'.told /\ scan'.result # None => scan'.result = session
    BY <1>7, ScannerSteps
  <2>2. since' = since /\ (\A s : Plausible(s)' = Plausible(s)) /\ Files' = Files
    BY <1>7, <2>1, StillSince, PlausibleKept DEF env
  <2>3. ScanTrue'
    <3>1. \A s : Fresh(s)' = Fresh(s)
      BY <2>1, <2>2 DEF Fresh
    <3>2. Fresh(session)
      BY DEF Fresh, Plausible
    <3>3. session' = session
      BY <2>1 DEF env
    <3>4. Fresh(session)'
      BY <3>3 DEF Fresh, Plausible
    <3>5. scan'.told /\ scan'.result # None /\ scan'.pc = "store" => Fresh(scan.result)'
      BY <2>1, <3>3, <3>4 DEF Fresh, Plausible
    <3> QED
      BY <2>1, <3>1, <3>5 DEF ScanTrue
  <2>4. /\ CacheTrue' /\ DOMAIN cache' \subseteq (SUBSET Sessions) \X (SUBSET Sessions)
        /\ \A k \in DOMAIN cache' :
              cache'[k] \in [result : k[1] \cup {None}, expiry : Nat, strong : BOOLEAN, told : BOOLEAN]
    <3>1. CASE Store
      BY <1>7, <3>1, StoreCaches
    <3>2. CASE Scan \/ List
      <4>1. UNCHANGED cache
        BY <3>2 DEF Scan, List
      <4> QED
        BY <1>0, <1>7, <2>1, <4>1, CacheStill DEF TypeOK
    <3> QED
      BY <1>7, <3>1, <3>2 DEF Scanner
  <2>5. TypeOK'
    BY <1>0, <2>1, <2>2, <2>4 DEF TypeOK, Scans, env
  <2>6. Waits'
    BY <2>1 DEF Inv, Waits, SwitchFollowedSoon
  <2> QED
    BY <2>3, <2>4, <2>5, <2>6 DEF Inv
<1> QED
  BY <1>1, <1>2, <1>5, <1>6, <1>7 DEF Next

(* The invariant holds of every reachable state.                             *)
LEMMA Invariant == Spec => []Inv
<1>1. Init => Inv
  BY Begins
<1>2. Inv /\ [Next]_vars => Inv'
  BY StepKeepsInv
<1> QED
  BY <1>1, <1>2, PTL DEF Spec

(* The variables are what they are declared to be; content_match.go,         *)
(* watcher/claude.go.                                                        *)
THEOREM TypeCorrect == Spec => []TypeOK
<1>1. Inv => TypeOK
  BY DEF Inv
<1> QED
  BY <1>1, Invariant, PTL

(* contentMatchSessionByPaneText: whatever transcripts a first scan lists, in *)
(* whatever order, and whatever the pane shows, what the stages and the      *)
(* running maxima arrive at is the best of the transcripts to be compared,   *)
(* and nothing just when none of them is good enough.                        *)
THEOREM TheMatchIsTheBest == Spec => []MatchIsBest
<1>1. TypeOK => MatchIsBest
  <2> SUFFICES ASSUME TypeOK, NEW S \in SUBSET Sessions, NEW q \in SetToSeqs(S), NEW look \in Looks(S)
               PROVE  LET best == BestMatches(q, scan.forced, look, active)
                          m    == ContentMatch(q, scan.forced, look, active)
                      IN IF best = {} THEN ~Accepted(m) ELSE Accepted(m) /\ m.winner \in best
    BY DEF MatchIsBest
  <2>1. Looking(look) /\ q \in Seq(DOMAIN look) /\ active \in [Sessions -> Nat]
    BY ListsMembers, LooksScore, ActivityIsTime
  <2> QED
    BY <2>1, MatchesBest
<1> QED
  BY <1>1, TypeCorrect, PTL

(* A watcher of a Claude process that has moved to another session turns to  *)
(* it within refreshSessionFile's interval of empty polls.                   *)
THEOREM SwitchIsFollowedSoon == Spec => []SwitchFollowedSoon
<1>1. Inv => SwitchFollowedSoon
  BY DEF Inv, Waits
<1> QED
  BY <1>1, Invariant, PTL

(* refreshSessionFile: the watcher of a process that lives turns to no       *)
(* session that is not the process's.                                        *)
THEOREM NoWatcherSteals == Spec => WatcherNeverSteals
<1>1. Inv /\ [Next]_vars => [watch'.path # watch.path /\ alive => Plausible(watch'.path)]_vars
  <2> SUFFICES ASSUME Inv, Next, watch'.path # watch.path, alive PROVE Plausible(watch'.path)
    OBVIOUS
  <2>1. CASE Watcher
    BY <2>1, WatcherSteps
  <2>2. CASE Scanner
    BY <2>2, ScannerSteps
  <2>3. CASE Exit \/ \E s \in Sessions : Switch(s) \/ Write(s)
    BY <2>3, EnvironmentSteps
  <2>4. CASE Tick
    <3>1. watch' = [watch EXCEPT !.polled = FALSE] /\ watch \in Watches
      BY <2>4 DEF Tick, Inv, TypeOK, Watches
    <3> QED
      BY <3>1 DEF Watches
  <2> QED
    BY <2>1, <2>2, <2>3, <2>4 DEF Next
<1> QED
  BY <1>1, Invariant, PTL DEF Spec, WatcherNeverSteals

(* findClaudeSessionInfo: once a Claude process has moved on, no scan whose  *)
(* pane showed its session best names what it left for longer than an answer *)
(* of that strength may be cached.                                           *)
THEOREM AnswersStayFresh == Spec => AnswersAreFresh
<1>1. Inv /\ [Next]_vars =>
        [Answers /\ provider = "claude" /\ scan'.told /\ ~Plausible(scan'.result) =>
            now < since + (IF scan'.strong THEN StrongTTL ELSE WeakTTL)]_vars
  <2> SUFFICES ASSUME Inv, Next, Answers, provider = "claude", scan'.told, ~Plausible(scan'.result)
               PROVE  now < since + (IF scan'.strong THEN StrongTTL ELSE WeakTTL)
    OBVIOUS
  <2>1. CASE Scanner
    BY <2>1, ScannerSteps DEF Kept
  <2>2. CASE ~Scanner
    <3>1. Silent
      BY <2>2, WatcherSteps, EnvironmentSteps DEF Next, Tick
    <3>2. scan \in Scans
      BY DEF Inv, TypeOK, Scans
    <3> QED
      BY <3>1, <3>2, SilentScan
  <2> QED
    BY <2>1, <2>2
<1> QED
  BY <1>1, Invariant, PTL DEF Spec, AnswersAreFresh
=============================================================================
