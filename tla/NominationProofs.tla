-------------------------- MODULE NominationProofs --------------------------
(***************************************************************************)
(* The safety of nomination, for every set of nodes, quorum sets, values,  *)
(* leaders and numbers of crashes: an inductive invariant, the proof that  *)
(* a level of processEnvelope and every step of Next preserve it, and the  *)
(* properties that it implies.                                             *)
(*                                                                         *)
(* The invariant relates what a node votes for and accepts (votes,         *)
(* accepted) to the last statement that it processed itself (latest[n][n]) *)
(* and to the last one that it persisted and sent (last): each extends the *)
(* next, and all are the same between two handlers.  What the others know  *)
(* of a node is part of last, which a crash does not undo.                 *)
(***************************************************************************)
EXTENDS Nomination, TLAPS

(* The statement s says nothing that t does not say.                       *)
Within(s, t) == s.votes \subseteq t.votes /\ s.accepted \subseteq t.accepted

(* A node made every statement from the one before.                        *)
Growing ==
    \A n \in Node :
        /\ accepted[n] \subseteq votes[n]
        /\ last[n].accepted \subseteq last[n].votes
        /\ Within(last[n], latest[n][n])
        /\ Within(latest[n][n], ownStatement(n))
        /\ own[n] => started[n] /\ latest[n][n] # ownStatement(n)
        /\ ~own[n] => latest[n][n] = ownStatement(n) /\ last[n] = ownStatement(n)

(* What was sent, and what others recorded of it, is in the last statement. *)
Heard ==
    \A m \in Node :
        /\ \A s \in sent[m] : Within(s, last[m])
        /\ \A n \in Node \ {m} : Within(latest[n][m], last[m])

(* Candidates that were not handed over are known to some open level.      *)
HandedOver ==
    \A n \in Node :
        /\ newCandidates[n] => own[n]
        /\ ~newCandidates[n] => composite[n] = candidates[n]

(* A candidate is accepted by a quorum in statements that were sent, but   *)
(* for the node's own.                                                     *)
CandidatesSent ==
    \A n \in Node : \A v \in candidates[n] :
        \E Q \in Slices[n] : \A m \in Q :
            /\ Q \in Slices[m]
            /\ v \in last[m].accepted \/ (m = n /\ v \in accepted[n])

(* An accepted value has the votes of a quorum, in statements that were    *)
(* sent when its own acceptance was, and but for the node's own before.    *)
AcceptedSent ==
    \A n \in Node :
        /\ \A v \in last[n].accepted :
              \E k \in Node : \E Q \in Slices[k] : \A m \in Q :
                  Q \in Slices[m] /\ v \in last[m].votes
        /\ \A v \in accepted[n] :
              \E k \in Node : \E Q \in Slices[k] : \A m \in Q :
                  /\ Q \in Slices[m]
                  /\ v \in last[m].votes \/ (m = n /\ v \in votes[n])

(* Who nominates has a value to nominate.                                  *)
HasValue == \A n \in Node : started[n] => nominating[n] \in Value

IInv ==
    /\ TypeOK
    /\ HasValue
    /\ Growing
    /\ Heard
    /\ HandedOver
    /\ CandidatesSent
    /\ AcceptedSent
    /\ NeverBad

-----------------------------------------------------------------------------
(* One level of processEnvelope, seen from outside.                        *)
Level(n, L, V, A, C) ==
    /\ V \in SUBSET Value /\ A \in SUBSET Value /\ C \in SUBSET Value
    /\ latest' = [latest EXCEPT ![n] = L]
    /\ votes' = [votes EXCEPT ![n] = V]
    /\ accepted' = [accepted EXCEPT ![n] = A]
    /\ candidates' = [candidates EXCEPT ![n] = C]
    /\ votes[n] \subseteq V
    /\ accepted[n] \subseteq A
    /\ \A v \in A \ accepted[n] : v \in V /\ federatedAccept(n, L, v)
    /\ \A v \in C \ candidates[n] : federatedRatify(n, HaveAccepted(L, v))

(* It makes a statement, or it is the innermost one.                       *)
Deeper(n, V, A, C) ==
    /\ A # accepted[n] \/ V # votes[n]
    /\ own' = [own EXCEPT ![n] = TRUE]
    /\ newCandidates' = [newCandidates EXCEPT ![n] =
                            newCandidates[n] \/ C # candidates[n]]
    /\ UNCHANGED <<composite, last, sent>>

Leave(n, st, V, A, C) ==
    /\ A = accepted[n] /\ V = votes[n]
    /\ newCandidates' = [newCandidates EXCEPT ![n] = FALSE]
    /\ Return(n, st, C, newCandidates[n] \/ C # candidates[n])

(* A level of the handler of a statement st of m.                          *)
Handler(n, m, st, V, A, C) ==
    /\ started[n]
    /\ \/ m # n /\ st \in sent[m] /\ ~own[n]
       \/ m = n /\ st = ownStatement(n) /\ own[n]
    /\ Level(n, [latest[n] EXCEPT ![m] = st], V, A, C)
    /\ Deeper(n, V, A, C) \/ Leave(n, st, V, A, C)
    /\ UNCHANGED <<driver, bad, crashes>>

LEMMA NominableType ==
    ASSUME NEW n \in Node, NEW V \in SUBSET Value
    PROVE  nominable(n, V) \in SUBSET Value
  BY NominationAssumption DEF nominable

LEMMA NewValueType ==
    ASSUME NEW n \in Node, NEW st \in Statement, NEW V \in SUBSET Value,
           NEW P \in getNewValueFromNomination(n, st, V)
    PROVE  P \in SUBSET Value /\ P \cap V = {}
<1>1. st.votes \cup st.accepted \in SUBSET Value
  BY DEF Statement
<1>2. nominable(n, st.votes \cup st.accepted) \in SUBSET Value
  BY <1>1, NominableType
<1> QED
  BY <1>2 DEF getNewValueFromNomination

(* What a handler does at one level.                                       *)
LEMMA LevelStep ==
    ASSUME TypeOK,
           NEW n \in Node, NEW m \in Node, NEW st \in Statement, NEW L,
           started[n], processEnvelope(n, m, st, L)
    PROVE  \E V, A, C \in SUBSET Value :
              Level(n, L, V, A, C) /\ (Deeper(n, V, A, C) \/ Leave(n, st, V, A, C))
<1> DEFINE N == nowAccepted(n, st, L)
           A == accepted[n] \cup (N \cap ValidAt[n])
           W == votes[n] \cup nominable(n, N)
           C == nowCandidates(n, A, L)
<1>1. N \in SUBSET Value /\ \A v \in N : federatedAccept(n, L, v)
  BY DEF nowAccepted, Statement
<1>2. A \in SUBSET Value /\ W \in SUBSET Value /\ C \in SUBSET Value
  BY <1>1, NominableType DEF TypeOK, nowCandidates
<1>3. \A v \in A \ accepted[n] : v \in W /\ federatedAccept(n, L, v)
  BY <1>1 DEF nominable
<1>4. \A v \in C \ candidates[n] : federatedRatify(n, HaveAccepted(L, v))
  BY DEF nowCandidates
<1>5. Promote(n, m, st, A, W, C) /\ latest' = [latest EXCEPT ![n] = L]
  BY DEF processEnvelope, accepting, promoted
<1> HIDE DEF N, A, W, C
<1>6. PICK P \in leaderVotes(n, m, st, W, C) :
        /\ votes' = [votes EXCEPT ![n] = W \cup P]
        /\ accepted' = [accepted EXCEPT ![n] = A]
        /\ candidates' = [candidates EXCEPT ![n] = C]
        /\ IF A # accepted[n] \/ W \cup P # votes[n]
           THEN /\ emitNomination(n)
                /\ newCandidates' = [newCandidates EXCEPT ![n] =
                                        newCandidates[n] \/ C # candidates[n]]
           ELSE /\ Return(n, st, C, newCandidates[n] \/ C # candidates[n])
                /\ newCandidates' = [newCandidates EXCEPT ![n] = FALSE]
  BY <1>5, Zenon DEF Promote
<1>7. P \in SUBSET Value
  BY <1>2, <1>6, NewValueType DEF leaderVotes
<1>8. Level(n, L, W \cup P, A, C)
  BY <1>2, <1>3, <1>4, <1>5, <1>6, <1>7 DEF Level, W, A
<1>9. Deeper(n, W \cup P, A, C) \/ Leave(n, st, W \cup P, A, C)
  BY <1>6 DEF Deeper, Leave, emitNomination
<1> QED
  BY <1>2, <1>7, <1>8, <1>9

-----------------------------------------------------------------------------
(* A handler preserves each part of the invariant.                         *)

LEMMA OwnIsStatement ==
    ASSUME TypeOK, NEW n \in Node
    PROVE  ownStatement(n) \in Statement
  BY DEF TypeOK, ownStatement, Statement

(* What a handler does to the last statement of every node.                *)
LEMMA LastStep ==
    ASSUME IInv, NEW n \in Node, NEW m \in Node, NEW st \in Statement,
           NEW V, NEW A, NEW C, Handler(n, m, st, V, A, C)
    PROVE  \/ UNCHANGED <<last, sent>>
           \/ /\ own[n] /\ m = n /\ st = ownStatement(n)
              /\ A = accepted[n] /\ V = votes[n]
              /\ Within(last[n], st)
              /\ last' = [last EXCEPT ![n] = st]
              /\ sent' = [sent EXCEPT ![n] = @ \cup {st}]
<1>1. CASE Deeper(n, V, A, C)
  BY <1>1 DEF Deeper
<1>2. CASE Leave(n, st, V, A, C)
  BY <1>2 DEF Leave, Return, Handler, isNewerStatement, Within
<1> QED
  BY <1>1, <1>2 DEF Handler

(* What it does to the sets of values and to the recorded statements.      *)
Entered(n, L, V, A, C) ==
    /\ votes'[n] = V /\ accepted'[n] = A /\ candidates'[n] = C
    /\ latest'[n] = L
    /\ votes[n] \subseteq V /\ accepted[n] \subseteq A
    /\ \A k \in Node \ {n} :
           /\ votes'[k] = votes[k] /\ accepted'[k] = accepted[k]
           /\ candidates'[k] = candidates[k] /\ latest'[k] = latest[k]
    /\ started' = started /\ started[n]

LEMMA ValuesStep ==
    ASSUME IInv, NEW n \in Node, NEW m \in Node, NEW st \in Statement,
           NEW V, NEW A, NEW C, Handler(n, m, st, V, A, C)
    PROVE  Entered(n, [latest[n] EXCEPT ![m] = st], V, A, C)
<1> DEFINE L == [latest[n] EXCEPT ![m] = st]
<1>1. /\ votes \in [Node -> SUBSET Value] /\ accepted \in [Node -> SUBSET Value]
      /\ candidates \in [Node -> SUBSET Value]
      /\ latest \in [Node -> [Node -> Statement]]
  BY Zenon DEF IInv, TypeOK
<1>2. /\ votes' = [votes EXCEPT ![n] = V]
      /\ accepted' = [accepted EXCEPT ![n] = A]
      /\ candidates' = [candidates EXCEPT ![n] = C]
      /\ latest' = [latest EXCEPT ![n] = L]
      /\ votes[n] \subseteq V /\ accepted[n] \subseteq A
  BY Zenon DEF Handler, Level
<1>3. started' = started /\ started[n]
  BY Zenon DEF Handler, driver
<1> HIDE DEF L
<1>4. /\ votes'[n] = V /\ accepted'[n] = A /\ candidates'[n] = C
      /\ latest'[n] = L
  BY <1>1, <1>2
<1>5. \A k \in Node \ {n} :
          /\ votes'[k] = votes[k] /\ accepted'[k] = accepted[k]
          /\ candidates'[k] = candidates[k] /\ latest'[k] = latest[k]
  BY <1>1, <1>2
<1> QED
  BY <1>2, <1>3, <1>4, <1>5, Zenon DEF Entered, L

(* The statements that a handler works with: those of other nodes are part *)
(* of what these sent, and the node's own one of what it says.             *)
LEMMA RecordedStatements ==
    ASSUME IInv, NEW n \in Node, NEW m \in Node, NEW st \in Statement,
           NEW V, NEW A, NEW C, Handler(n, m, st, V, A, C),
           NEW L, L = [latest[n] EXCEPT ![m] = st]
    PROVE  /\ L \in [Node -> Statement]
           /\ \A k \in Node \ {n} : Within(L[k], last[k])
           /\ Within(L[n], ownStatement(n))
           /\ m # n => L[n] = latest[n][n]
           /\ m = n => L[n] = ownStatement(n)
<1>1. L \in [Node -> Statement]
  BY DEF IInv, TypeOK
<1>2. \A k \in Node : L[k] = IF k = m THEN st ELSE latest[n][k]
  BY DEF IInv, TypeOK
<1>3. m # n => Within(st, last[m])
  BY DEF IInv, Heard, Handler
<1>4. m = n => st = ownStatement(n)
  BY DEF Handler
<1>5. \A k \in Node \ {n} : Within(latest[n][k], last[k])
  BY DEF IInv, Heard
<1>6. Within(latest[n][n], ownStatement(n)) /\ Within(ownStatement(n), ownStatement(n))
  BY DEF IInv, Growing, Within
<1> QED
  BY <1>1, <1>2, <1>3, <1>4, <1>5, <1>6

LEMMA TypeStep ==
    ASSUME IInv, NEW n \in Node, NEW m \in Node, NEW st \in Statement,
           NEW V, NEW A, NEW C, Handler(n, m, st, V, A, C)
    PROVE  TypeOK' /\ NeverBad'
<1>0. \/ UNCHANGED <<last, sent>>
      \/ /\ m = n /\ st = ownStatement(n)
         /\ last' = [last EXCEPT ![n] = st]
         /\ sent' = [sent EXCEPT ![n] = @ \cup {st}]
  BY LastStep
<1>1. /\ votes' \in [Node -> SUBSET Value]
      /\ accepted' \in [Node -> SUBSET Value]
      /\ candidates' \in [Node -> SUBSET Value]
  BY DEF IInv, TypeOK, Handler, Level
<1>2. latest' \in [Node -> [Node -> Statement]]
  BY DEF IInv, TypeOK, Handler, Level
<1>3. last' \in [Node -> Statement] /\ sent' \in [Node -> SUBSET Statement]
  <2>1. CASE UNCHANGED <<last, sent>>
    BY <2>1 DEF IInv, TypeOK
  <2>2. CASE /\ last' = [last EXCEPT ![n] = st]
             /\ sent' = [sent EXCEPT ![n] = @ \cup {st}]
    <3>1. sent[n] \cup {st} \in SUBSET Statement
      BY DEF IInv, TypeOK
    <3> QED
      BY <2>2, <3>1 DEF IInv, TypeOK
  <2> QED
    BY <1>0, <2>1, <2>2
<1>4. own' \in [Node -> BOOLEAN]
  BY Zenon DEF IInv, TypeOK, Handler, Deeper, Leave, Return
<1>5. newCandidates' \in [Node -> BOOLEAN]
  BY Zenon DEF IInv, TypeOK, Handler, Deeper, Leave
<1>6. composite' \in [Node -> SUBSET Value]
  BY DEF IInv, TypeOK, Handler, Deeper, Leave, Return, Level
<1>7. /\ started' = started /\ round' = round /\ nominating' = nominating
      /\ bad' = bad /\ crashes' = crashes
  BY DEF Handler, driver
<1> QED
  BY <1>1, <1>2, <1>3, <1>4, <1>5, <1>6, <1>7 DEF IInv, TypeOK, NeverBad

LEMMA GrowingStep ==
    ASSUME IInv, NEW n \in Node, NEW m \in Node, NEW st \in Statement,
           NEW V, NEW A, NEW C, Handler(n, m, st, V, A, C)
    PROVE  Growing'
<1> SUFFICES ASSUME NEW k \in Node
             PROVE  /\ accepted'[k] \subseteq votes'[k]
                    /\ last'[k].accepted \subseteq last'[k].votes
                    /\ Within(last'[k], latest'[k][k])
                    /\ Within(latest'[k][k], ownStatement(k)')
                    /\ own'[k] => started'[k] /\ latest'[k][k] # ownStatement(k)'
                    /\ ~own'[k] => /\ latest'[k][k] = ownStatement(k)'
                                  /\ last'[k] = ownStatement(k)'
  BY Zenon DEF Growing, Within
<1>0. Entered(n, [latest[n] EXCEPT ![m] = st], V, A, C)
  BY ValuesStep, Zenon
<1>1. CASE k # n
  <2>1. /\ votes'[k] = votes[k] /\ accepted'[k] = accepted[k]
        /\ latest'[k] = latest[k] /\ started'[k] = started[k]
    BY <1>0, <1>1 DEF Entered
  <2>2. own'[k] = own[k]
    BY <1>1 DEF IInv, TypeOK, Handler, Deeper, Leave, Return
  <2>3. last'[k] = last[k]
    <3>1. last' = last \/ last' = [last EXCEPT ![n] = st]
      BY LastStep
    <3> QED
      BY <1>1, <3>1 DEF IInv, TypeOK
  <2>4. ownStatement(k)' = ownStatement(k)
    BY <2>1 DEF ownStatement
  <2> QED
    BY <2>1, <2>2, <2>3, <2>4 DEF IInv, Growing
<1>2. CASE k = n
  <2> DEFINE L == [latest[n] EXCEPT ![m] = st]
  <2>1. votes'[n] = V /\ accepted'[n] = A /\ latest'[n] = L /\ started'[n]
    BY <1>0, Zenon DEF Entered
  <2>2. ownStatement(n)' = [votes |-> V, accepted |-> A]
    BY <2>1 DEF ownStatement
  <2>3. accepted[n] \subseteq votes[n] /\ votes[n] \subseteq V /\ accepted[n] \subseteq A
    BY DEF IInv, Growing, Handler, Level
  <2>4. A \subseteq V
    BY <2>3 DEF Handler, Level
  <2>5. Within(ownStatement(n), ownStatement(n)')
    BY <2>2, <2>3 DEF Within, ownStatement
  <2>6. /\ Within(L[n], ownStatement(n))
        /\ m # n => L[n] = latest[n][n]
        /\ m = n => L[n] = ownStatement(n)
    <3> HIDE DEF L
    <3>1. L = [latest[n] EXCEPT ![m] = st]
      BY DEF L
    <3> QED
      BY <3>1, RecordedStatements
  <2>7. Within(L[n], ownStatement(n)')
    BY <2>5, <2>6 DEF Within
  <2>8. /\ Within(last[n], latest[n][n])
        /\ Within(latest[n][n], ownStatement(n))
        /\ last[n].accepted \subseteq last[n].votes
        /\ ~own[n] => latest[n][n] = ownStatement(n) /\ last[n] = ownStatement(n)
        /\ own[n] => latest[n][n] # ownStatement(n)
    BY DEF IInv, Growing
  <2>9. Within(last[n], L[n])
    BY <2>6, <2>8 DEF Within
  <2> HIDE DEF L
  <2>10. CASE Deeper(n, V, A, C)
    <3>1. own'[n] /\ last' = last
      BY <2>10 DEF Deeper, IInv, TypeOK
    <3>2. ownStatement(n) # ownStatement(n)'
      BY <2>2, <2>10 DEF Deeper, ownStatement
    <3>3. L[n] = ownStatement(n)
      <4>1. own[n] => m = n
        BY Zenon DEF Handler
      <4> QED
        BY <2>6, <2>8, <4>1, Zenon
    <3> QED
      BY <1>2, <2>1, <2>4, <2>7, <2>8, <2>9, <3>1, <3>2, <3>3
  <2>11. CASE Leave(n, st, V, A, C)
    <3>1. ~own'[n] /\ ownStatement(n)' = ownStatement(n)
      <4>1. ~own'[n]
        BY <2>11 DEF Leave, Return, IInv, TypeOK
      <4>2. ownStatement(n)' = ownStatement(n)
        BY <2>2, <2>11, Zenon DEF Leave, ownStatement
      <4> QED
        BY <4>1, <4>2
    <3>2. L[n] = ownStatement(n)
      BY <2>6, <2>8 DEF Handler
    <3>3. CASE own[n]
      <4>1. m = n /\ st = ownStatement(n)
        BY <3>3 DEF Handler
      <4>2. isNewerStatement(last[n], st)
        <5>1. latest[n][n] = [votes |-> latest[n][n].votes,
                              accepted |-> latest[n][n].accepted]
          BY DEF IInv, TypeOK, Statement
        <5>2. Within(last[n], ownStatement(n))
          BY <2>8 DEF Within
        <5>3. last[n] # ownStatement(n)
          <6> SUFFICES ASSUME last[n] = ownStatement(n) PROVE FALSE
            OBVIOUS
          <6>1. last[n].votes = votes[n] /\ last[n].accepted = accepted[n]
            BY DEF ownStatement
          <6>2. /\ votes[n] \subseteq latest[n][n].votes
                /\ accepted[n] \subseteq latest[n][n].accepted
                /\ latest[n][n].votes \subseteq votes[n]
                /\ latest[n][n].accepted \subseteq accepted[n]
            BY <2>8, <6>1 DEF Within, ownStatement
          <6> QED
            BY <2>8, <3>3, <5>1, <6>2, ZenonT(30) DEF ownStatement
        <5> QED
          BY <4>1, <5>2, <5>3 DEF isNewerStatement, Within
      <4>3. last'[n] = ownStatement(n)
        BY <2>11, <3>3, <4>1, <4>2 DEF Leave, Return, IInv, TypeOK
      <4> QED
        BY <1>2, <2>1, <2>3, <2>4, <2>7, <3>1, <3>2, <4>3 DEF Within, ownStatement
    <3>4. CASE ~own[n]
      <4>1. last'[n] = last[n]
        BY <2>11, <3>4 DEF Leave, Return
      <4> QED
        BY <1>2, <2>1, <2>4, <2>7, <2>8, <2>9, <3>1, <3>2, <3>4, <4>1
    <3> QED
      BY <3>3, <3>4
  <2> QED
    BY <2>10, <2>11 DEF Handler
<1> QED
  BY <1>1, <1>2

(* No handler makes the last statement of a node smaller.                  *)
LEMMA LastGrows ==
    ASSUME IInv, NEW n \in Node, NEW m \in Node, NEW st \in Statement,
           NEW V, NEW A, NEW C, Handler(n, m, st, V, A, C)
    PROVE  \A k \in Node : Within(last[k], last'[k]) /\ (k # n => last'[k] = last[k])
<1>0. \/ last' = last
      \/ Within(last[n], st) /\ last' = [last EXCEPT ![n] = st]
  BY LastStep
<1>1. CASE last' = last
  BY <1>1 DEF Within
<1>2. CASE Within(last[n], st) /\ last' = [last EXCEPT ![n] = st]
  BY <1>2 DEF Within, IInv, TypeOK
<1> QED
  BY <1>0, <1>1, <1>2

LEMMA HeardStep ==
    ASSUME IInv, NEW n \in Node, NEW m \in Node, NEW st \in Statement,
           NEW V, NEW A, NEW C, Handler(n, m, st, V, A, C)
    PROVE  Heard'
<1>0. \/ UNCHANGED <<last, sent>>
      \/ /\ last' = [last EXCEPT ![n] = st]
         /\ sent' = [sent EXCEPT ![n] = @ \cup {st}]
  BY LastStep
<1>1. \A k \in Node : Within(last[k], last'[k])
  BY LastGrows
<1>e. Entered(n, [latest[n] EXCEPT ![m] = st], V, A, C)
  BY ValuesStep, Zenon
<1>2. ASSUME NEW k \in Node, NEW s \in sent'[k]
      PROVE  Within(s, last'[k])
  <2>1. CASE s \in sent[k]
    BY <1>1, <2>1 DEF IInv, Heard, Within
  <2>2. CASE s \notin sent[k]
    <3>1. k = n /\ s = st /\ last'[n] = st
      BY <1>0, <1>2, <2>2 DEF IInv, TypeOK
    <3> QED
      BY <3>1 DEF Within
  <2> QED
    BY <2>1, <2>2
<1>3. ASSUME NEW k \in Node, NEW j \in Node \ {k}
      PROVE  Within(latest'[j][k], last'[k])
  <2>1. CASE j # n
    <3>1. latest'[j] = latest[j]
      BY <1>e, <2>1 DEF Entered
    <3> QED
      BY <1>1, <3>1 DEF IInv, Heard, Within
  <2>2. CASE j = n
    <3> DEFINE L == [latest[n] EXCEPT ![m] = st]
    <3>1. latest'[n] = L
      BY <1>e, Zenon DEF Entered
    <3> HIDE DEF L
    <3>2. L = [latest[n] EXCEPT ![m] = st]
      BY DEF L
    <3>3. Within(L[k], last[k])
      BY <2>2, <3>2, RecordedStatements
    <3> QED
      BY <1>1, <2>2, <3>1, <3>3 DEF Within
  <2> QED
    BY <2>1, <2>2
<1> QED
  BY <1>2, <1>3, Zenon DEF Heard, Within

LEMMA HandedStep ==
    ASSUME IInv, NEW n \in Node, NEW m \in Node, NEW st \in Statement,
           NEW V, NEW A, NEW C, Handler(n, m, st, V, A, C)
    PROVE  HandedOver'
<1> SUFFICES ASSUME NEW k \in Node
             PROVE  /\ newCandidates'[k] => own'[k]
                    /\ ~newCandidates'[k] => composite'[k] = candidates'[k]
  BY DEF HandedOver
<1>0. /\ newCandidates[k] => own[k]
      /\ ~newCandidates[k] => composite[k] = candidates[k]
  BY DEF IInv, HandedOver
<1>1. candidates'[k] = IF k = n THEN C ELSE candidates[k]
  <2>1. Entered(n, [latest[n] EXCEPT ![m] = st], V, A, C)
    BY ValuesStep, Zenon
  <2> QED
    BY <2>1 DEF Entered
<1>2. CASE Deeper(n, V, A, C)
  <2>1. own'[k] = (IF k = n THEN TRUE ELSE own[k]) /\ composite'[k] = composite[k]
    BY <1>2 DEF Deeper, IInv, TypeOK
  <2>2. newCandidates'[k] = IF k = n THEN newCandidates[n] \/ C # candidates[n]
                            ELSE newCandidates[k]
    BY <1>2 DEF Deeper, IInv, TypeOK
  <2> QED
    BY <1>0, <1>1, <2>1, <2>2, Zenon
<1>3. CASE Leave(n, st, V, A, C)
  <2>1. newCandidates'[k] = IF k = n THEN FALSE ELSE newCandidates[k]
    BY <1>3 DEF Leave, IInv, TypeOK
  <2>2. own'[k] = IF k = n THEN FALSE ELSE own[k]
    BY <1>3 DEF Leave, Return, IInv, TypeOK
  <2>3. composite'[k] = IF k = n
                        THEN IF newCandidates[n] \/ C # candidates[n]
                             THEN C ELSE composite[n]
                        ELSE composite[k]
    <3>1. composite \in [Node -> SUBSET Value]
      BY Zenon DEF IInv, TypeOK
    <3>2. composite' = [composite EXCEPT ![n] =
                           IF newCandidates[n] \/ C # candidates[n]
                           THEN C ELSE @]
      BY <1>3, Zenon DEF Leave, Return
    <3> QED
      BY <3>1, <3>2
  <2> QED
    BY <1>0, <1>1, <2>1, <2>2, <2>3
<1> QED
  BY <1>2, <1>3 DEF Handler

LEMMA CandidatesStep ==
    ASSUME IInv, NEW n \in Node, NEW m \in Node, NEW st \in Statement,
           NEW V, NEW A, NEW C, Handler(n, m, st, V, A, C)
    PROVE  CandidatesSent'
<1> SUFFICES ASSUME NEW k \in Node, NEW v \in candidates'[k]
             PROVE  \E Q \in Slices[k] : \A j \in Q :
                        /\ Q \in Slices[j]
                        /\ v \in last'[j].accepted \/ (j = k /\ v \in accepted'[k])
  BY DEF CandidatesSent
<1> DEFINE L == [latest[n] EXCEPT ![m] = st]
<1>1. \A j \in Node : Within(last[j], last'[j])
  BY LastGrows
<1>e. Entered(n, L, V, A, C)
  BY ValuesStep, Zenon
<1>2. candidates'[k] = IF k = n THEN C ELSE candidates[k]
  BY <1>e DEF Entered
<1>3. accepted[k] \subseteq accepted'[k] /\ accepted[n] \subseteq accepted'[n]
  BY <1>e DEF Entered
<1>4. CASE v \in candidates[k]
  <2>1. PICK Q \in Slices[k] : \A j \in Q :
            /\ Q \in Slices[j]
            /\ v \in last[j].accepted \/ (j = k /\ v \in accepted[k])
    BY <1>4, Zenon DEF IInv, CandidatesSent
  <2>2. Q \subseteq Node
    BY NominationAssumption
  <2> QED
    <3>1. \A j \in Q : v \in last[j].accepted => v \in last'[j].accepted
      BY <1>1, <2>2, Zenon DEF Within
    <3> QED
      BY <1>3, <2>1, <3>1, Zenon
<1>5. CASE v \notin candidates[k]
  <2>1. k = n /\ federatedRatify(n, HaveAccepted(L, v))
    BY <1>2, <1>5 DEF Handler, Level
  <2>2. PICK Q \in Slices[n] : /\ Q \subseteq HaveAccepted(L, v)
                               /\ \A j \in Q : Q \in Slices[j]
    BY <2>1 DEF federatedRatify
  <2> HIDE DEF L
  <2>3. L = [latest[n] EXCEPT ![m] = st]
    BY Zenon DEF L
  <2>4. /\ \A j \in Node \ {n} : Within(L[j], last[j])
        /\ Within(L[n], ownStatement(n))
    BY <2>3, RecordedStatements
  <2>5. ASSUME NEW j \in Q
        PROVE  v \in last'[j].accepted \/ (j = k /\ v \in accepted'[k])
    <3>1. j \in Node /\ v \in L[j].accepted
      BY <2>2, Zenon DEF HaveAccepted
    <3>2. CASE j # n
      BY <1>1, <2>4, <3>1, <3>2, Zenon DEF Within
    <3>3. CASE j = n
      <4>1. v \in accepted[n]
        BY <2>4, <3>1, <3>3 DEF Within, ownStatement
      <4> QED
        BY <1>3, <2>1, <3>3, <4>1, Zenon
    <3> QED
      BY <3>2, <3>3
  <2> QED
    BY <2>1, <2>2, <2>5, Zenon
<1> QED
  BY <1>4, <1>5

LEMMA AcceptedStep ==
    ASSUME IInv, NEW n \in Node, NEW m \in Node, NEW st \in Statement,
           NEW V, NEW A, NEW C, Handler(n, m, st, V, A, C)
    PROVE  AcceptedSent'
<1> DEFINE L == [latest[n] EXCEPT ![m] = st]
<1>1. \A j \in Node : Within(last[j], last'[j]) /\ (j # n => last'[j] = last[j])
  BY LastGrows
<1>2. \A j \in Node : /\ accepted'[j] = IF j = n THEN A ELSE accepted[j]
                      /\ votes[j] \subseteq votes'[j]
  <2>1. Entered(n, L, V, A, C)
    BY ValuesStep, Zenon
  <2> HIDE DEF L
  <2> QED
    BY <2>1 DEF Entered
<1>3. ASSUME NEW k \in Node, NEW v \in accepted[k]
      PROVE  \E h \in Node : \E Q \in Slices[h] : \A j \in Q :
                  /\ Q \in Slices[j]
                  /\ v \in last'[j].votes \/ (j = k /\ v \in votes[k])
  <2>1. PICK h \in Node : \E Q \in Slices[h] : \A j \in Q :
                  /\ Q \in Slices[j]
                  /\ v \in last[j].votes \/ (j = k /\ v \in votes[k])
    BY Zenon DEF IInv, AcceptedSent
  <2>2. PICK Q \in Slices[h] : \A j \in Q :
                  /\ Q \in Slices[j]
                  /\ v \in last[j].votes \/ (j = k /\ v \in votes[k])
    BY <2>1
  <2>3. Q \subseteq Node
    BY NominationAssumption
  <2>4. \A j \in Q : v \in last[j].votes => v \in last'[j].votes
    BY <1>1, <2>3, Zenon DEF Within
  <2> QED
    BY <2>2, <2>4, Zenon
<1>4. ASSUME NEW k \in Node, NEW v \in last[k].accepted
      PROVE  \E h \in Node : \E Q \in Slices[h] : \A j \in Q :
                  Q \in Slices[j] /\ v \in last'[j].votes
  <2>1. PICK h \in Node : \E Q \in Slices[h] : \A j \in Q :
                  Q \in Slices[j] /\ v \in last[j].votes
    BY Zenon DEF IInv, AcceptedSent
  <2>2. PICK Q \in Slices[h] : \A j \in Q : Q \in Slices[j] /\ v \in last[j].votes
    BY <2>1
  <2>3. Q \subseteq Node
    BY NominationAssumption
  <2> QED
    <3>1. \A j \in Q : v \in last[j].votes => v \in last'[j].votes
      BY <1>1, <2>3, Zenon DEF Within
    <3> QED
      BY <2>2, <3>1, Zenon
<1>5. ASSUME NEW k \in Node, NEW v \in last'[k].accepted
      PROVE  \E h \in Node : \E Q \in Slices[h] : \A j \in Q :
                  Q \in Slices[j] /\ v \in last'[j].votes
  <2>1. CASE v \in last[k].accepted
    BY <1>4, <2>1
  <2>2. CASE v \notin last[k].accepted
    <3>1. k = n /\ st = ownStatement(n) /\ last' = [last EXCEPT ![n] = st]
      <4>1. \/ last' = last
            \/ st = ownStatement(n) /\ last' = [last EXCEPT ![n] = st]
        BY LastStep
      <4>2. k # n => last'[k] = last[k]
        BY <1>1, Zenon
      <4> QED
        BY <2>2, <1>5, <4>1, <4>2, Zenon
    <3>2. last'[n] = ownStatement(n)
      BY <3>1 DEF IInv, TypeOK
    <3>3. v \in accepted[n]
      BY <1>5, <3>1, <3>2 DEF ownStatement
    <3>4. PICK h \in Node : \E Q \in Slices[h] : \A j \in Q :
                  /\ Q \in Slices[j]
                  /\ v \in last'[j].votes \/ (j = n /\ v \in votes[n])
      BY <1>3, <3>3, Zenon
    <3>5. last'[n].votes = votes[n]
      BY <3>2 DEF ownStatement
    <3> QED
      BY <3>4, <3>5
  <2> QED
    BY <2>1, <2>2
<1>6. ASSUME NEW k \in Node, NEW v \in accepted'[k]
      PROVE  \E h \in Node : \E Q \in Slices[h] : \A j \in Q :
                  /\ Q \in Slices[j]
                  /\ v \in last'[j].votes \/ (j = k /\ v \in votes'[k])
  <2>1. CASE v \in accepted[k]
    <3>1. PICK h \in Node : \E Q \in Slices[h] : \A j \in Q :
                  /\ Q \in Slices[j]
                  /\ v \in last'[j].votes \/ (j = k /\ v \in votes[k])
      BY <1>3, <2>1, Zenon
    <3>2. v \in votes[k] => v \in votes'[k]
      BY <1>2, Zenon
    <3> QED
      BY <3>1, <3>2, Zenon
  <2>2. CASE v \notin accepted[k]
    <3>1. k = n /\ v \in A \ accepted[n] /\ federatedAccept(n, L, v)
      BY <1>2, <1>6, <2>2 DEF Handler, Level
    <3> HIDE DEF L
    <3>2. L = [latest[n] EXCEPT ![m] = st]
      BY Zenon DEF L
    <3>3. /\ \A j \in Node \ {n} : Within(L[j], last[j])
          /\ Within(L[n], ownStatement(n))
      BY <3>2, RecordedStatements, Zenon
    <3>4. CASE Blocks(n, HaveAccepted(L, v))
      <4>1. PICK j \in Node : v \in L[j].accepted
        BY <3>4, NominationAssumption DEF Blocks, HaveAccepted
      <4>2. j # n
        <5>1. v \notin accepted[n]
          BY <3>1, Zenon
        <5>2. L[n].accepted \subseteq accepted[n]
          BY <3>3 DEF Within, ownStatement
        <5> QED
          BY <4>1, <5>1, <5>2, Zenon
      <4>3. v \in last[j].accepted
        BY <3>3, <4>1, <4>2, ZenonT(30) DEF Within
      <4> QED
        BY <1>4, <4>3, ZenonT(30)
    <3>5. CASE federatedRatify(n, VotedFor(L, v) \cup HaveAccepted(L, v))
      <4>1. PICK Q \in Slices[n] : /\ Q \subseteq VotedFor(L, v) \cup HaveAccepted(L, v)
                                   /\ \A j \in Q : Q \in Slices[j]
        BY <3>5 DEF federatedRatify
      <4>2. ASSUME NEW j \in Q
            PROVE  v \in last'[j].votes \/ (j = k /\ v \in votes'[k])
        <5>1. j \in Node /\ (v \in L[j].votes \/ v \in L[j].accepted)
          BY <4>1, Zenon DEF VotedFor, HaveAccepted
        <5>2. /\ accepted[n] \subseteq votes[n]
              /\ last[j].accepted \subseteq last[j].votes
          BY <5>1 DEF IInv, Growing
        <5>3. CASE j # n
          <6>1. v \in last[j].votes
            BY <3>3, <5>1, <5>2, <5>3, Zenon DEF Within
          <6> QED
            BY <1>1, <5>1, <6>1, Zenon DEF Within
        <5>4. CASE j = n
          <6>1. v \in votes[n]
            BY <3>3, <5>1, <5>2, <5>4 DEF Within, ownStatement
          <6> QED
            BY <1>2, <3>1, <5>4, <6>1, Zenon
        <5> QED
          BY <5>3, <5>4
      <4> QED
        BY <3>1, <4>1, <4>2, ZenonT(30)
    <3> QED
      BY <3>1, <3>4, <3>5, Zenon DEF federatedAccept
  <2> QED
    BY <2>1, <2>2
<1> QED
  BY <1>5, <1>6 DEF AcceptedSent

LEMMA HandlerStep ==
    ASSUME IInv, NEW n \in Node, NEW m \in Node, NEW st \in Statement,
           NEW V, NEW A, NEW C, Handler(n, m, st, V, A, C)
    PROVE  IInv'
<1>1. TypeOK' /\ NeverBad'
  BY TypeStep
<1>2. Growing'
  BY GrowingStep
<1>3. Heard'
  BY HeardStep
<1>4. HandedOver'
  BY HandedStep
<1>5. CandidatesSent'
  BY CandidatesStep
<1>6. AcceptedSent'
  BY AcceptedStep
<1>7. HasValue'
  BY DEF Handler, driver, IInv, HasValue
<1> QED
  BY <1>1, <1>2, <1>3, <1>4, <1>5, <1>6, <1>7 DEF IInv

-----------------------------------------------------------------------------
(* The steps of Next.                                                      *)

(* A statement that reaches a node which does not nominate is recorded.    *)
LEMMA RecordStep ==
    ASSUME IInv, NEW n \in Node, NEW m \in Node, NEW st \in Statement,
           m # n, st \in sent[m],
           latest' = [latest EXCEPT ![n] = [latest[n] EXCEPT ![m] = st]],
           UNCHANGED <<votes, accepted, candidates, last, own, newCandidates,
                       composite, sent, driver, bad, crashes>>
    PROVE  IInv'
<1>1. latest' \in [Node -> [Node -> Statement]]
  BY DEF IInv, TypeOK
<1>2. \A k, j \in Node : latest'[k][j] = IF k = n /\ j = m THEN st ELSE latest[k][j]
  BY DEF IInv, TypeOK
<1>3. TypeOK' /\ NeverBad'
  BY <1>1 DEF IInv, TypeOK, NeverBad, driver
<1>4. Growing'
  BY <1>2 DEF IInv, Growing, ownStatement, driver
<1>5. Heard'
  <2>1. Within(st, last[m])
    BY DEF IInv, Heard
  <2>2. \A k \in Node : \A s \in sent'[k] : Within(s, last'[k])
    BY DEF IInv, Heard
  <2>3. \A k \in Node : \A j \in Node \ {k} : Within(latest'[j][k], last'[k])
    BY <1>2, <2>1 DEF IInv, Heard
  <2> QED
    BY <2>2, <2>3, Zenon DEF Heard, Within
<1>6. HandedOver'
  BY DEF IInv, HandedOver
<1>7. CandidatesSent' /\ AcceptedSent'
  BY DEF IInv, CandidatesSent, AcceptedSent
<1>8. HasValue'
  BY DEF IInv, HasValue, driver
<1> QED
  BY <1>3, <1>4, <1>5, <1>6, <1>7, <1>8 DEF IInv

LEMMA ReceiveStep ==
    ASSUME IInv, NEW n \in Node, NEW m \in Node, NEW st \in sent[m], Receive(n, m, st)
    PROVE  IInv'
<1>1. st \in Statement
  BY DEF IInv, TypeOK
<1>2. CASE started[n]
  <2>1. processEnvelope(n, m, st, [latest[n] EXCEPT ![m] = st])
    BY DEF Receive
  <2>2. PICK V, A, C \in SUBSET Value :
            /\ Level(n, [latest[n] EXCEPT ![m] = st], V, A, C)
            /\ Deeper(n, V, A, C) \/ Leave(n, st, V, A, C)
    BY <1>1, <1>2, <2>1, LevelStep DEF IInv
  <2>3. Handler(n, m, st, V, A, C)
    BY <1>2, <2>2 DEF Handler, Receive
  <2> QED
    BY <1>1, <2>3, HandlerStep
<1>3. CASE ~started[n]
  BY <1>1, <1>3, RecordStep, ZenonT(30) DEF Receive, processEnvelope
<1> QED
  BY <1>2, <1>3

(* A node never refuses its own statement.                                 *)
LEMMA OwnIsNewer ==
    ASSUME IInv, NEW n \in Node, own[n]
    PROVE  started[n] /\ isNewerStatement(latest[n][n], ownStatement(n))
  BY Zenon DEF IInv, Growing, Within, isNewerStatement

LEMMA ProcessOwnStep ==
    ASSUME IInv, NEW n \in Node, ProcessOwn(n)
    PROVE  \E V, A, C \in SUBSET Value : Handler(n, n, ownStatement(n), V, A, C)
<1>1. own[n] /\ started[n] /\ isNewerStatement(latest[n][n], ownStatement(n))
  BY OwnIsNewer, Zenon DEF ProcessOwn
<1>2. processEnvelope(n, n, ownStatement(n), [latest[n] EXCEPT ![n] = ownStatement(n)])
      /\ UNCHANGED <<driver, bad, crashes>>
  BY <1>1 DEF ProcessOwn
<1>3. ownStatement(n) \in Statement
  BY OwnIsStatement DEF IInv
<1>4. PICK V, A, C \in SUBSET Value :
            /\ Level(n, [latest[n] EXCEPT ![n] = ownStatement(n)], V, A, C)
            /\ Deeper(n, V, A, C) \/ Leave(n, ownStatement(n), V, A, C)
  BY <1>1, <1>2, <1>3, LevelStep, ZenonT(30) DEF IInv
<1>5. Handler(n, n, ownStatement(n), V, A, C)
  BY <1>1, <1>2, <1>4, ZenonT(30) DEF Handler
<1> QED
  BY <1>5

LEMMA NominateStep ==
    ASSUME IInv, NEW n \in Node, NEW value \in Value, NEW r \in 0..(Period - 1),
           ~own[n], nominate(n, value, r)
    PROVE  IInv'
<1>1. PICK P \in IF Leader[n][r] = n THEN {{value}}
                 ELSE IF Leader[n][r] = NoNode THEN {{}}
                 ELSE getNewValueFromNomination(n, latest[n][Leader[n][r]], votes[n]) :
            /\ votes' = [votes EXCEPT ![n] = @ \cup P]
            /\ own' = [own EXCEPT ![n] = ~(P \subseteq votes[n])]
  BY Zenon DEF nominate
<1>2. P \in SUBSET Value
  <2>1. CASE Leader[n][r] \in Node \ {n}
    <3>1. latest[n][Leader[n][r]] \in Statement /\ votes[n] \in SUBSET Value
      BY <2>1 DEF IInv, TypeOK
    <3>2. P \in getNewValueFromNomination(n, latest[n][Leader[n][r]], votes[n])
      BY <1>1, <2>1, NominationAssumption
    <3> QED
      BY <3>1, <3>2, NewValueType
  <2>2. CASE Leader[n][r] \notin Node \ {n}
    BY <1>1, <2>2, NominationAssumption
  <2> QED
    BY <2>1, <2>2
<1>3. TypeOK' /\ NeverBad'
  <2>1. votes' \in [Node -> SUBSET Value]
    BY <1>1, <1>2, ZenonT(30) DEF IInv, TypeOK
  <2>2. own' \in [Node -> BOOLEAN]
    BY <1>1 DEF IInv, TypeOK
  <2> QED
    BY <2>1, <2>2, ZenonT(30) DEF IInv, TypeOK, nominate, NeverBad
<1>4. \A k \in Node : /\ votes'[k] = IF k = n THEN votes[n] \cup P ELSE votes[k]
                      /\ votes[k] \subseteq votes'[k]
  BY <1>1 DEF IInv, TypeOK
<1>5. \A k \in Node : own'[k] = IF k = n THEN ~(P \subseteq votes[n]) ELSE own[k]
  BY <1>1 DEF IInv, TypeOK
<1>6. Growing'
  <2> SUFFICES ASSUME NEW k \in Node
               PROVE  /\ accepted'[k] \subseteq votes'[k]
                      /\ last'[k].accepted \subseteq last'[k].votes
                      /\ Within(last'[k], latest'[k][k])
                      /\ Within(latest'[k][k], ownStatement(k)')
                      /\ own'[k] => started'[k] /\ latest'[k][k] # ownStatement(k)'
                      /\ ~own'[k] => /\ latest'[k][k] = ownStatement(k)'
                                    /\ last'[k] = ownStatement(k)'
    BY Zenon DEF Growing, Within
  <2>1. accepted' = accepted /\ latest' = latest /\ last' = last
    BY DEF nominate
  <2>2. started'[k] = IF k = n THEN TRUE ELSE started[k]
    BY DEF nominate, IInv, TypeOK
  <2>3. CASE k # n
    <3>1. ownStatement(k)' = ownStatement(k)
      BY <1>4, <2>1, <2>3, ZenonT(30) DEF ownStatement
    <3> QED
      BY <1>4, <1>5, <2>1, <2>2, <2>3, <3>1, ZenonT(30) DEF IInv, Growing
  <2>4. CASE k = n
    <3>1. latest[n][n] = ownStatement(n) /\ last[n] = ownStatement(n)
          /\ accepted[n] \subseteq votes[n]
          /\ last[n].accepted \subseteq last[n].votes
      BY Zenon DEF IInv, Growing
    <3>2. ownStatement(n)' = [votes |-> votes[n] \cup P, accepted |-> accepted[n]]
      BY <1>4, <2>1, ZenonT(30) DEF ownStatement
    <3>3. Within(ownStatement(n), ownStatement(n)')
      BY <3>2, ZenonT(30) DEF Within, ownStatement
    <3>4. P \subseteq votes[n] => ownStatement(n)' = ownStatement(n)
      BY <3>2, ZenonT(30) DEF ownStatement
    <3>5. ~(P \subseteq votes[n]) => ownStatement(n)' # ownStatement(n)
      BY <3>2 DEF ownStatement
    <3>6. Within(ownStatement(n), ownStatement(n))
      BY DEF Within
    <3> QED
      BY <1>4, <1>5, <2>1, <2>2, <2>4, <3>1, <3>3, <3>4, <3>5, <3>6, ZenonT(30)
  <2> QED
    BY <2>3, <2>4, Zenon
<1>7. Heard'
  BY DEF IInv, Heard, nominate, Within
<1>8. HandedOver'
  <2>1. ~newCandidates[n]
    BY ZenonT(30) DEF IInv, HandedOver
  <2> QED
    BY <1>5, <2>1, ZenonT(30) DEF IInv, HandedOver, nominate
<1>9. CandidatesSent'
  BY ZenonT(30) DEF IInv, CandidatesSent, nominate
<1>10. AcceptedSent'
  <2>1. accepted' = accepted /\ last' = last
    BY ZenonT(30) DEF nominate
  <2>2. ASSUME NEW k \in Node, NEW v \in accepted[k]
        PROVE  \E h \in Node : \E Q \in Slices[h] : \A j \in Q :
                  /\ Q \in Slices[j]
                  /\ v \in last[j].votes \/ (j = k /\ v \in votes'[k])
    <3>1. PICK h \in Node : \E Q \in Slices[h] : \A j \in Q :
                  /\ Q \in Slices[j]
                  /\ v \in last[j].votes \/ (j = k /\ v \in votes[k])
      BY DEF IInv, AcceptedSent
    <3> QED
      BY <1>4, <3>1
  <2>3. \A k \in Node : \A v \in last[k].accepted :
            \E h \in Node : \E Q \in Slices[h] : \A j \in Q :
                Q \in Slices[j] /\ v \in last[j].votes
    BY Zenon DEF IInv, AcceptedSent
  <2> QED
    BY <2>1, <2>2, <2>3 DEF AcceptedSent
<1>11. HasValue'
  BY Zenon DEF IInv, TypeOK, HasValue, nominate
<1> QED
  BY <1>3, <1>6, <1>7, <1>8, <1>9, <1>10, <1>11, ZenonT(30) DEF IInv

LEMMA StopStep ==
    ASSUME IInv, NEW n \in Node, stopNomination(n)
    PROVE  IInv'
<1>1. \A k \in Node : started'[k] = IF k = n THEN FALSE ELSE started[k]
  BY DEF stopNomination, IInv, TypeOK
<1>2. TypeOK' /\ NeverBad'
  BY DEF stopNomination, values, IInv, TypeOK, NeverBad
<1>3. Growing'
  BY <1>1, ZenonT(30) DEF stopNomination, values, IInv, Growing, Within, ownStatement
<1>4. Heard' /\ HandedOver'
  BY ZenonT(30) DEF stopNomination, values, IInv, Heard, HandedOver, Within
<1>5. CandidatesSent' /\ AcceptedSent'
  BY DEF stopNomination, values, IInv, CandidatesSent, AcceptedSent
<1>6. HasValue'
  BY <1>1 DEF stopNomination, IInv, HasValue
<1> QED
  BY <1>2, <1>3, <1>4, <1>5, <1>6 DEF IInv

LEMMA RestartStep ==
    ASSUME IInv, NEW n \in Node, Restart(n)
    PROVE  IInv'
<1> USE DEF Restart, restored
<1>1. last' = last /\ sent' = sent /\ bad' = bad
  OBVIOUS
<1>2. \A k \in Node :
        /\ votes'[k] = IF k = n THEN last[n].votes ELSE votes[k]
        /\ accepted'[k] = IF k = n THEN last[n].accepted ELSE accepted[k]
        /\ candidates'[k] = IF k = n THEN {} ELSE candidates[k]
        /\ composite'[k] = IF k = n THEN {} ELSE composite[k]
  BY ZenonT(30) DEF IInv, TypeOK
<1>3. \A k \in Node : own'[k] = IF k = n THEN FALSE ELSE own[k]
  BY DEF IInv, TypeOK
<1>4. \A k \in Node : /\ started'[k] = IF k = n THEN FALSE ELSE started[k]
                      /\ newCandidates'[k] = IF k = n THEN FALSE ELSE newCandidates[k]
  BY DEF IInv, TypeOK
<1>5. \A k, j \in Node :
        latest'[k][j] = IF k = n THEN IF j = n THEN last[n] ELSE NoStatement
                        ELSE latest[k][j]
  BY DEF IInv, TypeOK
<1>6. last[n] \in Statement /\ NoStatement \in Statement
  BY DEF IInv, TypeOK, NoStatement, Statement
<1>7. TypeOK' /\ NeverBad'
  <2>1. /\ votes' \in [Node -> SUBSET Value]
        /\ accepted' \in [Node -> SUBSET Value]
        /\ candidates' \in [Node -> SUBSET Value]
        /\ composite' \in [Node -> SUBSET Value]
    BY <1>6 DEF IInv, TypeOK, Statement
  <2>2. latest' \in [Node -> [Node -> Statement]]
    BY <1>6 DEF IInv, TypeOK
  <2>3. own' \in [Node -> BOOLEAN]
    BY DEF IInv, TypeOK
  <2>4. started' \in [Node -> BOOLEAN] /\ newCandidates' \in [Node -> BOOLEAN]
    BY DEF IInv, TypeOK
  <2>5. /\ round' \in [Node -> 0..(Period - 1)]
        /\ nominating' \in [Node -> Value \cup {NoValue}]
        /\ crashes' \in Nat
    BY NominationAssumption DEF IInv, TypeOK
  <2> QED
    BY <2>1, <2>2, <2>3, <2>4, <2>5 DEF IInv, TypeOK, NeverBad
<1>8. ownStatement(n)' = last[n] /\ \A k \in Node \ {n} : ownStatement(k)' = ownStatement(k)
  BY <1>2, <1>6 DEF ownStatement, Statement
<1> HIDE DEF Restart, restored
<1>9. Growing'
  <2> SUFFICES ASSUME NEW k \in Node
               PROVE  /\ accepted'[k] \subseteq votes'[k]
                      /\ last'[k].accepted \subseteq last'[k].votes
                      /\ Within(last'[k], latest'[k][k])
                      /\ Within(latest'[k][k], ownStatement(k)')
                      /\ own'[k] => started'[k] /\ latest'[k][k] # ownStatement(k)'
                      /\ ~own'[k] => /\ latest'[k][k] = ownStatement(k)'
                                    /\ last'[k] = ownStatement(k)'
    BY Zenon DEF Growing, Within
  <2>1. CASE k # n
    <3>1. /\ votes'[k] = votes[k] /\ accepted'[k] = accepted[k] /\ last'[k] = last[k]
          /\ latest'[k][k] = latest[k][k] /\ ownStatement(k)' = ownStatement(k)
      BY <1>1, <1>2, <1>5, <1>8, <2>1, Zenon
    <3>2. own'[k] = own[k] /\ started'[k] = started[k]
      BY <1>3, <1>4, <2>1, Zenon
    <3> QED
      BY <3>1, <3>2, ZenonT(30) DEF IInv, Growing
  <2>2. CASE k = n
    <3>1. last[n].accepted \subseteq last[n].votes
      BY ZenonT(30) DEF IInv, Growing
    <3>2. Within(last[n], last[n])
      BY DEF Within
    <3> QED
      BY <1>1, <1>2, <1>3, <1>5, <1>8, <2>2, <3>1, <3>2, ZenonT(30)
  <2> QED
    BY <2>1, <2>2, Zenon
<1>10. Heard'
  <2>1. \A k \in Node : \A s \in sent'[k] : Within(s, last'[k])
    BY <1>1 DEF IInv, Heard
  <2>2. \A k \in Node : Within(NoStatement, last[k])
    BY DEF Within, NoStatement
  <2>3. \A k \in Node : \A j \in Node \ {k} : Within(latest'[j][k], last'[k])
    BY <1>1, <1>5, <2>2, ZenonT(30) DEF IInv, Heard
  <2> QED
    BY <2>1, <2>3, Zenon DEF Heard, Within
<1>11. HandedOver'
  <2> SUFFICES ASSUME NEW k \in Node
               PROVE  /\ newCandidates'[k] => own'[k]
                      /\ ~newCandidates'[k] => composite'[k] = candidates'[k]
    BY DEF HandedOver
  <2>1. /\ newCandidates[k] => own[k]
        /\ ~newCandidates[k] => composite[k] = candidates[k]
    BY DEF IInv, HandedOver
  <2> QED
    BY <1>2, <1>3, <1>4, <2>1, Zenon
<1>12. CandidatesSent'
  <2> SUFFICES ASSUME NEW k \in Node, NEW v \in candidates'[k]
               PROVE  \E Q \in Slices[k] : \A j \in Q :
                        /\ Q \in Slices[j]
                        /\ v \in last'[j].accepted \/ (j = k /\ v \in accepted'[k])
    BY DEF CandidatesSent
  <2>1. k # n /\ v \in candidates[k]
    BY <1>2
  <2>2. accepted'[k] = accepted[k]
    BY <1>2, <2>1
  <2> QED
    BY <1>1, <2>1, <2>2 DEF IInv, CandidatesSent
<1>13. AcceptedSent'
  <2> SUFFICES ASSUME NEW k \in Node, NEW v \in accepted'[k]
               PROVE  \E h \in Node : \E Q \in Slices[h] : \A j \in Q :
                        /\ Q \in Slices[j]
                        /\ v \in last'[j].votes \/ (j = k /\ v \in votes'[k])
    BY <1>1, ZenonT(30) DEF IInv, AcceptedSent
  <2>1. CASE k # n
    <3>1. votes'[k] = votes[k] /\ accepted'[k] = accepted[k]
      BY <1>2, <2>1
    <3> QED
      BY <1>1, <3>1 DEF IInv, AcceptedSent
  <2>2. CASE k = n
    <3>1. v \in last[n].accepted
      BY <1>2, <2>2
    <3>2. PICK h \in Node : \E Q \in Slices[h] : \A j \in Q :
                  Q \in Slices[j] /\ v \in last[j].votes
      BY <3>1 DEF IInv, AcceptedSent
    <3> QED
      BY <1>1, <3>2
  <2> QED
    BY <2>1, <2>2
<1>14. HasValue'
  <2>1. \A k \in Node \ {n} : nominating'[k] = nominating[k]
    BY DEF Restart, IInv, TypeOK
  <2> QED
    BY <1>4, <2>1, Zenon DEF IInv, HasValue
<1> QED
  BY <1>7, <1>9, <1>10, <1>11, <1>12, <1>13, <1>14 DEF IInv

LEMMA InitInvariant == Init => IInv
<1> SUFFICES ASSUME Init PROVE IInv
  OBVIOUS
<1> USE DEF Init
<1>1. TypeOK /\ NeverBad
  <2>1. 0 \in 0..Period - 1
    BY NominationAssumption
  <2>2. NoStatement \in Statement
    BY Zenon DEF NoStatement, Statement
  <2> QED
    BY <2>1, <2>2 DEF TypeOK, NeverBad
<1>2. Growing
  BY Zenon DEF Growing, Within, ownStatement, NoStatement
<1>3. Heard /\ HandedOver /\ HasValue
  BY Zenon DEF Heard, HandedOver, HasValue, Within
<1>4. CandidatesSent /\ AcceptedSent
  BY ZenonT(30) DEF CandidatesSent, AcceptedSent, NoStatement
<1> QED
  BY <1>1, <1>2, <1>3, <1>4 DEF IInv

LEMMA NextInvariant == IInv /\ [Next]_vars => IInv'
<1> SUFFICES ASSUME IInv, [Next]_vars PROVE IInv'
  OBVIOUS
<1>1. CASE \E n, m \in Node : \E st \in sent[m] : Receive(n, m, st)
  BY <1>1, ReceiveStep
<1>2. ASSUME NEW n \in Node, ProcessOwn(n)
      PROVE  IInv'
  <2>1. PICK V, A, C \in SUBSET Value : Handler(n, n, ownStatement(n), V, A, C)
    BY <1>2, ProcessOwnStep
  <2>2. ownStatement(n) \in Statement
    BY OwnIsStatement DEF IInv
  <2> QED
    BY <2>1, <2>2, HandlerStep
<1>3. ASSUME NEW n \in Node, Nominate(n)
      PROVE  IInv'
  <2>1. (round[n] + 1) % Period \in 0..(Period - 1)
    BY NominationAssumption DEF IInv, TypeOK
  <2>2. PICK v \in Proposals[n] \ votes[n] : nominate(n, v, (round[n] + 1) % Period)
    BY <1>3 DEF Nominate
  <2>3. v \in Value /\ ~own[n]
    BY <1>3, NominationAssumption DEF Nominate
  <2> QED
    BY <2>1, <2>2, <2>3, NominateStep, ZenonT(30)
<1>4. ASSUME NEW n \in Node, Timeout(n)
      PROVE  IInv'
  <2>1. (round[n] + 1) % Period \in 0..(Period - 1)
    BY NominationAssumption DEF IInv, TypeOK
  <2>2. nominating[n] \in Value /\ ~own[n]
    BY <1>4, Zenon DEF Timeout, IInv, HasValue
  <2>3. nominate(n, nominating[n], (round[n] + 1) % Period)
    BY <1>4 DEF Timeout
  <2> QED
    BY <2>1, <2>2, <2>3, NominateStep
<1>5. CASE \E n \in MayStop : stopNomination(n)
  BY <1>5, StopStep, NominationAssumption
<1>6. CASE \E n \in MayCrash : Restart(n)
  BY <1>6, RestartStep, NominationAssumption
<1>7. CASE UNCHANGED vars
  <2> USE <1>7 DEF vars, values, driver
  <2>1. TypeOK' /\ HasValue' /\ NeverBad'
    BY DEF IInv, TypeOK, HasValue, NeverBad
  <2>2. Growing'
    BY ZenonT(30) DEF IInv, Growing, ownStatement
  <2>3. Heard' /\ HandedOver'
    BY ZenonT(30) DEF IInv, Heard, HandedOver, Within
  <2>4. CandidatesSent' /\ AcceptedSent'
    BY DEF IInv, CandidatesSent, AcceptedSent
  <2> QED
    BY <2>1, <2>2, <2>3, <2>4 DEF IInv
<1> QED
  BY <1>1, <1>2, <1>3, <1>4, <1>5, <1>6, <1>7, Zenon DEF Next

LEMMA Invariance == Spec => []IInv
  BY InitInvariant, NextInvariant, PTL DEF Spec

-----------------------------------------------------------------------------
(* No statement of a node is ever refused by the node itself, so that      *)
(* emitNomination never throws "moved to a bad state (nomination)".        *)
THEOREM OwnStatementsValid == Spec => []NeverBad
<1>1. IInv => NeverBad
  BY DEF IInv
<1> QED
  BY <1>1, Invariance, PTL

(* All candidates are in the value that the ballot protocol works with     *)
(* when no handler runs (mLatestCompositeCandidate).                       *)
THEOREM AllCandidatesCombined == Spec => []CompositeIsCurrent
<1>1. IInv => CompositeIsCurrent
  BY DEF IInv, HandedOver, CompositeIsCurrent
<1> QED
  BY <1>1, Invariance, PTL

(* A candidate is accepted at all members of a quorum of its node, whoever *)
(* crashes.                                                                *)
THEOREM CandidatesAreAccepted == Spec => []CandidatesBacked
<1>1. IInv => CandidatesBacked
  <2> SUFFICES ASSUME IInv, NEW n \in Node, NEW v \in candidates[n]
               PROVE  \E Q \in Slices[n] : \A m \in Q :
                          Q \in Slices[m] /\ v \in accepted[m]
    BY DEF CandidatesBacked
  <2>1. PICK Q \in Slices[n] : \A m \in Q :
            /\ Q \in Slices[m]
            /\ v \in last[m].accepted \/ (m = n /\ v \in accepted[n])
    BY DEF IInv, CandidatesSent
  <2>2. Q \subseteq Node
    BY NominationAssumption
  <2>3. \A m \in Node : last[m].accepted \subseteq accepted[m]
    BY Zenon DEF IInv, Growing, Within, ownStatement
  <2> QED
    BY <2>1, <2>2, <2>3
<1> QED
  BY <1>1, Invariance, PTL

(* A value is only accepted with the votes of all members of a quorum,     *)
(* which a restart does not take back.                                     *)
THEOREM AcceptedHaveVotes == Spec => []AcceptedBacked
<1>1. IInv => AcceptedBacked
  <2> SUFFICES ASSUME IInv, NEW n \in Node, NEW v \in accepted[n]
               PROVE  \E k \in Node : \E Q \in Slices[k] : \A m \in Q :
                          Q \in Slices[m] /\ v \in votes[m]
    BY DEF AcceptedBacked
  <2>1. PICK k \in Node : \E Q \in Slices[k] : \A m \in Q :
            /\ Q \in Slices[m]
            /\ v \in last[m].votes \/ (m = n /\ v \in votes[n])
    BY DEF IInv, AcceptedSent
  <2>2. PICK Q \in Slices[k] : \A m \in Q :
            /\ Q \in Slices[m]
            /\ v \in last[m].votes \/ (m = n /\ v \in votes[n])
    BY <2>1
  <2>3. Q \subseteq Node
    BY NominationAssumption, ZenonT(30)
  <2>4. \A m \in Node : last[m].votes \subseteq votes[m]
    BY Zenon DEF IInv, Growing, Within, ownStatement
  <2> QED
    BY <2>2, <2>3, <2>4, ZenonT(30)
<1> QED
  BY <1>1, Invariance, PTL

(* A node never sends a statement that takes back part of an earlier one,  *)
(* although it may crash at any level of the nest.                         *)
THEOREM NothingTakenBack == Spec => StatementsGrow
<1>1. ASSUME IInv, [Next]_vars
      PROVE  [\A n \in Node : \A new \in sent'[n] \ sent[n] : \A old \in sent[n] :
                 isNewerStatement(old, new)]_vars
  <2> SUFFICES ASSUME Next, NEW n \in Node, NEW new \in sent'[n] \ sent[n],
                      NEW old \in sent[n]
               PROVE  isNewerStatement(old, new)
    BY <1>1
  <2>1. Within(old, last[n])
    BY <1>1 DEF IInv, Heard
  <2>2. ASSUME NEW k \in Node, NEW m \in Node, NEW st \in Statement,
               NEW V, NEW A, NEW C, Handler(k, m, st, V, A, C)
        PROVE  isNewerStatement(old, new)
    <3>1. \/ sent' = sent
          \/ Within(last[k], st) /\ sent' = [sent EXCEPT ![k] = @ \cup {st}]
      BY <1>1, <2>2, LastStep, ZenonT(30)
    <3>2. sent \in [Node -> SUBSET Statement]
      BY <1>1, Zenon DEF IInv, TypeOK
    <3>3. k = n /\ new = st /\ Within(last[n], st)
      BY <3>1, <3>2
    <3> QED
      BY <2>1, <3>3 DEF isNewerStatement, Within
  <2>3. ASSUME NEW k \in Node, NEW m \in Node, NEW st \in sent[m], Receive(k, m, st)
        PROVE  isNewerStatement(old, new)
    <3>1. st \in Statement
      BY <1>1, ZenonT(30) DEF IInv, TypeOK
    <3>2. CASE started[k]
      <4>1. processEnvelope(k, m, st, [latest[k] EXCEPT ![m] = st])
        BY <2>3, Zenon DEF Receive
      <4>2. PICK V, A, C \in SUBSET Value :
                /\ Level(k, [latest[k] EXCEPT ![m] = st], V, A, C)
                /\ Deeper(k, V, A, C) \/ Leave(k, st, V, A, C)
        BY <1>1, <3>1, <3>2, <4>1, LevelStep, ZenonT(30) DEF IInv
      <4>3. Handler(k, m, st, V, A, C)
        BY <2>3, <3>2, <4>2, Zenon DEF Handler, Receive
      <4> QED
        BY <2>2, <3>1, <4>3, Zenon
    <3>3. CASE ~started[k]
      BY <2>3, <3>3, Zenon DEF Receive, processEnvelope
    <3> QED
      BY <3>2, <3>3, ZenonT(30)
  <2>4. ASSUME NEW k \in Node, ProcessOwn(k)
        PROVE  isNewerStatement(old, new)
    <3>1. PICK V, A, C \in SUBSET Value : Handler(k, k, ownStatement(k), V, A, C)
      BY <1>1, <2>4, ProcessOwnStep, Zenon
    <3>2. ownStatement(k) \in Statement
      BY <1>1, OwnIsStatement, Zenon DEF IInv
    <3> QED
      BY <2>2, <3>1, <3>2, ZenonT(30)
  <2>5. ASSUME NEW k \in Node, Nominate(k) \/ Timeout(k) \/ stopNomination(k) \/ Restart(k)
        PROVE  FALSE
    BY <2>5, Zenon DEF Nominate, Timeout, nominate, stopNomination, Restart
  <2> QED
    BY <2>3, <2>4, <2>5, NominationAssumption, Zenon DEF Next
<1> QED
  BY <1>1, Invariance, PTL DEF Spec, StatementsGrow
=============================================================================
