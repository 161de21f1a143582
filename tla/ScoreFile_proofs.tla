-------------------------- MODULE ScoreFile_proofs ---------------------------
(***************************************************************************)
(* What holds of score.yaml for any number of matches and soldiers: the    *)
(* types, and that updates that do not overlap keep every score.           *)
(***************************************************************************)
EXTENDS ScoreFile, TLAPS

(* The scores match m has taken care of.                                   *)
Scores(m) == {m} \X counted[m]

(* Without overlap one match at most is updating.  It holds the document   *)
(* that it will write: every recorded score and all of its own; from the   *)
(* truncation to the write the file itself is empty.                       *)
Serial ==
    /\ ~torn
    /\ \A m \in Match : pc[m] # "ended"
    /\ \A m, n \in Match : Updating(m) /\ Updating(n) => m = n
    /\ \A m \in Match : Updating(m) => node[m] = recorded \cup Scores(m)
    /\ \A m \in Match : ~Updating(m) => Scores(m) \subseteq recorded
    /\ \A m \in Match : pc[m] = "opened" => file = {}
    /\ (\A m \in Match : pc[m] # "opened") => file = recorded

IInv == TypeOK /\ (~overlapped => Serial)

(* Before the first score nobody updates and everything is empty.          *)
LEMMA InitIInv == Init => IInv
<1> SUFFICES ASSUME Init PROVE IInv
  OBVIOUS
<1>1. TypeOK
  BY DEF Init, TypeOK, Entry
<1>2. Serial
  BY DEF Init, Serial, Updating, Scores
<1>3. QED
  BY <1>1, <1>2 DEF IInv

(* Every step keeps the types.                                             *)
LEMMA NextTypeOK == TypeOK /\ [Next]_vars => TypeOK'
<1> SUFFICES ASSUME TypeOK, [Next]_vars PROVE TypeOK'
  OBVIOUS
<1> USE DEF TypeOK, Entry
<1>1. ASSUME NEW m \in Match, NEW s \in Soldier, LoadScore(m, s) PROVE TypeOK'
  <2>1. \A content \in Contents : AddEntry(content, m, s) \in SUBSET Entry
    BY DEF Contents, AddEntry
  <2>2. node' \in [Match -> SUBSET Entry]
    BY <1>1, <2>1 DEF LoadScore
  <2>3. QED
    BY <1>1, <2>2 DEF LoadScore, Updating
<1>2. ASSUME NEW m \in Match, NEW s \in Soldier, LoadFails(m, s) PROVE TypeOK'
  BY <1>2 DEF LoadFails
<1>3. ASSUME NEW m \in Match, OpenScore(m) PROVE TypeOK'
  BY <1>3 DEF OpenScore
<1>4. ASSUME NEW m \in Match, WriteScore(m) PROVE TypeOK'
  <2>1. file' \in SUBSET Entry /\ recorded' \in SUBSET Entry
    BY <1>4 DEF WriteScore
  <2>2. torn' \in BOOLEAN
    BY <1>4 DEF WriteScore
  <2>3. pc' \in [Match -> {"play", "loaded", "opened", "ended"}]
    BY <1>4 DEF WriteScore
  <2>4. QED
    BY <1>4, <2>1, <2>2, <2>3 DEF WriteScore
<1>5. CASE UNCHANGED vars
  BY <1>5 DEF vars
<1>6. QED
  BY <1>1, <1>2, <1>3, <1>4, <1>5 DEF Next

(* Every step that does not overlap another update keeps the updates       *)
(* serial.                                                                 *)
LEMMA NextSerial == IInv /\ [Next]_vars /\ ~overlapped' => Serial'
<1> SUFFICES ASSUME IInv, [Next]_vars, ~overlapped' PROVE Serial'
  OBVIOUS
<1>0. TypeOK /\ Serial
  <2>1. ~overlapped
    BY DEF IInv, Next, LoadScore, LoadFails, OpenScore, WriteScore, vars
  <2>2. QED
    BY <2>1 DEF IInv
<1>1. ASSUME NEW m \in Match, NEW s \in Soldier, LoadScore(m, s) PROVE Serial'
  <2>1. \A n \in Match : ~Updating(n)
    BY <1>1 DEF LoadScore, Updating
  <2>2. file = recorded /\ Contents = {recorded}
    BY <1>0, <2>1 DEF Serial, Contents, Updating
  <2>3. /\ UNCHANGED <<file, torn, recorded>>
        /\ pc' = [pc EXCEPT ![m] = "loaded"]
        /\ counted' = [counted EXCEPT ![m] = @ \cup {s}]
        /\ node' = [node EXCEPT ![m] = recorded \cup {<<m, s>>}]
    BY <1>1, <2>2 DEF LoadScore, AddEntry
  <2>4. Updating(m)' /\ \A n \in Match \ {m} : ~Updating(n)' /\ Scores(n)' = Scores(n)
    BY <1>0, <2>1, <2>3 DEF Updating, Scores, TypeOK
  <2>5. node'[m] = (recorded \cup Scores(m))'
    BY <1>0, <2>1, <2>3 DEF Serial, Scores, TypeOK
  <2>6. \A n \in Match : pc'[n] # "opened" /\ pc'[n] # "ended"
    BY <1>0, <2>1, <2>3 DEF Serial, Updating, TypeOK
  <2>7. QED
    BY <1>0, <2>1, <2>2, <2>3, <2>4, <2>5, <2>6 DEF Serial
<1>2. ASSUME NEW m \in Match, NEW s \in Soldier, LoadFails(m, s) PROVE Serial'
  BY <1>0, <1>2 DEF LoadFails, Serial
<1>3. ASSUME NEW m \in Match, OpenScore(m) PROVE Serial'
  <2>1. \A n \in Match : Updating(n)' = Updating(n) /\ Scores(n)' = Scores(n)
    BY <1>0, <1>3 DEF OpenScore, Updating, Scores, TypeOK
  <2>2. pc'[m] = "opened" /\ \A n \in Match : pc'[n] # "ended"
    BY <1>0, <1>3 DEF OpenScore, Serial, TypeOK
  <2>3. QED
    BY <1>0, <1>3, <2>1, <2>2 DEF OpenScore, Serial
<1>4. ASSUME NEW m \in Match, WriteScore(m) PROVE Serial'
  <2>1. Updating(m) /\ \A n \in Match \ {m} : ~Updating(n)
    BY <1>0, <1>4 DEF WriteScore, Serial, Updating
  <2>2. /\ file' = recorded \cup Scores(m)
        /\ recorded' = recorded \cup Scores(m)
        /\ torn' = FALSE
    BY <1>0, <1>4, <2>1 DEF WriteScore, Serial, Scores
  <2>3. /\ pc' = [pc EXCEPT ![m] = "play"]
        /\ UNCHANGED <<node, counted>>
    BY <1>4 DEF WriteScore
  <2>4. \A n \in Match : ~Updating(n)' /\ pc'[n] \notin {"opened", "ended"}
    BY <1>0, <2>1, <2>3 DEF Serial, Updating, TypeOK
  <2>5. \A n \in Match : Scores(n)' = Scores(n) /\ Scores(n) \subseteq recorded'
    BY <1>0, <2>1, <2>2, <2>3 DEF Serial, Scores
  <2>6. QED
    BY <2>2, <2>3, <2>4, <2>5 DEF Serial
<1>5. CASE UNCHANGED vars
  BY <1>0, <1>5 DEF vars, Serial, Updating, Scores
<1>6. QED
  BY <1>1, <1>2, <1>3, <1>4, <1>5 DEF Next

(* The types, and the shape of serial updates, in every reachable state.   *)
THEOREM Invariance == Spec => []IInv
<1>1. IInv /\ [Next]_vars => IInv'
  BY NextTypeOK, NextSerial DEF IInv
<1>2. QED
  BY <1>1, InitIInv, PTL DEF Spec

(* The state of the score file stays within its types.                     *)
THEOREM TypeCorrect == Spec => []TypeOK
<1>1. IInv => TypeOK
  BY DEF IInv
<1>2. QED
  BY <1>1, Invariance, PTL

(* Updates that never overlap lose nothing: with one match at a time, as   *)
(* the mutex of match.h suggests, score.yaml holds every recorded score.   *)
THEOREM SerialUpdatesAreSafe == Spec => []SerialUpdatesKeepScores
<1>1. IInv => SerialUpdatesKeepScores
  BY DEF IInv, Serial, SerialUpdatesKeepScores, Updating
<1>2. QED
  BY <1>1, Invariance, PTL
==============================================================================
