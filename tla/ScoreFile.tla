------------------------------ MODULE ScoreFile ------------------------------
(***************************************************************************)
(* score.yaml: every match appends the score of each of its dead soldiers  *)
(* to one file that all the matches of the server share.                   *)
(* Match::updateScore reads the whole file, adds an entry and rewrites the *)
(* whole file, under a mutex that is a member of the Match: it excludes    *)
(* nobody, since a match has one Game thread.  The matches run in          *)
(* different Game threads, so their reads and rewrites interleave.         *)
(*                                                                         *)
(* An entry is a pair <<match, soldier>>.  The file is the set of entries  *)
(* it parses to, or it is torn, when two rewrites have overlaid each       *)
(* other: whether they do depends on byte lengths, which are not modelled. *)
(***************************************************************************)
EXTENDS Naturals, FiniteSets

CONSTANTS Match, Soldier

VARIABLES
    file,        \* score.yaml: a set of entries
    torn,        \* score.yaml is not the output of one rewrite
    pc,          \* [Match]: where its Game thread is in updateScore
    node,        \* [Match]: the YAML document the thread holds
    counted,     \* [Match]: the soldiers whose counted flag is set
    recorded,    \* history: the entries whose updateScore has returned
    overlapped   \* history: two updates have been in progress together

vars == <<file, torn, pc, node, counted, recorded, overlapped>>

Entry == Match \X Soldier

Init ==
    /\ file = {}
    /\ torn = FALSE
    /\ pc = [m \in Match |-> "play"]
    /\ node = [m \in Match |-> {}]
    /\ counted = [m \in Match |-> {}]
    /\ recorded = {}
    /\ overlapped = FALSE

Updating(m) == pc[m] \in {"loaded", "opened"}

(* What LoadFile may return: a torn file may also parse to a part of what  *)
(* was ever written to it.                                                 *)
Contents == IF torn THEN SUBSET recorded ELSE {file}

(* Mutant of AddEntry: what was loaded is dropped.                         *)
AddEntryAlone(content, m, s) == {<<m, s>>}

(* The document with one entry more.                                       *)
AddEntry(content, m, s) == content \cup {<<m, s>>}

(* delete_dead_soldiers() meets a dead soldier for the first time, and     *)
(* updateScore() loads the file and adds the entry to the document.        *)
LoadScore(m, s) ==
    /\ pc[m] = "play"
    /\ s \notin counted[m]
    /\ counted' = [counted EXCEPT ![m] = @ \cup {s}]
    /\ \E content \in Contents :
          node' = [node EXCEPT ![m] = AddEntry(content, m, s)]
    /\ pc' = [pc EXCEPT ![m] = "loaded"]
    /\ overlapped' = (overlapped \/ \E n \in Match \ {m} : Updating(n))
    /\ UNCHANGED <<file, torn, recorded>>

(* LoadFile throws on a torn file; Thread::main swallows the exception and *)
(* the Game thread of the match is gone.                                   *)
LoadFails(m, s) ==
    /\ pc[m] = "play"
    /\ s \notin counted[m]
    /\ torn
    /\ counted' = [counted EXCEPT ![m] = @ \cup {s}]
    /\ pc' = [pc EXCEPT ![m] = "ended"]
    /\ UNCHANGED <<file, torn, node, recorded, overlapped>>

(* std::ofstream fout(...): the file is truncated.                         *)
OpenScore(m) ==
    /\ pc[m] = "loaded"
    /\ file' = {}
    /\ torn' = FALSE
    /\ pc' = [pc EXCEPT ![m] = "opened"]
    /\ UNCHANGED <<node, counted, recorded, overlapped>>

(* fout << score and its destructor: the document is written from offset   *)
(* zero, over whatever another match has written since the truncation.     *)
WriteScore(m) ==
    /\ pc[m] = "opened"
    /\ file' = node[m]
    /\ torn' \in (IF file = {} THEN {FALSE} ELSE BOOLEAN)
    /\ pc' = [pc EXCEPT ![m] = "play"]
    /\ recorded' = recorded \cup ({m} \X counted[m])
    /\ UNCHANGED <<node, counted, overlapped>>

Next ==
    \E m \in Match :
        \/ \E s \in Soldier : LoadScore(m, s) \/ LoadFails(m, s)
        \/ OpenScore(m)
        \/ WriteScore(m)

Spec == Init /\ [][Next]_vars
------------------------------------------------------------------------------
(* Type invariant.                                                         *)
TypeOK ==
    /\ file \in SUBSET Entry
    /\ torn \in BOOLEAN
    /\ pc \in [Match -> {"play", "loaded", "opened", "ended"}]
    /\ node \in [Match -> SUBSET Entry]
    /\ counted \in [Match -> SUBSET Soldier]
    /\ recorded \in SUBSET Entry
    /\ overlapped \in BOOLEAN

(* As long as no two matches update at the same time, every score that was *)
(* recorded is in the file whenever the file is at rest, the file is whole *)
(* and no match is lost to a parse error (match.cpp:111-130).              *)
SerialUpdatesKeepScores ==
    ~overlapped =>
        /\ \A m \in Match : pc[m] # "ended"
        /\ ~torn
        /\ (\A m \in Match : ~Updating(m)) => file = recorded

(* match.h:56, "para la carga de scores en el archivo", and                *)
(* docs/Features.odt, "Persistencia": the mutex makes the update safe, a   *)
(* score that was recorded stays in the file.  Violated by two matches.    *)
ScoresPersist ==
    (\A m \in Match : ~Updating(m)) => ~torn /\ recorded \subseteq file
==============================================================================
