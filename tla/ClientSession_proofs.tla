------------------------ MODULE ClientSession_proofs -------------------------
(***************************************************************************)
(* Proofs about ClientSession, for any capacities of its queues and of the *)
(* socket: what each end reads is what it expects, whatever lies between.  *)
(***************************************************************************)
EXTENDS ClientSession, SequenceTheorems, TLAPS

Only(s, S) == \A i \in 1..Len(s) : s[i] \in S

(* The first element of s is a, the others are in S.                       *)
Leads(s, a, S) == s # <<>> /\ s[1] = a /\ \A i \in 2..Len(s) : s[i] \in S

(* Nothing is on its way to the server; the request m is, alone; nothing   *)
(* but commands is.                                                        *)
NothingUp == actions = <<>> /\ action = "none" /\ toServer = <<>>

AloneUp(m) ==
    \/ actions = <<m>> /\ action = "none" /\ toServer = <<>>
    \/ actions = <<>> /\ action = m /\ toServer = <<>>
    \/ actions = <<>> /\ action = "none" /\ toServer = <<m>>

CommandsUp ==
    Only(actions, Commands) /\ action \in Commands \cup {"none"} /\ Only(toServer, Commands)

(* All that is on its way to the client is in S; it is the answer a, and   *)
(* what follows it is in S.                                                *)
Down(S) ==
    /\ Only(feedback, S) /\ feed \in S \cup {"none"}
    /\ Only(toClient, S) /\ Only(out, S)

DownAfter(a, S) ==
    \/ /\ Leads(feedback, a, S) /\ feed \in S \cup {"none"}
       /\ Only(toClient, S) /\ Only(out, S)
    \/ feedback = <<>> /\ feed = a /\ Only(toClient, S) /\ Only(out, S)
    \/ feedback = <<>> /\ feed = "none" /\ Leads(toClient, a, S) /\ Only(out, S)
    \/ feedback = <<>> /\ feed = "none" /\ toClient = <<>> /\ Leads(out, a, S)

Asked == IF page = "main" THEN "join" ELSE "create"
LetIn == IF page = "main" THEN "joined" ELSE "created"

(* The session before the server has let the client in: one message is on  *)
(* its way at most, and then the window waits.                             *)
Before ==
    game = "none" =>
        /\ srv # "play" /\ ~member
        /\ gui \notin {"game", "key", "escape", "stats"}
        /\ gui = "lobby" => page \in {"main", "difficulty"}
        /\ \/ NothingUp /\ Down({})
           \/ gui = "answer" /\ (\E m \in Requests : m = Asked /\ AloneUp(m)) /\ Down({})
           \/ gui = "answer" /\ page = "main" /\ NothingUp /\ DownAfter("notjoined", {})

(* And from then on.                                                       *)
After ==
    game # "none" =>
        /\ srv # "lobby"
        /\ gui = "lobby" => NothingUp /\ page \in {"code", "pick"}
        /\ gui = "answer" =>
              NothingUp /\ \E a \in Answers : a = LetIn /\ DownAfter(a, Updates)
        /\ gui # "answer" => CommandsUp /\ Down(Updates)

(* A Receiver that has ended with its socket open ended in the lobby.      *)
EndedEarly == srv = "dead" /\ conn = "open" => game = "none" /\ out = <<>>

Ranges ==
    /\ srv \in {"lobby", "play", "held", "dead", "reaped"}
    /\ srv = "reaped" => conn = "cut"
    /\ gui = "answer" => page \in {"main", "code"}
    /\ fbClosed => gui \in {"stop", "join", "done"}

Session == Ranges /\ Before /\ After /\ EndedEarly

IInv == TypeOK /\ Session

USE DEF guiVars, sndVars, rcvVars, wires, srvVars, clientSide, Requests, Commands, Answers,
        Updates

------------------------------------------------------------------------------
(* Sequences *)

LEMMA BoundedSeqIs ==
  ASSUME NEW S, NEW n \in Nat, NEW s
  PROVE  s \in BoundedSeq(S, n) <=> s \in Seq(S) /\ Len(s) <= n
<1>1. ASSUME s \in BoundedSeq(S, n)
      PROVE  s \in Seq(S) /\ Len(s) <= n
  <2>1. PICK m \in 0..n : s \in [1..m -> S]
    BY <1>1 DEF BoundedSeq, SeqOf
  <2>2. m \in Nat /\ m <= n
    BY <2>1
  <2>3. s \in Seq(S) /\ Len(s) = m
    BY <2>1, <2>2
  <2> QED  BY <2>2, <2>3
<1>2. ASSUME s \in Seq(S), Len(s) <= n
      PROVE  s \in BoundedSeq(S, n)
  <2>1. Len(s) \in 0..n /\ s \in [1..Len(s) -> S]
    BY <1>2, LenProperties
  <2> QED  BY <2>1 DEF BoundedSeq, SeqOf
<1> QED  BY <1>1, <1>2

LEMMA BoundedAppend ==
  ASSUME NEW S, NEW n \in Nat, NEW s \in BoundedSeq(S, n), Len(s) < n, NEW x \in S
  PROVE  Append(s, x) \in BoundedSeq(S, n)
<1>1. s \in Seq(S)
  BY BoundedSeqIs
<1>2. Append(s, x) \in Seq(S) /\ Len(Append(s, x)) = Len(s) + 1 /\ Len(s) \in Nat
  BY <1>1, AppendProperties, LenProperties
<1>3. Len(Append(s, x)) <= n
  BY <1>2
<1> QED  BY <1>2, <1>3, BoundedSeqIs

LEMMA BoundedTail ==
  ASSUME NEW S, NEW n \in Nat, NEW s \in BoundedSeq(S, n), s # <<>>
  PROVE  Head(s) \in S /\ Tail(s) \in BoundedSeq(S, n)
<1>1. s \in Seq(S) /\ Len(s) <= n /\ Len(s) \in Nat
  BY BoundedSeqIs, LenProperties
<1>2. Head(s) \in S /\ Tail(s) \in Seq(S) /\ Len(Tail(s)) = Len(s) - 1
  BY <1>1, HeadTailProperties
<1>3. Len(Tail(s)) <= n
  BY <1>1, <1>2
<1> QED  BY <1>2, <1>3, BoundedSeqIs

LEMMA OnlyAppend ==
  ASSUME NEW T, NEW s \in Seq(T), NEW x \in T, NEW S
  PROVE  /\ Append(s, x) \in Seq(T) /\ Append(s, x) # <<>>
         /\ Only(s, S) /\ x \in S => Only(Append(s, x), S)
         /\ \A a : Leads(s, a, S) /\ x \in S => Leads(Append(s, x), a, S)
         /\ s = <<>> => Leads(Append(s, x), x, S) /\ Append(s, x) = <<x>>
<1>1. /\ Append(s, x) \in Seq(T)
      /\ Len(s) \in Nat
      /\ Len(Append(s, x)) = Len(s) + 1
      /\ Append(s, x)[Len(s) + 1] = x
      /\ \A i \in 1..Len(s) : Append(s, x)[i] = s[i]
  BY AppendProperties, LenProperties
<1>2. Append(s, x) # <<>>
  BY <1>1, EmptySeq
<1>3. s = <<>> => Append(s, x) = <<x>>
  OBVIOUS
<1>4. Only(s, S) /\ x \in S => Only(Append(s, x), S)
  BY <1>1 DEF Only
<1>5. ASSUME NEW a, Leads(s, a, S), x \in S
      PROVE  Leads(Append(s, x), a, S)
  <2>1. 1 \in 1..Len(s)
    BY <1>1, <1>5, EmptySeq DEF Leads
  <2> QED  BY <1>1, <1>2, <1>5, <2>1 DEF Leads
<1>6. s = <<>> => Leads(Append(s, x), x, S)
  BY <1>1, <1>2, EmptySeq DEF Leads
<1> QED  BY <1>1, <1>2, <1>3, <1>4, <1>5, <1>6

LEMMA OnlyTail ==
  ASSUME NEW T, NEW s \in Seq(T), s # <<>>, NEW S
  PROVE  /\ Tail(s) \in Seq(T) /\ Head(s) = s[1]
         /\ Only(s, S) => Head(s) \in S /\ Only(Tail(s), S)
         /\ \A a : Leads(s, a, S) => Head(s) = a /\ Only(Tail(s), S)
         /\ \A a : s = <<a>> => Head(s) = a /\ Tail(s) = <<>>
<1>1. /\ Tail(s) \in Seq(T)
      /\ Len(s) \in Nat /\ Len(s) # 0
      /\ Len(Tail(s)) = Len(s) - 1
      /\ \A i \in 1..Len(Tail(s)) : Tail(s)[i] = s[i + 1]
      /\ Head(s) = s[1]
  BY HeadTailProperties, LenProperties, EmptySeq
<1>2. Only(s, S) => Head(s) \in S /\ Only(Tail(s), S)
  BY <1>1 DEF Only
<1>3. ASSUME NEW a, Leads(s, a, S)
      PROVE  Head(s) = a /\ Only(Tail(s), S)
  BY <1>1, <1>3 DEF Leads, Only
<1>4. \A a : Tail(<<a>>) = <<>>
  OBVIOUS
<1> QED  BY <1>1, <1>2, <1>3, <1>4

LEMMA OnlyNone ==
  ASSUME NEW T, NEW s \in Seq(T)
  PROVE  Only(s, {}) <=> s = <<>>
<1>1. Len(s) \in Nat /\ (Len(s) = 0 <=> s = <<>>)
  BY LenProperties, EmptySeq
<1>2. Len(s) # 0 => 1 \in 1..Len(s)
  BY <1>1
<1> QED  BY <1>1, <1>2 DEF Only

LEMMA OnlyEmpty == \A S : Only(<<>>, S) /\ Len(<<>>) = 0
BY DEF Only

------------------------------------------------------------------------------
(* Types *)

LEMMA TypeStep ==
  ASSUME TypeOK, [Next]_vars
  PROVE  TypeOK'
<1> DEFINE Up == Requests \cup Commands
           Dn == Answers \cup Updates
<1>0. /\ ActionsCap \in Nat /\ FeedbackCap \in Nat /\ OutCap \in Nat /\ WireCap \in Nat
      /\ actions \in BoundedSeq(Up, ActionsCap) /\ toServer \in BoundedSeq(Up, WireCap)
      /\ feedback \in BoundedSeq(Dn, FeedbackCap) /\ toClient \in BoundedSeq(Dn, WireCap)
      /\ out \in BoundedSeq(Dn, OutCap)
      /\ <<>> \in BoundedSeq(Dn, FeedbackCap)
  <2>1. {ActionsCap, FeedbackCap, OutCap, WireCap} \subseteq Nat
    BY CapAssumption
  <2>2. <<>> \in Seq(Dn) /\ Len(<<>>) = 0
    BY EmptySeq
  <2>3. FeedbackCap \in Nat /\ Len(<<>>) <= FeedbackCap
    BY <2>1, <2>2
  <2>4. <<>> \in BoundedSeq(Dn, FeedbackCap)
    BY <2>2, <2>3, BoundedSeqIs
  <2> QED  BY <2>1, <2>4 DEF TypeOK
<1>1. ASSUME NEW m \in Up, Push(m)
      PROVE  actions' \in BoundedSeq(Up, ActionsCap)
  BY <1>0, <1>1, BoundedAppend DEF Push
<1>2. CASE ClickJoin \/ ClickDifficulty \/ ClickSoldier \/ Pressed
  <2>1. actions' \in BoundedSeq(Up, ActionsCap)
    BY <1>1, <1>2 DEF ClickJoin, ClickDifficulty, Ask, ClickSoldier, Pressed
  <2> QED  BY <1>2, <2>1 DEF TypeOK, ClickJoin, ClickDifficulty, Ask, ClickSoldier, Pressed
<1>3. CASE \/ PressKey \/ PressEscape \/ ClickCreate \/ ClickContinue \/ CloseWindow \/ CloseStats \/ StopReceiver
           \/ CloseFeedback \/ StopSender \/ ClientEnds
  BY <1>3 DEF TypeOK, PressKey, PressEscape, PressTo, ClickCreate, ClickContinue, Turn, CloseWindow, CloseStats, StopReceiver,
     CloseFeedback, StopSender, ClientEnds
<1>4. CASE TakeAnswer
  <2>1. feedback' \in BoundedSeq(Dn, FeedbackCap)
    BY <1>0, <1>4, BoundedTail DEF TakeAnswer
  <2> QED  BY <1>4, <2>1 DEF TypeOK, TakeAnswer
<1>5. CASE Frame
  <2>1. feedback' \in BoundedSeq(Dn, FeedbackCap)
    BY <1>0, <1>5 DEF Frame
  <2>2. gui' \in {"stats", "leave", "game"}
    BY <1>5 DEF Frame
  <2> QED  BY <1>5, <2>1, <2>2 DEF TypeOK, Frame
<1>6. CASE ClientSender
  <2>1. CASE SenderPops
    <3>1. Head(actions) \in Up /\ Tail(actions) \in BoundedSeq(Up, ActionsCap)
      BY <1>0, <2>1, BoundedTail DEF SenderPops
    <3> QED  BY <2>1, <3>1 DEF TypeOK, SenderPops, SenderMoves
  <2>2. CASE SenderSends
    <3>1. action \in Up
      BY <2>2 DEF TypeOK, SenderSends
    <3>2. Append(toServer, action) \in BoundedSeq(Up, WireCap)
      BY <1>0, <2>2, <3>1, BoundedAppend DEF SenderSends
    <3> QED  BY <2>2, <3>2 DEF TypeOK, SenderSends, SenderMoves
  <2>3. CASE SenderEnds
    BY <2>3 DEF TypeOK, SenderEnds, SenderMoves
  <2> QED  BY <1>6, <2>1, <2>2, <2>3 DEF ClientSender
<1>7. CASE ClientReceiver
  <2>1. CASE Receives
    <3>1. Head(toClient) \in Dn /\ Tail(toClient) \in BoundedSeq(Dn, WireCap)
      BY <1>0, <2>1, BoundedTail DEF Receives
    <3> QED  BY <2>1, <3>1 DEF TypeOK, Receives, ReceiverMoves
  <2>2. CASE ReceiverPushes
    <3>1. feed \in Dn
      BY <2>2 DEF TypeOK, ReceiverPushes
    <3>2. Len(feedback) < FeedbackCap => Append(feedback, feed) \in BoundedSeq(Dn, FeedbackCap)
      BY <1>0, <3>1, BoundedAppend
    <3>3. CASE Len(feedback) < FeedbackCap
      BY <2>2, <3>2, <3>3 DEF TypeOK, ReceiverPushes, ReceiverMoves
    <3>4. CASE ~(Len(feedback) < FeedbackCap)
      BY <2>2, <3>1, <3>4 DEF TypeOK, ReceiverPushes, ReceiverMoves
    <3> QED  BY <3>3, <3>4
  <2>3. CASE ReceiverEnds
    BY <2>3 DEF TypeOK, ReceiverEnds, ReceiverMoves
  <2> QED  BY <1>7, <2>1, <2>2, <2>3 DEF ClientReceiver
<1>8. CASE ServeCreate \/ ServeJoin \/ ServePlay
  <2>1. toServer # <<>> /\ toServer' = Tail(toServer) /\ UNCHANGED <<clientSide, toClient>>
    BY <1>8 DEF ServeCreate, ServeJoin, ServePlay, ServerReceives
  <2>2. toServer' \in BoundedSeq(Up, WireCap)
    BY <1>0, <2>1, BoundedTail
  <2>3. \A a \in Dn : Len(out) < OutCap => Append(out, a) \in BoundedSeq(Dn, OutCap)
    BY <1>0, BoundedAppend
  <2>4. out' \in BoundedSeq(Dn, OutCap)
    BY <1>0, <1>8, <2>3 DEF ServeCreate, ServeJoin, ServePlay, Answer
  <2> QED  BY <2>1, <2>2, <2>4 DEF TypeOK
<1>9. CASE ServerSends
  <2>1. Head(out) \in Dn /\ Tail(out) \in BoundedSeq(Dn, OutCap)
    BY <1>0, <1>9, BoundedTail DEF ServerSends
  <2>2. Append(toClient, Head(out)) \in BoundedSeq(Dn, WireCap)
    BY <1>0, <1>9, <2>1, BoundedAppend DEF ServerSends
  <2> QED  BY <1>9, <2>1, <2>2 DEF TypeOK, ServerSends
<1>10. ASSUME NEW f \in Updates, GameSends(f)
       PROVE  TypeOK'
  <2>1. Len(out) < OutCap => Append(out, f) \in BoundedSeq(Dn, OutCap)
    BY <1>0, BoundedAppend
  <2>2. out' \in BoundedSeq(Dn, OutCap)
    BY <1>0, <1>10, <2>1 DEF GameSends
  <2> QED  BY <1>10, <2>2 DEF TypeOK, GameSends
<1>11. CASE \/ ServerLoses \/ ServerSenderEnds \/ ReapStops \/ ReapJoins \/ ServerQuits
            \/ UNCHANGED vars
  BY <1>11 DEF TypeOK, ServerLoses, ServerSenderEnds, ReapStops, ReapJoins, ServerQuits, vars
<1> QED  BY <1>2, <1>3, <1>4, <1>5, <1>6, <1>7, <1>8, <1>9, <1>10, <1>11
         DEF Next, User, Gui, ServerReceiver, ServerSender

------------------------------------------------------------------------------
(* The session *)

LEMMA Typed ==
  ASSUME TypeOK
  PROVE  /\ actions \in Seq(Requests \cup Commands) /\ toServer \in Seq(Requests \cup Commands)
         /\ feedback \in Seq(Answers \cup Updates) /\ toClient \in Seq(Answers \cup Updates)
         /\ out \in Seq(Answers \cup Updates)
         /\ Len(feedback) \in Nat
<1>1. {ActionsCap, FeedbackCap, OutCap, WireCap} \subseteq Nat
  BY CapAssumption
<1>2. ActionsCap \in Nat /\ FeedbackCap \in Nat /\ OutCap \in Nat /\ WireCap \in Nat
  BY <1>1
<1> QED  BY <1>2, BoundedSeqIs, LenProperties DEF TypeOK

(* A feedback moves on towards the window: the order is kept.              *)
LEMMA DownMoves ==
  ASSUME TypeOK, Ranges, ClientReceiver \/ ServerSends, NEW S
  PROVE  /\ Down(S) => Down(S)'
         /\ \A a \in Answers : gui = "answer" /\ DownAfter(a, S) => DownAfter(a, S)'
<1> DEFINE Dn == Answers \cup Updates
<1>0. /\ feedback \in Seq(Dn) /\ toClient \in Seq(Dn) /\ out \in Seq(Dn)
      /\ feed \in Dn \cup {"none"} /\ (rcv \in {"push", "wait"} <=> feed # "none")
  BY Typed DEF TypeOK
<1>1. Only(<<>>, S)
  BY OnlyEmpty
<1>2. CASE Receives
  <2>1. /\ feed = "none" /\ toClient # <<>> /\ feed' = Head(toClient)
        /\ toClient' = Tail(toClient) /\ UNCHANGED <<feedback, out>>
    BY <1>0, <1>2 DEF Receives, ReceiverMoves
  <2>2. /\ Only(toClient, S) => feed' \in S /\ Only(toClient', S)
        /\ \A a : Leads(toClient, a, S) => feed' = a /\ Only(toClient', S)
    BY <1>0, <2>1, OnlyTail
  <2> QED  BY <2>1, <2>2 DEF Down, DownAfter
<1>3. CASE ReceiverPushes
  <2>1. /\ feed # "none" /\ feed \in Dn /\ UNCHANGED <<toClient, out>>
        /\ \/ feedback' = Append(feedback, feed) /\ feed' = "none"
           \/ UNCHANGED <<feedback, feed>>
    BY <1>0, <1>3 DEF ReceiverPushes, ReceiverMoves
  <2>2. /\ Only(feedback, S) /\ feed \in S => Only(Append(feedback, feed), S)
        /\ \A a : Leads(feedback, a, S) /\ feed \in S => Leads(Append(feedback, feed), a, S)
        /\ feedback = <<>> => Leads(Append(feedback, feed), feed, S)
    BY <1>0, <2>1, OnlyAppend
  <2> QED  BY <2>1, <2>2 DEF Down, DownAfter
<1>4. CASE ReceiverEnds
  <2>1. /\ UNCHANGED <<feedback, toClient, out>> /\ feed' = "none"
        /\ feed = "none" \/ gui # "answer"
    BY <1>0, <1>4 DEF ReceiverEnds, ReceiverMoves, Ranges
  <2> QED  BY <2>1 DEF Down, DownAfter
<1>5. CASE ServerSends
  <2>1. /\ out # <<>> /\ out' = Tail(out) /\ toClient' = Append(toClient, Head(out))
        /\ UNCHANGED <<feedback, feed>>
    BY <1>5 DEF ServerSends
  <2>2. /\ Only(out, S) => Head(out) \in S /\ Only(out', S)
        /\ \A a : Leads(out, a, S) => Head(out) = a /\ Only(out', S)
    BY <1>0, <2>1, OnlyTail
  <2>3. Head(out) \in Dn
    BY <1>0, <2>1, HeadTailProperties
  <2>4. /\ Only(toClient, S) /\ Head(out) \in S => Only(toClient', S)
        /\ \A a : Leads(toClient, a, S) /\ Head(out) \in S => Leads(toClient', a, S)
        /\ toClient = <<>> => Leads(toClient', Head(out), S)
    BY <1>0, <2>1, <2>3, OnlyAppend
  <2> QED  BY <2>1, <2>2, <2>4 DEF Down, DownAfter
<1> QED  BY <1>2, <1>3, <1>4, <1>5 DEF ClientReceiver

(* An update is added behind what is there.                                *)
LEMMA DownGrows ==
  ASSUME TypeOK, NEW f \in Updates, UNCHANGED <<feedback, feed, toClient>>,
         out' = out \/ out' = Append(out, f)
  PROVE  /\ Down(Updates) => Down(Updates)'
         /\ \A a \in Answers : DownAfter(a, Updates) => DownAfter(a, Updates)'
<1>0. out \in Seq(Answers \cup Updates) /\ f \in Answers \cup Updates
  BY Typed
<1>1. /\ Only(out, Updates) => Only(Append(out, f), Updates)
      /\ \A a : Leads(out, a, Updates) => Leads(Append(out, f), a, Updates)
  BY <1>0, OnlyAppend
<1> QED  BY <1>1 DEF Down, DownAfter

(* A step that leaves the messages, the page and the game as they are.     *)
LEMMA SessionKept ==
  ASSUME Session, gui' = gui \/ gui' \notin {"lobby", "answer", "game", "key", "escape", "stats"},
         gui' = gui \/ gui # "answer",
         UNCHANGED <<page, actions, action, toServer, feedback, feed, toClient, out, srv,
                     game, member>>,
         conn' \in {conn, "cut"}, fbClosed' => gui' \in {"stop", "join", "done"}
  PROVE  Session'
<1>1. /\ NothingUp' <=> NothingUp
      /\ CommandsUp' <=> CommandsUp
      /\ \A m \in Requests : AloneUp(m)' <=> AloneUp(m)
      /\ Down({})' <=> Down({})
      /\ Down(Updates)' <=> Down(Updates)
      /\ DownAfter("notjoined", {})' <=> DownAfter("notjoined", {})
      /\ \A a \in Answers : DownAfter(a, Updates)' <=> DownAfter(a, Updates)
      /\ Asked' = Asked /\ LetIn' = LetIn
  BY DEF NothingUp, CommandsUp, AloneUp, Down, DownAfter, Asked, LetIn
<1>2. Ranges'
  BY DEF Session, Ranges
<1>3. Before'
  BY <1>1 DEF Session, Before
<1>4. After'
  BY <1>1 DEF Session, After
<1>5. EndedEarly'
  BY DEF Session, EndedEarly, Ranges
<1> QED  BY <1>2, <1>3, <1>4, <1>5 DEF Session

(* A request is the only message on its way; so is an answer.              *)
LEMMA RequestAlone ==
  ASSUME TypeOK, Session, game = "none", toServer # <<>>
  PROVE  /\ gui = "answer" /\ Head(toServer) = Asked /\ Tail(toServer) = <<>>
         /\ actions = <<>> /\ action = "none"
         /\ feedback = <<>> /\ feed = "none" /\ toClient = <<>> /\ out = <<>>
         /\ ~member
<1>1. PICK m \in Requests : m = Asked /\ AloneUp(m) /\ gui = "answer" /\ Down({})
  BY DEF Session, Before, NothingUp
<1>2. toServer = <<m>> /\ actions = <<>> /\ action = "none"
  BY <1>1 DEF AloneUp
<1>3. Head(toServer) = m /\ Tail(toServer) = <<>>
  BY <1>2, Typed, OnlyTail
<1>4. feedback = <<>> /\ toClient = <<>> /\ out = <<>>
  BY <1>1, Typed, OnlyNone DEF Down
<1>5. feed = "none"
  BY <1>1 DEF Down
<1> QED  BY <1>1, <1>2, <1>3, <1>4, <1>5 DEF Session, Before

LEMMA AskStep ==
  ASSUME TypeOK, Session, NEW m \in Requests, Ask(m),
         gui = "lobby", page \in {"main", "difficulty"},
         m = (IF page = "main" THEN "join" ELSE "create"),
         page' = IF page = "main" THEN "main" ELSE "code"
  PROVE  Session'
<1>1. game = "none" /\ NothingUp /\ Down({})
  BY DEF Session, Before, After
<1>2. actions' = <<m>> /\ action' = "none" /\ toServer' = <<>>
  <2>1. actions' = Append(<<>>, m)
    BY <1>1 DEF Ask, Push, NothingUp
  <2> QED  BY <1>1, <2>1 DEF Ask, NothingUp
<1>3. Down({})'
  BY <1>1 DEF Down, Ask
<1>4. m = Asked' /\ AloneUp(m)'
  BY <1>2 DEF Asked, AloneUp
<1>5. gui' = "answer" /\ UNCHANGED <<srv, game, member, conn, fbClosed, out>>
  BY DEF Ask
<1>6. Before'
  BY <1>1, <1>3, <1>4, <1>5 DEF Session, Before
<1>7. After' /\ EndedEarly' /\ Ranges'
  BY <1>1, <1>5 DEF Session, After, EndedEarly, Ranges
<1> QED  BY <1>6, <1>7 DEF Session

LEMMA CommandStep ==
  ASSUME TypeOK, Session, NEW m \in Commands, Push(m),
         gui \in {"lobby", "key", "escape"}, gui = "lobby" => page = "pick", gui' = "game",
         page' = page,
         UNCHANGED <<sndVars, feedback, fbClosed, rcvVars, conn, wires, srvVars>>
  PROVE  Session'
<1>1. game # "none" /\ CommandsUp /\ Down(Updates)
  BY DEF Session, Before, After
<1>2. actions \in Seq(Requests \cup Commands) /\ m \in Requests \cup Commands
  BY Typed
<1>3. Only(actions', Commands)
  BY <1>1, <1>2, OnlyAppend DEF Push, CommandsUp
<1>4. CommandsUp' /\ Down(Updates)'
  BY <1>1, <1>3 DEF CommandsUp, Down
<1>5. After' /\ Before'
  BY <1>1, <1>4 DEF Session, After, Before
<1>6. EndedEarly' /\ Ranges'
  BY <1>1 DEF Session, EndedEarly, Ranges
<1> QED  BY <1>5, <1>6 DEF Session

LEMMA PressStep ==
  ASSUME Session, NEW where \in {"key", "escape"}, PressTo(where)
  PROVE  Session'
<1>1. /\ gui = "game" /\ gui' = where
      /\ UNCHANGED <<page, actions, action, toServer, feedback, feed, toClient, out, srv, game,
                     member, conn, fbClosed>>
  BY DEF PressTo
<1>2. game # "none" /\ CommandsUp /\ Down(Updates)
  BY <1>1 DEF Session, Before, After
<1>3. CommandsUp' /\ Down(Updates)'
  BY <1>1, <1>2 DEF CommandsUp, Down
<1> QED  BY <1>1, <1>2, <1>3 DEF Session, Before, After, EndedEarly, Ranges

LEMMA TakeAnswerStep ==
  ASSUME TypeOK, Session, TakeAnswer
  PROVE  Session'
<1>0. /\ gui = "answer" /\ feedback # <<>> /\ feedback' = Tail(feedback) /\ gui' = "lobby"
      /\ page' = IF page = "main" /\ Head(feedback) # "notjoined" THEN "pick" ELSE page
      /\ UNCHANGED <<actions, action, toServer, feed, toClient, out, srv, game, member,
                     conn, fbClosed>>
  BY DEF TakeAnswer
<1>1. feedback \in Seq(Answers \cup Updates)
  BY Typed
<1>2. EndedEarly'
  BY <1>0 DEF Session, EndedEarly
<1>3. Ranges'
  BY <1>0 DEF Session, Ranges
<1>4. CASE game = "none"
  <2>1. /\ page = "main" /\ NothingUp /\ DownAfter("notjoined", {})
    <3>1. ~Down({})
      BY <1>0, <1>1, OnlyNone DEF Down
    <3> QED  BY <1>4, <3>1 DEF Session, Before
  <2>2. Leads(feedback, "notjoined", {})
    BY <1>0, <2>1 DEF DownAfter
  <2>3. Head(feedback) = "notjoined" /\ Only(feedback', {})
    BY <1>0, <1>1, <2>2, OnlyTail
  <2>4. Down({})'
    BY <1>0, <2>1, <2>3 DEF DownAfter, Down
  <2>5. NothingUp' /\ page' = "main"
    BY <1>0, <2>1, <2>3 DEF NothingUp
  <2>6. Before' /\ After'
    BY <1>0, <1>4, <2>4, <2>5 DEF Session, Before, After
  <2> QED  BY <1>2, <1>3, <2>6 DEF Session
<1>5. CASE game # "none"
  <2>1. PICK a \in Answers : a = LetIn /\ DownAfter(a, Updates) /\ NothingUp
    BY <1>0, <1>5 DEF Session, After
  <2>2. Leads(feedback, a, Updates)
    BY <1>0, <2>1 DEF DownAfter
  <2>3. Head(feedback) = a /\ Only(feedback', Updates)
    BY <1>0, <1>1, <2>2, OnlyTail
  <2>4. Down(Updates)'
    BY <1>0, <2>1, <2>3 DEF DownAfter, Down
  <2>5. NothingUp' /\ CommandsUp'
    BY <1>0, <2>1, OnlyEmpty DEF NothingUp, CommandsUp
  <2>6. page' \in {"code", "pick"}
    BY <1>0, <2>1, <2>3 DEF LetIn, Session, Ranges
  <2>7. Before' /\ After'
    BY <1>0, <1>5, <2>4, <2>5, <2>6 DEF Session, Before, After
  <2> QED  BY <1>2, <1>3, <2>7 DEF Session
<1> QED  BY <1>4, <1>5

LEMMA SenderStep ==
  ASSUME TypeOK, Session, ClientSender
  PROVE  Session'
<1>0. /\ actions \in Seq(Requests \cup Commands) /\ toServer \in Seq(Requests \cup Commands)
      /\ action \in Requests \cup Commands \cup {"none"} /\ (snd = "send" <=> action # "none")
  BY Typed DEF TypeOK
<1>1. UNCHANGED <<gui, page, feedback, fbClosed, feed, conn, toClient, srv, out, game, member>>
  BY DEF ClientSender, SenderPops, SenderSends, SenderEnds, SenderMoves
<1>2. (NothingUp => NothingUp') /\ (CommandsUp => CommandsUp')
  <2>1. CASE SenderPops
    BY <1>0, <2>1, OnlyTail DEF SenderPops, NothingUp, CommandsUp
  <2>2. CASE SenderSends
    <3>1. action \in Requests \cup Commands
      BY <1>0, <2>2 DEF SenderSends
    <3>2. Only(toServer, Commands) /\ action \in Commands => Only(Append(toServer, action), Commands)
      BY <1>0, <3>1, OnlyAppend
    <3> QED  BY <1>0, <2>2, <3>2 DEF SenderSends, NothingUp, CommandsUp
  <2>3. CASE SenderEnds
    BY <1>0, <2>3 DEF SenderEnds, NothingUp, CommandsUp
  <2> QED  BY <2>1, <2>2, <2>3 DEF ClientSender
<1>3. ASSUME NEW m \in Requests, AloneUp(m)
      PROVE  AloneUp(m)' \/ NothingUp'
  <2>1. CASE SenderPops
    <3>1. snd = "pop" /\ actions # <<>> /\ action' = Head(actions) /\ actions' = Tail(actions)
          /\ UNCHANGED toServer
      BY <2>1 DEF SenderPops
    <3>2. actions = <<m>> /\ toServer = <<>>
      BY <1>3, <3>1 DEF AloneUp
    <3>3. Head(actions) = m /\ Tail(actions) = <<>>
      BY <1>0, <3>1, <3>2, OnlyTail
    <3> QED  BY <3>1, <3>2, <3>3 DEF AloneUp
  <2>2. CASE SenderSends
    <3>1. action # "none" /\ toServer' = Append(toServer, action) /\ action' = "none"
          /\ UNCHANGED actions
      BY <1>0, <2>2 DEF SenderSends
    <3>2. action = m /\ toServer = <<>> /\ actions = <<>>
      BY <1>3, <3>1 DEF AloneUp
    <3>3. toServer' = <<m>>
      BY <3>1, <3>2
    <3> QED  BY <3>1, <3>2, <3>3 DEF AloneUp
  <2>3. CASE SenderEnds
    BY <1>0, <1>3, <2>3 DEF SenderEnds, AloneUp, NothingUp
  <2> QED  BY <2>1, <2>2, <2>3 DEF ClientSender
<1>4. /\ Down({}) => Down({})'
      /\ Down(Updates) => Down(Updates)'
      /\ DownAfter("notjoined", {}) => DownAfter("notjoined", {})'
      /\ \A a \in Answers : DownAfter(a, Updates) => DownAfter(a, Updates)'
      /\ Asked' = Asked /\ LetIn' = LetIn
  BY <1>1 DEF Down, DownAfter, Asked, LetIn
<1>5. Before'
  BY <1>1, <1>2, <1>3, <1>4 DEF Session, Before
<1>6. After'
  BY <1>1, <1>2, <1>4 DEF Session, After
<1>7. EndedEarly' /\ Ranges'
  BY <1>1 DEF Session, EndedEarly, Ranges
<1> QED  BY <1>5, <1>6, <1>7 DEF Session

LEMMA DownStep ==
  ASSUME TypeOK, Session, ClientReceiver \/ ServerSends
  PROVE  Session'
<1>1. UNCHANGED <<gui, page, actions, action, toServer, fbClosed, conn, srv, game, member>>
  BY DEF ClientReceiver, Receives, ReceiverPushes, ReceiverEnds, ReceiverMoves, ServerSends
<1>2. /\ NothingUp' <=> NothingUp
      /\ CommandsUp' <=> CommandsUp
      /\ \A m \in Requests : AloneUp(m)' <=> AloneUp(m)
      /\ Asked' = Asked /\ LetIn' = LetIn
  BY <1>1 DEF NothingUp, CommandsUp, AloneUp, Asked, LetIn
<1>3. /\ Down({}) => Down({})'
      /\ Down(Updates) => Down(Updates)'
      /\ gui = "answer" /\ DownAfter("notjoined", {}) => DownAfter("notjoined", {})'
      /\ \A a \in Answers : gui = "answer" /\ DownAfter(a, Updates) => DownAfter(a, Updates)'
  BY DownMoves DEF Session
<1>4. Before'
  BY <1>1, <1>2, <1>3 DEF Session, Before
<1>5. After'
  BY <1>1, <1>2, <1>3 DEF Session, After
<1>6. EndedEarly'
  BY <1>1 DEF Session, EndedEarly, ClientReceiver, Receives, ReceiverPushes, ReceiverEnds,
     ReceiverMoves, ServerSends
<1>7. Ranges'
  BY <1>1 DEF Session, Ranges
<1> QED  BY <1>4, <1>5, <1>6, <1>7 DEF Session

LEMMA ServeStep ==
  ASSUME TypeOK, Session, ServeCreate \/ ServeJoin
  PROVE  Session'
<1>0. /\ srv = "lobby" /\ toServer # <<>> /\ toServer' = Tail(toServer)
      /\ UNCHANGED <<gui, page, actions, action, feedback, fbClosed, feed, conn, toClient>>
  BY DEF ServeCreate, ServeJoin, ServerReceives
<1>1. game = "none"
  BY <1>0 DEF Session, After
<1>2. /\ gui = "answer" /\ Head(toServer) = Asked /\ Tail(toServer) = <<>>
      /\ actions = <<>> /\ action = "none"
      /\ feedback = <<>> /\ feed = "none" /\ toClient = <<>> /\ out = <<>>
      /\ ~member
  BY <1>0, <1>1, RequestAlone
<1>3. NothingUp' /\ page' \in {"main", "code"}
  BY <1>0, <1>2 DEF NothingUp, Session, Ranges
<1>4. ASSUME NEW a \in Answers, a = LetIn, Answer(a), srv' \in {"play", "held"}, game' # "none"
      PROVE  Session'
  <2>0. out \in Seq(Answers \cup Updates) /\ a \in Answers \cup Updates
    BY Typed
  <2>1. out' = Append(out, a)
    BY <1>4 DEF Answer
  <2>2. Leads(out', a, Updates)
    BY <1>2, <2>0, <2>1, OnlyAppend
  <2>3. DownAfter(a, Updates)' /\ a = LetIn'
    BY <1>0, <1>2, <1>4, <2>2 DEF DownAfter, LetIn
  <2>4. /\ Before' /\ EndedEarly'
        /\ srv' # "lobby" /\ gui' = "answer"
    BY <1>0, <1>2, <1>4 DEF Before, EndedEarly
  <2>6. After'
    BY <1>3, <2>3, <2>4 DEF After
  <2>5. Ranges'
    BY <1>0, <1>2, <1>3, <1>4 DEF Session, Ranges
  <2> QED  BY <2>4, <2>5, <2>6 DEF Session
<1>5. ASSUME srv' \in {"dead", "held"}, UNCHANGED <<out, game, member>>
      PROVE  Session'
  <2>1. Down({})'
    BY <1>0, <1>2, <1>5, OnlyEmpty DEF Down
  <2>2. After' /\ Before' /\ EndedEarly'
    BY <1>0, <1>1, <1>2, <1>3, <1>5, <2>1 DEF After, Before, EndedEarly
  <2>3. Ranges'
    BY <1>0, <1>2, <1>3, <1>5 DEF Session, Ranges
  <2> QED  BY <2>2, <2>3 DEF Session
<1>6. ASSUME page = "main", out' = Append(out, "notjoined"), UNCHANGED <<srv, game, member>>
      PROVE  Session'
  <2>0. out \in Seq(Answers \cup Updates) /\ "notjoined" \in Answers \cup Updates
    BY Typed
  <2>1. Leads(out', "notjoined", {})
    BY <1>2, <1>6, <2>0, OnlyAppend
  <2>2. DownAfter("notjoined", {})'
    BY <1>0, <1>2, <2>1 DEF DownAfter
  <2>3. After' /\ Before' /\ EndedEarly'
    BY <1>0, <1>1, <1>2, <1>3, <1>6, <2>2 DEF After, Before, EndedEarly
  <2>4. Ranges'
    BY <1>0, <1>2, <1>3, <1>6 DEF Session, Ranges
  <2> QED  BY <2>3, <2>4 DEF Session
<1>7. CASE ServeCreate
  <2>1. LetIn = "created"
    BY <1>2, <1>7 DEF ServeCreate, Asked, LetIn
  <2> QED  BY <1>4, <1>5, <1>7, <2>1 DEF ServeCreate, Enter, HeldUp
<1>8. CASE ServeJoin
  <2>1. LetIn = "joined" /\ page = "main"
    BY <1>2, <1>8 DEF ServeJoin, Asked, LetIn
  <2> QED  BY <1>4, <1>5, <1>6, <1>8, <2>1 DEF ServeJoin, Enter, HeldUp, Answer
<1> QED  BY <1>7, <1>8

LEMMA ServePlayStep ==
  ASSUME TypeOK, Session, ServePlay
  PROVE  Session'
<1>0. /\ srv = "play" /\ toServer # <<>> /\ toServer' = Tail(toServer)
      /\ srv' = (IF Head(toServer) \in Commands THEN "play" ELSE "dead")
      /\ UNCHANGED <<gui, page, actions, action, feedback, fbClosed, feed, conn, toClient,
                     out, game, member>>
  BY DEF ServePlay, ServerReceives
<1>1. game # "none" /\ gui \notin {"lobby", "answer"} /\ CommandsUp /\ Down(Updates)
  BY <1>0 DEF Session, Before, After, NothingUp
<1>2. Head(toServer) \in Commands /\ Only(toServer', Commands)
  BY <1>0, <1>1, Typed, OnlyTail DEF CommandsUp
<1>3. CommandsUp' /\ Down(Updates)'
  BY <1>0, <1>1, <1>2 DEF CommandsUp, Down
<1>4. After' /\ Before' /\ EndedEarly' /\ Ranges'
  BY <1>0, <1>1, <1>2, <1>3 DEF Session, After, Before, EndedEarly, Ranges
<1> QED  BY <1>4 DEF Session

LEMMA GameSendsStep ==
  ASSUME TypeOK, Session, NEW f \in Updates, GameSends(f)
  PROVE  Session'
<1>0. /\ game # "none" /\ game' # "none"
      /\ out' = out \/ out' = Append(out, f)
      /\ UNCHANGED <<gui, page, actions, action, toServer, feedback, fbClosed, feed, conn,
                     toClient, srv>>
  BY DEF GameSends
<1>1. /\ Down(Updates) => Down(Updates)'
      /\ \A a \in Answers : DownAfter(a, Updates) => DownAfter(a, Updates)'
  BY <1>0, DownGrows
<1>2. (NothingUp' <=> NothingUp) /\ (CommandsUp' <=> CommandsUp) /\ LetIn' = LetIn
  BY <1>0 DEF NothingUp, CommandsUp, LetIn
<1>3. After'
  BY <1>0, <1>1, <1>2 DEF Session, After
<1>4. Before' /\ EndedEarly' /\ Ranges'
  BY <1>0 DEF Session, Before, EndedEarly, Ranges
<1> QED  BY <1>3, <1>4 DEF Session

(* The server's Receiver ends with its connection.                         *)
LEMMA ServerLosesStep ==
  ASSUME TypeOK, Session, ServerLoses
  PROVE  Session'
<1>0. /\ srv \in {"lobby", "play"} /\ srv' = "dead"
      /\ UNCHANGED <<gui, page, actions, action, toServer, feedback, fbClosed, feed, conn,
                     toClient, out, game, member>>
  BY DEF ServerLoses
<1>1. conn = "cut"
  <2>1. CASE srv = "lobby" /\ toServer # <<>> /\ Head(toServer) \notin Requests
    <3>1. game = "none"
      BY <2>1 DEF Session, After
    <3>2. Head(toServer) = Asked
      BY <2>1, <3>1, RequestAlone
    <3> QED  BY <2>1, <3>2 DEF Asked
  <2> QED  BY <2>1 DEF ServerLoses
<1>2. /\ NothingUp' <=> NothingUp
      /\ CommandsUp' <=> CommandsUp
      /\ \A m \in Requests : AloneUp(m)' <=> AloneUp(m)
      /\ Down({})' <=> Down({})
      /\ Down(Updates)' <=> Down(Updates)
      /\ DownAfter("notjoined", {})' <=> DownAfter("notjoined", {})
      /\ \A a \in Answers : DownAfter(a, Updates)' <=> DownAfter(a, Updates)
      /\ Asked' = Asked /\ LetIn' = LetIn
  BY <1>0 DEF NothingUp, CommandsUp, AloneUp, Down, DownAfter, Asked, LetIn
<1>3. Before'
  BY <1>0, <1>2 DEF Session, Before
<1>4. After'
  BY <1>0, <1>2 DEF Session, After
<1>5. EndedEarly' /\ Ranges'
  BY <1>0, <1>1 DEF Session, EndedEarly, Ranges
<1> QED  BY <1>3, <1>4, <1>5 DEF Session

LEMMA SessionStep ==
  ASSUME TypeOK, Session, [Next]_vars
  PROVE  Session'
<1>1. CASE ClickJoin \/ ClickDifficulty
  <2>1. CASE ClickJoin
    BY <2>1, AskStep DEF ClickJoin
  <2>2. CASE ClickDifficulty
    BY <2>2, AskStep DEF ClickDifficulty
  <2> QED  BY <1>1, <2>1, <2>2
<1>2. CASE ClickCreate \/ ClickContinue
  <2>1. /\ gui = "lobby" /\ gui' = "lobby"
        /\ \/ page = "main" /\ page' = "difficulty"
           \/ page = "code" /\ page' = "pick"
        /\ UNCHANGED <<actions, action, toServer, feedback, feed, toClient, out, srv, game,
                       member, conn, fbClosed>>
    BY <1>2 DEF ClickCreate, ClickContinue, Turn
  <2>2. /\ NothingUp' <=> NothingUp
        /\ CommandsUp' <=> CommandsUp
        /\ Down({})' <=> Down({})
        /\ Down(Updates)' <=> Down(Updates)
    BY <2>1 DEF NothingUp, CommandsUp, Down
  <2>3. Before' /\ After'
    BY <2>1, <2>2 DEF Session, Before, After
  <2>4. EndedEarly' /\ Ranges'
    BY <2>1 DEF Session, EndedEarly, Ranges
  <2> QED  BY <2>3, <2>4 DEF Session
<1>3. CASE ClickSoldier \/ Pressed \/ PressKey \/ PressEscape
  <2>1. CASE ClickSoldier
    BY <2>1, CommandStep DEF ClickSoldier
  <2>2. CASE Pressed
    BY <2>2, CommandStep DEF Pressed
  <2>3. CASE PressKey \/ PressEscape
    BY <2>3, PressStep DEF PressKey, PressEscape
  <2> QED  BY <1>3, <2>1, <2>2, <2>3
<1>4. CASE \/ CloseWindow \/ CloseStats \/ StopReceiver \/ CloseFeedback \/ StopSender
           \/ ClientEnds \/ ServerSenderEnds \/ ReapStops \/ ServerQuits \/ UNCHANGED vars
  <2>1. /\ gui' = gui \/ gui' \notin {"lobby", "answer", "game", "key", "escape", "stats"}
        /\ gui' = gui \/ gui # "answer"
        /\ UNCHANGED <<page, actions, action, toServer, feedback, feed, toClient, out, srv,
                       game, member>>
        /\ conn' \in {conn, "cut"}
        /\ fbClosed' => gui' \in {"stop", "join", "done"}
    BY <1>4 DEF Session, Ranges, CloseWindow, CloseStats, StopReceiver, CloseFeedback, StopSender,
       ClientEnds, ServerSenderEnds, ReapStops, ServerQuits, vars
  <2> QED  BY <2>1, SessionKept
<1>5. CASE Frame
  <2>1. /\ gui = "game" /\ gui' \in {"stats", "leave", "game"} /\ feedback' = <<>>
        /\ UNCHANGED <<page, actions, action, toServer, feed, toClient, out, srv, game, member,
                       conn, fbClosed>>
    BY <1>5 DEF Frame
  <2>2. game # "none" /\ CommandsUp /\ Down(Updates)
    BY <2>1 DEF Session, Before, After
  <2>3. CommandsUp' /\ Down(Updates)'
    BY <2>1, <2>2, OnlyEmpty DEF CommandsUp, Down
  <2>4. Before' /\ After' /\ EndedEarly' /\ Ranges'
    BY <2>1, <2>2, <2>3 DEF Session, Before, After, EndedEarly, Ranges
  <2> QED  BY <2>4 DEF Session
<1>6. CASE ReapJoins
  <2>1. /\ srv = "dead" /\ srv' = "reaped" /\ conn' = "cut"
        /\ UNCHANGED <<gui, page, actions, action, toServer, feedback, feed, toClient, out, game,
                       member, fbClosed>>
    BY <1>6 DEF ReapJoins
  <2>2. /\ NothingUp' <=> NothingUp
        /\ CommandsUp' <=> CommandsUp
        /\ \A m \in Requests : AloneUp(m)' <=> AloneUp(m)
        /\ Down({})' <=> Down({})
        /\ Down(Updates)' <=> Down(Updates)
        /\ DownAfter("notjoined", {})' <=> DownAfter("notjoined", {})
        /\ \A a \in Answers : DownAfter(a, Updates)' <=> DownAfter(a, Updates)
        /\ Asked' = Asked /\ LetIn' = LetIn
    BY <2>1 DEF NothingUp, CommandsUp, AloneUp, Down, DownAfter, Asked, LetIn
  <2>3. Before'
    BY <2>1, <2>2 DEF Session, Before
  <2>4. After'
    BY <2>1, <2>2 DEF Session, After
  <2>5. EndedEarly' /\ Ranges'
    BY <2>1 DEF Session, EndedEarly, Ranges
  <2> QED  BY <2>3, <2>4, <2>5 DEF Session
<1> QED  BY <1>1, <1>2, <1>3, <1>4, <1>5, <1>6, TakeAnswerStep, SenderStep, DownStep, ServeStep,
            ServePlayStep, ServerLosesStep, GameSendsStep
         DEF Next, User, Gui, ServerReceiver, ServerSender

------------------------------------------------------------------------------
(* The theorems *)

LEMMA InitIInv ==
  ASSUME Init
  PROVE  IInv
<1>0. {ActionsCap, FeedbackCap, OutCap, WireCap} \subseteq Nat
  BY CapAssumption
<1>1. ActionsCap \in Nat /\ FeedbackCap \in Nat /\ OutCap \in Nat /\ WireCap \in Nat
  BY <1>0
<1>2. \A S : <<>> \in Seq(S) /\ Len(<<>>) = 0
  BY EmptySeq
<1>3. \A n \in Nat : Len(<<>>) <= n
  BY <1>2
<1>4. \A S : \A n \in Nat : <<>> \in BoundedSeq(S, n)
  BY <1>2, <1>3, BoundedSeqIs
<1>5. TypeOK
  BY <1>1, <1>4 DEF Init, TypeOK
<1>6. NothingUp /\ Down({})
  BY OnlyEmpty DEF Init, NothingUp, Down
<1>7. Session
  BY <1>6 DEF Init, Session, Ranges, Before, After, EndedEarly
<1> QED  BY <1>5, <1>7 DEF IInv

THEOREM Invariant == Spec => []IInv
<1>1. Init => IInv
  BY InitIInv
<1>2. IInv /\ [Next]_vars => IInv'
  BY TypeStep, SessionStep DEF IInv
<1> QED  BY <1>1, <1>2, PTL DEF Spec

(* No queue and no buffer between the two ends is ever overrun, and a      *)
(* thread holds a message exactly while it is sending or pushing it.       *)
THEOREM TypeCorrect == Spec => []TypeOK
<1>1. IInv => TypeOK
  BY DEF IInv
<1> QED  BY <1>1, Invariant, PTL

(* The lobby's cast of the first feedback it pops, the game loop's and the *)
(* server's of what they receive never meet another kind, in any           *)
(* interleaving of the four threads and for any capacities between them.   *)
THEOREM NoBadCast == Spec => []BothUnderstand
<1>1. ASSUME IInv
      PROVE  BothUnderstand
  <2>0. TypeOK /\ Session
    BY <1>1 DEF IInv
  <2>1. ASSUME gui = "answer", feedback # <<>>
        PROVE  Head(feedback) \in IF page = "main" THEN {"joined", "notjoined"} ELSE {"created"}
    <3>1. CASE game = "none"
      <4>1. page = "main" /\ DownAfter("notjoined", {})
        <5>1. ~Down({})
          BY <2>0, <2>1, Typed, OnlyNone DEF Down
        <5> QED  BY <2>0, <3>1, <5>1 DEF Session, Before
      <4>2. Leads(feedback, "notjoined", {})
        BY <2>1, <4>1 DEF DownAfter
      <4>3. Head(feedback) = "notjoined"
        BY <2>0, <2>1, <4>2, Typed, OnlyTail
      <4> QED  BY <4>1, <4>3
    <3>2. CASE game # "none"
      <4>1. PICK a \in Answers : a = LetIn /\ DownAfter(a, Updates)
        BY <2>0, <2>1, <3>2 DEF Session, After
      <4>2. Leads(feedback, a, Updates)
        BY <2>1, <4>1 DEF DownAfter
      <4>3. Head(feedback) = a
        <5>1. feedback \in Seq(Answers \cup Updates)
          BY <2>0, Typed
        <5>2. \A b : Leads(feedback, b, Updates) => Head(feedback) = b
          BY <2>1, <5>1, OnlyTail
        <5> QED  BY <4>2, <5>2
      <4> QED  BY <4>1, <4>3 DEF LetIn
    <3> QED  BY <3>1, <3>2
  <2>2. ASSUME gui = "game", feedback # <<>>
        PROVE  Latest(feedback) \in Updates
    <3>1. Only(feedback, Updates)
      BY <2>0, <2>2 DEF Session, Before, After, Down
    <3>2. Len(feedback) \in 1..Len(feedback)
      BY <2>0, <2>2, Typed, EmptySeq
    <3> QED  BY <3>1, <3>2 DEF Only, Latest, Last
  <2>3. ASSUME srv = "lobby", toServer # <<>>
        PROVE  Head(toServer) \in Requests
    <3>1. game = "none"
      BY <2>0, <2>3 DEF Session, After
    <3> QED  BY <2>0, <2>3, <3>1, RequestAlone DEF Asked
  <2>4. ASSUME srv = "play", toServer # <<>>
        PROVE  Head(toServer) \in Commands
    <3>1. CommandsUp
      BY <2>0, <2>4 DEF Session, Before, After, NothingUp
    <3> QED  BY <2>0, <2>4, <3>1, Typed, OnlyTail DEF CommandsUp
  <2> QED  BY <2>1, <2>2, <2>3, <2>4 DEF BothUnderstand
<1>2. IInv => BothUnderstand
  BY <1>1
<1> QED  BY <1>2, Invariant, PTL

(* The lobby's push() never waits: whatever was asked before has left      *)
(* actions_to_send when its answer is taken, so that the one place where   *)
(* the main thread can wait for its Sender is a key pressed in the game    *)
(* (lobbywindow.cpp:70,109,152; handler_event.cpp:75,81,93).               *)
THEOREM LobbyHasRoom == Spec => [](gui = "lobby" => Len(actions) < ActionsCap)
<1>1. {ActionsCap, FeedbackCap, OutCap, WireCap} \subseteq Nat \ {0}
  BY CapAssumption
<1>2. 0 < ActionsCap
  BY <1>1
<1>3. Len(<<>>) = 0
  BY EmptySeq
<1>4. IInv /\ gui = "lobby" => actions = <<>>
  BY DEF IInv, Session, Before, After, NothingUp
<1>5. IInv => (gui = "lobby" => Len(actions) < ActionsCap)
  BY <1>2, <1>3, <1>4
<1> QED  BY <1>5, Invariant, PTL

(* reapDead() never joins a Sender that waits for room in the socket of a  *)
(* client that does not read: a Receiver that has ended with its socket    *)
(* open had nothing to send and no game to feed it.                        *)
THEOREM ReapingIsShort == Spec => []ReaperNeverWaits
<1>1. IInv => ReaperNeverWaits
  BY DEF IInv, Session, EndedEarly, Before, ReaperNeverWaits
<1> QED  BY <1>1, Invariant, PTL
------------------------------------------------------------------------------
(* What the liveness of the client rests on *)

Over == srv \in {"held", "dead", "reaped"} \/ conn = "cut"
NothingDown == feedback = <<>> /\ feed = "none" /\ toClient = <<>> /\ out = <<>>

(* The window does not wait for what is not on its way.                    *)
Waited == gui = "answer" /\ NothingUp /\ NothingDown => Over

LEMMA WaitedStep ==
  ASSUME IInv, IInv', Waited, [Next]_vars
  PROVE  Waited'
<1> SUFFICES ASSUME gui' = "answer", NothingUp', NothingDown'
             PROVE  Over'
  BY DEF Waited
<1>0. /\ actions \in Seq(Requests \cup Commands) /\ toServer \in Seq(Requests \cup Commands)
      /\ feedback \in Seq(Answers \cup Updates) /\ toClient \in Seq(Answers \cup Updates)
      /\ out \in Seq(Answers \cup Updates)
      /\ action \in Requests \cup Commands \cup {"none"} /\ (snd = "send" <=> action # "none")
      /\ feed \in Answers \cup Updates \cup {"none"} /\ (rcv \in {"push", "wait"} <=> feed # "none")
  BY Typed DEF IInv, TypeOK
<1>1. ASSUME NEW T, NEW s \in Seq(T), NEW x \in T
      PROVE  Append(s, x) # <<>>
  BY AppendProperties
<1>2. ASSUME NEW T, NEW s \in Seq(T), s # <<>>
      PROVE  Head(s) \in T
  <2>1. Len(s) \in Nat /\ Len(s) # 0 /\ Head(s) = s[1]
    BY <1>2, LenProperties, EmptySeq, HeadTailProperties
  <2> QED  BY <1>2, <2>1, ElementOfSeq
<1>3. ASSUME gui = "answer", UNCHANGED <<actions, action, toServer, feedback, feed, toClient, out>>,
             srv' = srv \/ srv' \in {"held", "dead", "reaped"}, conn' = conn \/ conn' = "cut"
      PROVE  Over'
  <2>1. NothingUp /\ NothingDown
    BY <1>3 DEF NothingUp, NothingDown
  <2> QED  BY <1>3, <2>1 DEF Waited, Over
<1>4. ASSUME NEW m \in Requests, Ask(m)
      PROVE  FALSE
  BY <1>0, <1>1, <1>4 DEF Ask, Push, NothingUp
<1>5. CASE ClientSender
  <2>1. CASE SenderPops
    <3>1. action' \in Requests \cup Commands
      BY <1>0, <1>2, <2>1 DEF SenderPops
    <3> QED  BY <3>1 DEF NothingUp
  <2>2. CASE SenderSends
    BY <1>0, <1>1, <2>2 DEF SenderSends, NothingUp
  <2>3. CASE SenderEnds
    BY <1>0, <1>3, <2>3 DEF SenderEnds, SenderMoves, Over
  <2> QED  BY <1>5, <2>1, <2>2, <2>3 DEF ClientSender
<1>6. CASE ClientReceiver
  <2>1. CASE Receives
    <3>1. feed' \in Answers \cup Updates
      BY <1>0, <1>2, <2>1 DEF Receives
    <3> QED  BY <3>1 DEF NothingDown
  <2>2. CASE ReceiverPushes
    BY <1>0, <1>1, <2>2 DEF ReceiverPushes, NothingDown
  <2>3. CASE ReceiverEnds
    BY <1>0, <1>3, <2>3 DEF ReceiverEnds, ReceiverMoves, IInv, Session, Ranges
  <2> QED  BY <1>6, <2>1, <2>2, <2>3 DEF ClientReceiver
<1>7. CASE ServerReceiver
  <2>1. CASE ServeCreate
    BY <1>0, <1>1, <2>1 DEF ServeCreate, Answer, HeldUp, NothingDown, Over
  <2>2. CASE ServeJoin
    <3>1. \/ Answer("joined") \/ Answer("notjoined")
          \/ srv' = "held"
      BY <2>2 DEF ServeJoin, HeldUp
    <3>2. ASSUME NEW a \in Answers
          PROVE  Append(out, a) # <<>>
      <4>1. a \in Answers \cup Updates /\ out \in Seq(Answers \cup Updates)
        BY <1>0
      <4> QED  BY <4>1, <1>1
    <3> QED  BY <3>1, <3>2 DEF Answer, NothingDown, Over
  <2>3. CASE ServePlay
    <3>1. game # "none" /\ gui = "answer" /\ toServer # <<>>
      BY <2>3 DEF ServePlay, ServerReceives, IInv, Session, Before
    <3> QED  BY <3>1 DEF IInv, Session, After, NothingUp
  <2>4. CASE ServerLoses
    BY <2>4 DEF ServerLoses, Over
  <2> QED  BY <1>7, <2>1, <2>2, <2>3, <2>4 DEF ServerReceiver
<1>8. CASE ServerSender
  <2>1. CASE ServerSends
    <3>1. Head(out) \in Answers \cup Updates
      BY <1>0, <1>2, <2>1 DEF ServerSends
    <3> QED  BY <1>0, <1>1, <2>1, <3>1 DEF ServerSends, NothingDown
  <2>2. CASE ServerSenderEnds
    BY <1>3, <2>2 DEF ServerSenderEnds
  <2> QED  BY <1>8, <2>1, <2>2 DEF ServerSender
<1>9. ASSUME NEW f \in Updates, GameSends(f)
      PROVE  FALSE
  <2>1. game' # "none"
    BY <1>9 DEF GameSends
  <2>2. PICK a \in Answers : DownAfter(a, Updates)'
    BY <2>1 DEF IInv, Session, After
  <2> QED  BY <2>2 DEF DownAfter, Leads, NothingDown
<1>10. CASE TakeAnswer \/ Frame \/ ClickSoldier \/ CloseWindow \/ CloseStats \/ StopReceiver
            \/ CloseFeedback \/ StopSender \/ ClientEnds \/ ClickCreate \/ ClickContinue
            \/ PressKey \/ PressEscape \/ Pressed
  BY <1>10 DEF TakeAnswer, Frame, ClickSoldier, CloseWindow, CloseStats, StopReceiver,
     CloseFeedback, StopSender, ClientEnds, ClickCreate, ClickContinue, Turn, PressKey,
     PressEscape, PressTo, Pressed
<1>11. CASE ReapStops \/ ReapJoins \/ ServerQuits \/ UNCHANGED vars
  BY <1>3, <1>11 DEF ReapStops, ReapJoins, ServerQuits, vars
<1> QED  BY <1>4, <1>5, <1>6, <1>7, <1>8, <1>9, <1>10, <1>11
         DEF Next, User, Gui, ClickJoin, ClickDifficulty

(* While the lobby's window waits in pop(), its request is on its way, and *)
(* nothing else is, or the answer to it is, and first in what its pop()    *)
(* will see; unless the server has ended the connection or its Receiver,   *)
(* or holds it for ever, which nobody tells the window                     *)
(* (lobbywindow.cpp:71,153).                                               *)
THEOREM AnswerIsUnderway ==
  Spec => [](gui = "answer" =>
                \/ AloneUp(Asked) /\ NothingDown
                \/ /\ NothingUp
                   /\ IF game = "none" THEN DownAfter("notjoined", {})
                                       ELSE DownAfter(LetIn, Updates)
                \/ Over)
<1> DEFINE Underway == gui = "answer" =>
                          \/ AloneUp(Asked) /\ NothingDown
                          \/ /\ NothingUp
                             /\ IF game = "none" THEN DownAfter("notjoined", {})
                                                 ELSE DownAfter(LetIn, Updates)
                          \/ Over
<1>1. ASSUME IInv, Waited
      PROVE  Underway
  <2> SUFFICES ASSUME gui = "answer", ~Over
               PROVE  \/ AloneUp(Asked) /\ NothingDown
                      \/ /\ NothingUp
                         /\ IF game = "none" THEN DownAfter("notjoined", {})
                                             ELSE DownAfter(LetIn, Updates)
    OBVIOUS
  <2>0. Down({}) => NothingDown
    BY <1>1, Typed, OnlyNone DEF IInv, Down, NothingDown
  <2>1. CASE game = "none"
    BY <1>1, <2>0, <2>1 DEF IInv, Session, Before, Waited
  <2>2. CASE game # "none"
    BY <1>1, <2>2 DEF IInv, Session, After
  <2> QED  BY <2>1, <2>2
<1>2. Init => Waited
  BY DEF Init, Waited
<1>3. IInv /\ IInv' /\ Waited /\ [Next]_vars => Waited'
  BY WaitedStep
<1> HIDE DEF Underway
<1>4. Spec => []Underway
  BY <1>1, <1>2, <1>3, Invariant, PTL DEF Spec
<1> QED  BY <1>4 DEF Underway

(* ~Client has cut the connection, and closed the queue of every thread    *)
(* that was not dead.                                                      *)
Exit ==
    /\ rcv = "dead" \/ gui \in {"close", "stop", "join", "done"} => conn = "cut"
    /\ gui \in {"stop", "join", "done"} => rcv = "dead" \/ fbClosed
    /\ gui = "join" => snd = "dead" \/ actClosed

LEMMA ExitStep ==
  ASSUME IInv, Exit, [Next]_vars
  PROVE  Exit'
<1> USE DEF Exit
<1>1. CASE User
  BY <1>1 DEF User, ClickJoin, ClickDifficulty, Ask, ClickCreate, ClickContinue, Turn, ClickSoldier,
     CloseWindow, PressKey, PressEscape, PressTo, CloseStats
<1>2. CASE Gui
  BY <1>2 DEF Gui, TakeAnswer, Pressed, Frame, StopReceiver, CloseFeedback, StopSender, ClientEnds
<1>3. CASE ClientSender
  BY <1>3 DEF ClientSender, SenderPops, SenderSends, SenderEnds, SenderMoves
<1>4. CASE ClientReceiver
  BY <1>4 DEF ClientReceiver, Receives, ReceiverPushes, ReceiverEnds, ReceiverMoves, IInv, Session,
     Ranges
<1>5. CASE ServerReceiver \/ ServerSender \/ ReapStops \/ ReapJoins \/ ServerQuits
           \/ (\E f \in Updates : GameSends(f)) \/ UNCHANGED vars
  BY <1>5 DEF ServerReceiver, ServeCreate, ServeJoin, ServePlay, ServerLoses, ServerReceives,
     ServerSender, ServerSends, ServerSenderEnds, ReapStops, ReapJoins, ServerQuits, GameSends, vars
<1> QED  BY <1>1, <1>2, <1>3, <1>4, <1>5 DEF Next

(* ~Client joins nobody that waits, with the exception of ExitEnds: its    *)
(* Receiver reads from a socket that is cut, pushes to a queue that is     *)
(* closed, or waits for room and has it; its Sender sends on that socket,  *)
(* or pops from a queue that is closed.                                    *)
THEOREM ExitWaitsForOneOnly ==
  Spec => [](gui = "join" =>
                /\ conn = "cut"
                /\ rcv = "dead" \/ fbClosed
                /\ rcv = "wait" /\ ~LeftInPush => Len(feedback) < FeedbackCap
                /\ snd = "dead" \/ actClosed)
<1>1. ASSUME IInv, Exit, gui = "join"
      PROVE  /\ conn = "cut"
             /\ rcv = "dead" \/ fbClosed
             /\ rcv = "wait" /\ ~LeftInPush => Len(feedback) < FeedbackCap
             /\ snd = "dead" \/ actClosed
  <2>1. FeedbackCap \in Nat
    <3>1. {ActionsCap, FeedbackCap, OutCap, WireCap} \subseteq Nat
      BY CapAssumption
    <3> QED  BY <3>1
  <2>2. Len(feedback) \in Nat /\ Len(feedback) <= FeedbackCap
    BY <1>1, <2>1, Typed, BoundedSeqIs DEF IInv, TypeOK
  <2>3. rcv = "wait" /\ ~LeftInPush => Len(feedback) < FeedbackCap
    BY <1>1, <2>1, <2>2 DEF LeftInPush, Exit
  <2> QED  BY <1>1, <2>3 DEF Exit
<1>2. Init => Exit
  BY DEF Init, Exit
<1>3. IInv /\ Exit /\ [Next]_vars => Exit'
  BY ExitStep
<1> QED  BY <1>1, <1>2, <1>3, Invariant, PTL DEF Spec
==============================================================================
