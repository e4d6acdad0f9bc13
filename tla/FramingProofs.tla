---------------------------- MODULE FramingProofs ----------------------------
(***************************************************************************)
(* Theorems about Framing for any number of requests and any lengths of    *)
(* chat messages.  A client and its work server never have more than one   *)
(* message on the way, because the client sends only when nothing is       *)
(* (Paired); and what the client's buffer holds is its own request only    *)
(* where the buffer was not cleared (BufferOwn).  On the channel between   *)
(* two clients every recv begins with a header until one recv is too small *)
(* for what arrived (AlignedUntilFilled).                                  *)
(***************************************************************************)
EXTENDS Framing, SequenceTheorems, TLAPS

\* A message is on the way only while the client waits for it.
Paired ==
    \/ up = <<>> /\ down = <<>> /\ (waiting => gone)
    \/ up = <<asked>> /\ down = <<>> /\ waiting /\ ~gone
    \/ up = <<>> /\ down = <<asked>> /\ waiting

\* The buffer holds a request only after init_client_b_sockfd sent one.
BufferOwn == buf[1] = "request" => ~Cleared(kind) /\ (waiting \/ gone)

IInv ==
    /\ asked \in Nat
    /\ kind \in Kinds
    /\ waiting \in BOOLEAN /\ gone \in BOOLEAN
    /\ Paired
    /\ BufferOwn

LEMMA ToSetEmpty == ToSet(<<>>) = {}
BY DEF ToSet

LEMMA ToSetOne == \A x : ToSet(<<x>>) = {x}
<1> TAKE x
<1>1. DOMAIN <<x>> = {1} /\ <<x>>[1] = x
  OBVIOUS
<1> QED BY <1>1 DEF ToSet

\* What is on the way, in the three cases of Paired.
LEMMA Wires ==
    /\ up = <<>> /\ down = <<>> => Wire = {}
    /\ up = <<asked>> /\ down = <<>> => Wire = {<<"request", asked>>}
    /\ up = <<>> /\ down = <<asked>> => Wire = {<<"answer", asked>>}
BY ToSetEmpty, ToSetOne DEF Wire

LEMMA InitIInv == Init => IInv
<1> SUFFICES ASSUME Init PROVE IInv
  OBVIOUS
<1>1. Paired
  BY DEF Init, Paired
<1>2. buf[1] = "nothing"
  BY DEF Init
<1>3. BufferOwn
  BY <1>2 DEF BufferOwn
<1> QED BY <1>1, <1>3 DEF Init, IInv, Kinds

\* The invariant survives every step.
LEMMA StepIInv == IInv /\ [Next]_vars => IInv'
<1> SUFFICES ASSUME IInv, [Next]_vars PROVE IInv'
  OBVIOUS
<1>1. ASSUME NEW k \in Kinds, Ask(k) PROVE IInv'
  <2>1. up = <<>> /\ down = <<>>
    BY <1>1 DEF IInv, Paired, Ask
  <2>2. Paired'
    BY <1>1, <2>1 DEF IInv, Ask, Paired
  <2>3. BufferOwn'
    BY <1>1 DEF IInv, Ask, BufferOwn, Cleared
  <2> QED BY <1>1, <2>2, <2>3 DEF IInv, Ask
<1>2. CASE Serve
  <2>1. up = <<asked>> /\ down = <<>> /\ waiting /\ kind \in Answered
    BY <1>2 DEF IInv, Paired, Serve, Kinds, Answered
  <2>2. up' = <<>> /\ down' = <<asked>>
    BY <1>2, <2>1 DEF Serve
  <2>3. Paired'
    BY <1>2, <2>1, <2>2 DEF Serve, Paired
  <2> QED BY <1>2, <2>3 DEF IInv, Serve, BufferOwn, Cleared
<1>3. CASE ServerEnds
  <2>1. Paired'
    BY <1>3 DEF IInv, Paired, ServerEnds
  <2> QED BY <1>3, <2>1 DEF IInv, ServerEnds, BufferOwn, Cleared
<1>4. CASE Returns
  <2>1. up = <<>> /\ (down = <<>> => gone)
    BY <1>4 DEF IInv, Paired, Returns, MayReturn
  <2>2. Paired'
    BY <1>4, <2>1 DEF Returns, Paired
  <2>3. BufferOwn'
    BY <1>4, <2>1 DEF IInv, Returns, BufferOwn, Cleared
  <2> QED BY <1>4, <2>2, <2>3 DEF IInv, Returns
<1>5. CASE UNCHANGED exchange
  BY <1>5 DEF exchange, IInv, Paired, BufferOwn, Cleared
<1> QED
  BY <1>1, <1>2, <1>3, <1>4, <1>5
     DEF Next, SendFails, Chat, Event, Recv, vars

\* One message at a time is on the way, and the buffer is the client's own only
\* after the one request that does not clear it.
THEOREM Invariance == Spec => []IInv
BY InitIInv, StepIInv, PTL DEF Spec

\* The client takes its own request for an answer only where
\* init_client_b_sockfd does not clear the buffer and the work server's child
\* ended meanwhile.
THEOREM OwnRequest == Spec => []OwnRequestOnlyIfGone
<1>1. IInv => OwnRequestOnlyIfGone
  BY DEF IInv, BufferOwn, OwnRequestOnlyIfGone, Cleared
<1> QED BY <1>1, Invariance, PTL

\* Requests and answers are datagrams, one at a time, each request with its
\* own answer: the loop of process and the requests of the client implement
\* Exchange.
THEOREM Datagrams == Spec => ImplementsExchange
<1>1. Init => Exchange_!Init
  BY Wires DEF Init, Exchange_!Init
<1>2. IInv /\ IInv' /\ [Next]_vars
        => [Exchange_!Next]_<<Wire, asked, gone>>
  <2> SUFFICES ASSUME IInv, IInv', [Next]_vars
               PROVE  [Exchange_!Next]_<<Wire, asked, gone>>
    OBVIOUS
  <2>1. ASSUME NEW k \in Kinds, Ask(k) PROVE Exchange_!Ask
    <3>1. up = <<>> /\ down = <<>> /\ Wire = {}
      BY <2>1, Wires DEF IInv, Paired, Ask
    <3>2. CASE gone
      <4>1. up' = <<>> /\ down' = <<>>
        BY <2>1, <3>1, <3>2 DEF Ask
      <4>2. Wire' = {}
        BY <4>1, ToSetEmpty DEF Wire
      <4> QED BY <2>1, <3>1, <3>2, <4>2 DEF Ask, Exchange_!Ask
    <3>3. CASE ~gone
      <4>1. up' = <<asked'>> /\ down' = <<>>
        BY <2>1, <3>1, <3>3 DEF Ask
      <4>2. Wire' = {<<"request", asked'>>}
        BY <4>1, ToSetEmpty, ToSetOne DEF Wire
      <4> QED BY <2>1, <3>1, <3>3, <4>2 DEF Ask, Exchange_!Ask
    <3> QED BY <3>2, <3>3
  <2>2. CASE Serve
    <3>1. up = <<asked>> /\ down = <<>> /\ kind \in Answered
      BY <2>2 DEF IInv, Paired, Serve, Kinds, Answered
    <3>2. up' = <<>> /\ down' = <<asked>> /\ asked' = asked
      BY <2>2, <3>1 DEF Serve
    <3>3. Wire = {<<"request", asked>>}
      BY <3>1, Wires
    <3>4. Wire' = {<<"answer", asked>>}
      BY <3>2, ToSetEmpty, ToSetOne DEF Wire
    <3>5. Exchange_!Answer
      BY <2>2, <3>3, <3>4 DEF Serve, Exchange_!Answer
    <3> QED BY <3>5 DEF Exchange_!Next
  <2>3. CASE ServerEnds
    <3>1. up' = <<>> /\ (down' = down \/ down' = <<>>)
      BY <2>3 DEF ServerEnds
    <3>2. Wire' \in SUBSET Wire
      BY <3>1, ToSetEmpty DEF Wire
    <3>3. Exchange_!Lose
      BY <2>3, <3>2 DEF ServerEnds, Exchange_!Lose
    <3> QED BY <3>3 DEF Exchange_!Next
  <2>4. CASE Returns
    <3>1. up = <<>> /\ (down = <<>> \/ down = <<asked>>)
      BY <2>4 DEF IInv, Paired, Returns, MayReturn
    <3>2. up' = <<>> /\ down' = <<>> /\ asked' = asked /\ gone' = gone
      BY <2>4, <3>1 DEF Returns
    <3>3. Wire' = {}
      BY <3>2, ToSetEmpty DEF Wire
    <3>4. CASE down = <<>>
      BY <3>1, <3>2, <3>3, <3>4, Wires
    <3>5. CASE down = <<asked>>
      <4>1. Wire = {<<"answer", asked>>}
        BY <3>1, <3>5, Wires
      <4>2. Exchange_!Take
        BY <3>2, <3>3, <4>1 DEF Exchange_!Take
      <4> QED BY <4>2 DEF Exchange_!Next
    <3> QED BY <3>1, <3>4, <3>5
  <2>5. CASE UNCHANGED exchange
    BY <2>5 DEF exchange, Wire
  <2> QED
    BY <2>1, <2>2, <2>3, <2>4, <2>5
       DEF Next, Exchange_!Next, SendFails, Chat, Event, Recv, vars
<1> QED
  BY <1>1, <1>2, Invariance, PTL DEF Spec, ImplementsExchange, Exchange_!Spec

-----------------------------------------------------------------------------
(* The channel between two clients                                          *)

\* A chat message is sent only after a request of its own was answered.
Credit ==
    /\ sent <= asked
    /\ talking \/ (waiting /\ kind = "FIND_USER") => sent < asked

AskedOK ==
    /\ asked \in 0..MaxAsks
    /\ waiting => asked > 0
    /\ buf \in Messages
    /\ talking \in BOOLEAN /\ ended \in BOOLEAN
    /\ sent \in Nat
    /\ Credit

ChatOK ==
    /\ chat \in Seq((1..sent) \X Nat)
    /\ shown \in Seq(1..sent)
    /\ alone \subseteq 1..sent
    /\ due \in BOOLEAN /\ handling \in BOOLEAN /\ filled \in BOOLEAN

CInv == AskedOK /\ ChatOK /\ AlignedUntilFilled

LEMMA InitCInv == Init => CInv
<1> SUFFICES ASSUME Init PROVE CInv
  OBVIOUS
<1>1. AskedOK
  <2>1. Credit
    BY DEF Init, Credit
  <2>2. buf \in Messages
    BY ConstantsAssumption DEF Init, Messages
  <2>3. asked \in 0..MaxAsks /\ sent \in Nat
    BY ConstantsAssumption DEF Init
  <2>4. talking \in BOOLEAN /\ ended \in BOOLEAN /\ ~waiting
    BY DEF Init
  <2> QED BY <2>1, <2>2, <2>3, <2>4 DEF AskedOK
<1>2. ChatOK
  <2>1. <<>> \in Seq((1..sent) \X Nat) /\ <<>> \in Seq(1..sent)
    OBVIOUS
  <2> QED BY <2>1 DEF Init, ChatOK
<1>3. AlignedUntilFilled
  BY DEF Init, AlignedUntilFilled
<1> QED BY <1>1, <1>2, <1>3 DEF CInv

\* Requests and the chat messages they allow.
LEMMA StepAskedOK ==
    ASSUME IInv, CInv, [Next]_vars
    PROVE  AskedOK'
<1> USE DEF CInv
<1>1. ASSUME NEW k \in Kinds, Ask(k) PROVE AskedOK'
  <2>1. asked' \in 0..MaxAsks /\ asked' = asked + 1 /\ asked \in Nat
    BY <1>1, ConstantsAssumption DEF Ask, AskedOK
  <2>2. buf' \in Messages
    BY <1>1, <2>1, ConstantsAssumption DEF Ask, Messages
  <2>3. sent' \in Nat /\ Credit'
    <3>1. sent' = sent /\ sent \in Nat /\ sent <= asked
      BY <1>1 DEF Ask, channel, AskedOK, Credit
    <3> QED BY <2>1, <3>1 DEF Credit
  <2>4. talking' \in BOOLEAN /\ ended' \in BOOLEAN
    BY <1>1 DEF Ask, AskedOK
  <2>5. asked' > 0
    BY <2>1
  <2> QED BY <2>1, <2>2, <2>3, <2>4, <2>5 DEF AskedOK
<1>2. CASE Returns
  <2>1. down = <<>> \/ down = <<asked>>
    BY <1>2 DEF IInv, Paired, Returns
  <2>2. buf' \in Messages
    BY <1>2, <2>1 DEF Returns, AskedOK, Messages
  <2>3. talking' \in BOOLEAN /\ ended' \in BOOLEAN
    BY <1>2 DEF Returns, AskedOK
  <2>4. sent' \in Nat /\ Credit'
    <3>1. waiting /\ ~waiting' /\ sent' = sent /\ asked' = asked
      BY <1>2 DEF Returns, channel
    <3>2. talking' => talking \/ kind = "FIND_USER"
      BY <1>2 DEF Returns
    <3>3. /\ sent \in Nat /\ sent <= asked
          /\ (talking \/ kind = "FIND_USER") => sent < asked
      <4>1. Credit /\ sent \in Nat
        BY DEF AskedOK
      <4> QED BY <3>1, <4>1 DEF Credit
    <3>4. Credit'
      BY <3>1, <3>2, <3>3 DEF Credit
    <3> QED BY <3>1, <3>3, <3>4
  <2>5. asked' \in 0..MaxAsks /\ ~waiting'
    BY <1>2 DEF Returns, AskedOK
  <2> QED BY <2>2, <2>3, <2>4, <2>5 DEF AskedOK
<1>3. ASSUME NEW n \in Lengths, Chat(n) PROVE AskedOK'
  <2>1. talking /\ ~waiting /\ sent < asked
    <3>1. Credit /\ talking /\ ~waiting
      BY <1>3 DEF Chat, AskedOK
    <3> QED BY <3>1 DEF Credit
  <2>2. /\ sent' = sent + 1 /\ ~talking' /\ talking' \in BOOLEAN
        /\ UNCHANGED <<asked, kind, waiting, buf, ended>>
    BY <1>3 DEF Chat, AskAgain, exchange
  <2>3. sent \in Nat /\ asked \in Nat
    BY ConstantsAssumption DEF AskedOK
  <2>4. sent' \in Nat /\ sent' <= asked'
    BY <2>1, <2>2, <2>3
  <2>5. Credit'
    BY <2>1, <2>2, <2>4 DEF Credit
  <2>6. /\ asked' \in 0..MaxAsks /\ buf' \in Messages /\ ~waiting'
        /\ ended' \in BOOLEAN
    BY <2>1, <2>2 DEF AskedOK
  <2> QED BY <2>2, <2>4, <2>5, <2>6 DEF AskedOK
<1>4. CASE UNCHANGED <<asked, kind, waiting, buf, talking, sent>> /\ ended' \in BOOLEAN
  BY <1>4 DEF AskedOK, Credit
<1> QED
  BY <1>1, <1>2, <1>3, <1>4
     DEF Next, SendFails, Serve, ServerEnds, Event, Recv, vars, exchange,
         channel, AskedOK

\* What one recv returns and what it leaves.
LEMMA OneRecv ==
    ASSUME ChatOK
    PROVE  /\ Taken(chat) \in Nat /\ Taken(chat) <= Len(chat)
           /\ Len(chat) <= Capacity => Taken(chat) = Len(chat)
<1>1. Len(chat) \in Nat /\ Capacity \in Nat
  BY ConstantsAssumption DEF ChatOK
<1>2. \E x \in {Len(chat), Capacity} : \A y \in {Len(chat), Capacity} : x <= y
  BY <1>1
<1>3. /\ Taken(chat) \in {Len(chat), Capacity}
      /\ \A y \in {Len(chat), Capacity} : Taken(chat) <= y
  BY <1>2 DEF Taken, Min
<1> QED BY <1>1, <1>3

LEMMA StepChatOK ==
    ASSUME CInv, [Next]_vars
    PROVE  ChatOK' /\ AlignedUntilFilled'
<1> USE DEF CInv
<1>1. ASSUME NEW n \in Lengths, Chat(n) PROVE ChatOK' /\ AlignedUntilFilled'
  <2>1. PICK m : m = [i \in 1..n |-> <<sent + 1, i>>]
    OBVIOUS
  <2>2. n \in Nat \ {0} /\ sent \in Nat
    BY ConstantsAssumption DEF AskedOK
  <2>3. m \in Seq((1..(sent + 1)) \X Nat) /\ Len(m) = n /\ m[1] = <<sent + 1, 1>>
    BY <2>1, <2>2
  <2>4. chat \in Seq((1..(sent + 1)) \X Nat) /\ shown \in Seq(1..(sent + 1))
    <3>1. (1..sent) \X Nat \subseteq (1..(sent + 1)) \X Nat
      BY <2>2
    <3>2. 1..sent \subseteq 1..(sent + 1)
      BY <2>2
    <3> QED BY <3>1, <3>2, SeqMonotonic DEF ChatOK
  <2>5. sent' = sent + 1 /\ chat' = chat \o m /\ shown' = shown
    BY <1>1, <2>1 DEF Chat
  <2>6. chat' \in Seq((1..sent') \X Nat)
    BY <2>3, <2>4, <2>5, ConcatProperties
  <2>7. alone' \subseteq 1..sent'
    BY <1>1, <2>2, <2>5 DEF Chat, ChatOK
  <2>8. ChatOK'
    BY <1>1, <2>4, <2>5, <2>6, <2>7 DEF Chat, ChatOK
  <2>9. chat'[1] = IF chat = <<>> THEN <<sent + 1, 1>> ELSE chat[1]
    <3>1. CASE chat = <<>>
      <4>1. chat' = m
        BY <2>3, <2>5, <3>1, ConcatEmptySeq
      <4> QED BY <2>3, <3>1, <4>1
    <3>2. CASE chat # <<>>
      <4>1. Len(chat) \in Nat \ {0}
        BY <2>4, <3>2, EmptySeq
      <4> QED BY <2>2, <2>3, <2>4, <2>5, <3>2, <4>1, ConcatProperties
    <3> QED BY <3>1, <3>2
  <2>10. AlignedUntilFilled'
    <3>1. due' /\ (filled' <=> filled)
      BY <1>1 DEF Chat
    <3>2. ~filled => chat'[1][2] = 1
      <4>1. CASE chat = <<>>
        BY <2>9, <4>1
      <4>2. CASE chat # <<>>
        BY <2>9, <4>2 DEF AlignedUntilFilled
      <4> QED BY <4>1, <4>2
    <3> QED BY <3>1, <3>2 DEF AlignedUntilFilled
  <2> QED BY <2>8, <2>10
<1>2. CASE Event
  BY <1>2 DEF Event, exchange, ChatOK, AlignedUntilFilled
<1>3. CASE Recv
  <2>1. PICK n : n = Taken(chat)
    OBVIOUS
  <2>2. n \in Nat /\ n <= Len(chat) /\ Len(chat) \in Nat
    BY <2>1, OneRecv DEF ChatOK
  <2>3. chat' = SubSeq(chat, n + 1, Len(chat))
    BY <1>3, <2>1 DEF Recv
  <2>4. chat' \in Seq((1..sent) \X Nat)
    BY <2>2, <2>3, SubSeqProperties, ElementOfSeq DEF ChatOK
  <2>5. PICK bytes : bytes = SubSeq(chat, 1, n)
    OBVIOUS
  <2>6. bytes \in Seq((1..sent) \X Nat)
    BY <2>2, <2>5, SubSeqProperties, ElementOfSeq DEF ChatOK
  <2>7. shown' \in Seq(1..sent)
    <3>1. shown' = IF bytes # <<>> /\ bytes[1][2] = 1
                     THEN Append(shown, LookedAt(bytes)[1]) ELSE shown
      BY <1>3, <2>1, <2>5 DEF Recv
    <3>2. bytes # <<>> => Head(bytes) \in (1..sent) \X Nat
      BY <2>6
    <3>3. bytes # <<>> => LookedAt(bytes)[1] \in 1..sent
      BY <3>2 DEF LookedAt
    <3> QED BY <3>1, <3>3, AppendProperties DEF ChatOK
  <2>8. ChatOK'
    BY <1>3, <2>4, <2>7 DEF Recv, ChatOK
  <2>9. AlignedUntilFilled'
    <3> SUFFICES ASSUME ~filled' PROVE chat' = <<>>
      BY DEF AlignedUntilFilled
    <3>1. Len(chat) <= Capacity
      <4>1. ~(Len(chat) > Capacity)
        BY <1>3 DEF Recv
      <4> QED BY <2>2, <4>1, ConstantsAssumption
    <3>2. n = Len(chat)
      BY <2>1, <3>1, OneRecv
    <3> QED BY <2>2, <2>3, <3>2, SubSeqEmpty
  <2> QED BY <2>8, <2>9
<1>4. CASE UNCHANGED channel
  BY <1>4 DEF channel, ChatOK, AlignedUntilFilled
<1> QED
  BY <1>1, <1>2, <1>3, <1>4
     DEF Next, Ask, SendFails, Serve, ServerEnds, Returns, vars

\* The types of the framing, with the chat channel in step until it was filled.
THEOREM ChannelInvariance == Spec => []CInv
<1>1. IInv /\ CInv /\ [Next]_vars => CInv'
  BY StepAskedOK, StepChatOK DEF CInv
<1> QED BY InitCInv, <1>1, Invariance, PTL DEF Spec

\* Every variable keeps its type; a client sends at most one chat message for
\* each request it made.
THEOREM TypeCorrect == Spec => []TypeOK
<1>1. IInv /\ CInv => TypeOK
  <2> SUFFICES ASSUME IInv, CInv
               PROVE  TypeOK
    OBVIOUS
  <2>1. up \in Seq(1..MaxAsks) /\ down \in Seq(1..MaxAsks)
    <3>1. waiting => asked \in 1..MaxAsks
      BY ConstantsAssumption DEF CInv, AskedOK
    <3>2. <<>> \in Seq(1..MaxAsks)
      OBVIOUS
    <3>3. waiting => <<asked>> \in Seq(1..MaxAsks)
      BY <3>1
    <3> QED BY <3>2, <3>3 DEF IInv, Paired
  <2>2. sent \in 0..asked
    BY ConstantsAssumption DEF CInv, AskedOK, Credit
  <2>3. {waiting, talking, gone, ended, due, handling, filled} \subseteq BOOLEAN
    BY DEF IInv, CInv, AskedOK, ChatOK
  <2> QED BY <2>1, <2>2, <2>3 DEF IInv, CInv, AskedOK, ChatOK, TypeOK
<1> QED BY <1>1, Invariance, ChannelInvariance, PTL

\* On the channel to another client no byte is left without an event and every
\* recv begins with a header, until one recv was given more than it takes:
\* for any buffer and any lengths of messages.
THEOREM Aligned == Spec => []AlignedUntilFilled
<1>1. CInv => AlignedUntilFilled
  BY DEF CInv
<1> QED BY <1>1, ChannelInvariance, PTL
=============================================================================
