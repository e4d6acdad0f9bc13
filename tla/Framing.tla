------------------------------- MODULE Framing -------------------------------
(***************************************************************************)
(* Messages over TCP.  send_msg writes a header and a text in one send, and *)
(* a receiver takes what one recv returns for one message: its first bytes *)
(* are the header, the text ends at a NUL, and the length is never looked   *)
(* at.  Two connections use this:                                          *)
(*                                                                         *)
(*   - client to work server: every request waits for its answer.  All     *)
(*     messages are short, see the checks of main.cpp, and one recv returns *)
(*     all that arrived: up and down are sequences of whole messages.      *)
(*   - client to client: nothing is answered, a message may be longer than *)
(*     the buffer of recv, and listen_pthread calls recv once for each      *)
(*     edge-triggered event: chat is a sequence of bytes.                  *)
(*                                                                         *)
(* One send arrives at once; many sends may arrive before one recv.        *)
(***************************************************************************)
EXTENDS Integers, Sequences, SequencesExt

CONSTANTS Capacity,     \* what one recv of listen_pthread takes: 1023
          Lengths,      \* lengths of chat messages: up to 1028
          MaxAsks       \* bound: requests

ASSUME ConstantsAssumption ==
    /\ Capacity \in Nat \ {0}
    /\ Lengths \subseteq Nat \ {0}
    /\ MaxAsks \in Nat

\* The requests a client sends and waits for.
Kinds == {"REGISRERED", "LOGIN", "USER_LIST", "FIND_USER",
          "OBTAIN_CLIENT_ADDR", "CREATE_GROUP", "LOGOUT", "DELETE_USER"}

VARIABLES
    up,           \* requests the work server has not received
    down,         \* answers the client has not received
    asked,        \* requests so far
    kind,         \* kind of the latest request
    waiting,      \* the client waits in recv
    buf,          \* what the client's buffer holds: <<"nothing", 0>>,
                  \* <<"request", n>> or <<"answer", n>>
    talking,      \* the peer is online: a chat message is to be sent
    gone,         \* the child of the work server ended, and the connection
    ended,        \* the client's program ended
    chat,         \* bytes listen_pthread has not received, each with the
                  \* number of its message and its place in it
    sent,         \* chat messages so far
    due,          \* an event on the channel is due
    handling,     \* listen_pthread has got the event, recv comes next
    shown,        \* numbers of the messages listen_pthread showed
    alone,        \* history: messages sent when no byte was unread
    filled        \* history: recv was given more than it takes

exchange == <<up, down, asked, kind, waiting, buf, gone>>
channel == <<chat, sent, due, handling, shown, alone, filled>>
vars == <<exchange, talking, ended, channel>>

Messages == {"nothing", "request", "answer"} \X (0..MaxAsks)

TypeOK ==
    /\ up \in Seq(1..MaxAsks) /\ down \in Seq(1..MaxAsks)
    /\ asked \in 0..MaxAsks /\ sent \in 0..asked
    /\ kind \in Kinds
    /\ buf \in Messages
    /\ chat \in Seq((1..sent) \X Nat)
    /\ shown \in Seq(1..sent)
    /\ alone \subseteq 1..sent
    /\ {waiting, talking, gone, ended, due, handling, filled} \subseteq BOOLEAN

Init ==
    /\ up = <<>> /\ down = <<>> /\ asked = 0
    /\ kind = "LOGIN"
    /\ buf = <<"nothing", 0>>
    /\ waiting = FALSE /\ talking = FALSE /\ gone = FALSE /\ ended = FALSE
    /\ chat = <<>> /\ sent = 0 /\ due = FALSE /\ handling = FALSE
    /\ shown = <<>> /\ alone = {} /\ filled = FALSE

-----------------------------------------------------------------------------
(* Client and work server                                                   *)

\* Faulty variant: the buffer is never cleared between send and recv.
ClearedForNone(k) == FALSE

\* Every request clears the buffer after it was sent, but for the one of
\* init_client_b_sockfd.
Cleared(k) == k # "OBTAIN_CLIENT_ADDR"

\* A request is formatted in the buffer and sent.  While a chat message is
\* to be sent the only request is for the peer's address.
Ask(k) ==
    /\ ~ended /\ ~waiting
    /\ asked < MaxAsks
    /\ talking => k = "OBTAIN_CLIENT_ADDR"
    /\ asked' = asked + 1
    /\ kind' = k
    /\ buf' = IF Cleared(k) THEN <<"nothing", 0>> ELSE <<"request", asked'>>
    /\ up' = IF gone THEN up ELSE Append(up, asked')
    /\ waiting' = TRUE
    /\ UNCHANGED <<down, talking, gone, ended, channel>>

\* The connection is lost: the second send raises SIGPIPE.
SendFails ==
    /\ ~ended /\ ~waiting
    /\ gone
    /\ ended' = TRUE
    /\ UNCHANGED <<exchange, talking, channel>>

\* Faulty variant: the switch has no case for LOGOUT.
AnsweredButLogout == Kinds \ {"LOGOUT"}

\* The cases of the switch in process; others are left unanswered.
Answered == {"REGISRERED", "LOGIN", "USER_LIST", "FIND_USER",
             "OBTAIN_CLIENT_ADDR", "CREATE_GROUP", "LOGOUT", "DELETE_USER"}

\* recv returns all that arrived, the first message is handled.
Serve ==
    /\ ~gone
    /\ up # <<>>
    /\ up' = <<>>
    /\ down' = IF kind \in Answered THEN Append(down, Head(up)) ELSE down
    /\ UNCHANGED <<asked, kind, waiting, buf, gone, talking, ended, channel>>

\* The child of the work server ends; an answer may still get through.
ServerEnds ==
    /\ ~gone
    /\ gone' = TRUE
    /\ up' = <<>>
    /\ down' \in {down, <<>>}
    /\ UNCHANGED <<asked, kind, waiting, buf, talking, ended, channel>>

\* Faulty variant: recv on a descriptor that does not block.
MayReturnAtOnce == TRUE

\* recv on the client's descriptor blocks.
MayReturn == down # <<>> \/ gone

\* recv returns: an answer, or nothing when the connection is lost.  A yes to
\* FIND_USER leads to a chat message in send_msg_to_clien_b, and to nothing
\* more elsewhere.  What init_client_b_sockfd finds in the buffer may be no
\* address, which is a null pointer.
Returns ==
    /\ waiting
    /\ MayReturn
    /\ waiting' = FALSE
    /\ ended' \in IF kind = "OBTAIN_CLIENT_ADDR" THEN BOOLEAN ELSE {FALSE}
    /\ buf' = IF down # <<>> THEN <<"answer", Head(down)>> ELSE buf
    /\ down' = <<>>
    /\ talking' \in IF kind = "FIND_USER" /\ buf'[1] = "answer" THEN BOOLEAN
                                                                ELSE {talking}
    /\ UNCHANGED <<up, asked, kind, gone, channel>>

-----------------------------------------------------------------------------
(* Client and client                                                        *)

\* Faulty variant: the peer is looked up once for all messages.
AskAgainNot == FALSE

\* Before each message send_msg_to_clien_b asks whether the peer is online.
AskAgain == TRUE

\* send_msg with n bytes
Chat(n) ==
    /\ ~ended /\ ~waiting
    /\ talking
    /\ sent < MaxAsks
    /\ talking' = ~AskAgain
    /\ sent' = sent + 1
    /\ chat' = chat \o [i \in 1..n |-> <<sent', i>>]
    /\ due' = TRUE
    /\ alone' = IF chat = <<>> THEN alone \cup {sent'} ELSE alone
    /\ UNCHANGED <<exchange, ended, handling, shown, filled>>

\* epoll_wait returns with an event
Event ==
    /\ due /\ ~handling
    /\ due' = FALSE
    /\ handling' = TRUE
    /\ UNCHANGED <<exchange, talking, ended, chat, sent, shown, alone, filled>>

\* Faulty variant: of a buffer with several messages the last is looked at.
LookedAtLast(bytes) == Last(bytes)

\* The message whose header a buffer begins with.
LookedAt(bytes) == Head(bytes)

\* Faulty variant: recv is asked for the bytes of one message.
TakenOfOne(bytes) == Cardinality({i \in DOMAIN bytes : bytes[i][1] = bytes[1][1]})

\* How many bytes recv returns.
Taken(bytes) == Min({Len(bytes), Capacity})

\* One recv.  Bytes that begin within a message have no type a client knows.
Recv ==
    /\ handling
    /\ handling' = FALSE
    /\ LET n == Taken(chat)
           bytes == SubSeq(chat, 1, n)
       IN /\ chat' = SubSeq(chat, n + 1, Len(chat))
          /\ shown' = IF bytes # <<>> /\ bytes[1][2] = 1
                        THEN Append(shown, LookedAt(bytes)[1]) ELSE shown
    /\ filled' = (filled \/ Len(chat) > Capacity)
    /\ UNCHANGED <<exchange, talking, ended, sent, due, alone>>

-----------------------------------------------------------------------------
Next ==
    \/ \E k \in Kinds : Ask(k)
    \/ SendFails \/ Serve \/ ServerEnds \/ Returns
    \/ \E n \in Lengths : Chat(n)
    \/ Event \/ Recv

Spec == Init /\ [][Next]_vars

\* The child of the work server, the client that waits in recv and the
\* listening thread run when they can.
Fairness ==
    /\ WF_vars(Serve)
    /\ WF_vars(Returns)
    /\ WF_vars(Event)
    /\ WF_vars(Recv)

FairSpec == Spec /\ Fairness

-----------------------------------------------------------------------------
(* Properties                                                               *)

\* Between a client and its work server messages are datagrams, each request
\* gets one answer, its own, and the next is sent after it was read
\* (message.h; process of the work server and all requests of client.cpp).
Wire == ({"request"} \X ToSet(up)) \cup ({"answer"} \X ToSet(down))
Exchange_ == INSTANCE Exchange WITH wire <- Wire, lost <- gone
ImplementsExchange == Exchange_!Spec

\* A client that waits for an answer gets it, or notices that the connection
\* is lost: process answers every kind of request (default answers nothing).
ExchangeEnds == waiting ~> ~waiting

\* A client acts on its own request only where init_client_b_sockfd did not
\* clear the buffer and the work server's child ended meanwhile.
OwnRequestOnlyIfGone ==
    ~waiting /\ buf[1] = "request" => gone /\ kind = "OBTAIN_CLIENT_ADDR"

\* Until recv is given more than it takes, no byte is left without an event
\* and every recv begins with a header (listen_pthread, one recv for each
\* edge-triggered event).
AlignedUntilFilled ==
    ~filled /\ chat # <<>> => (due \/ handling) /\ chat[1][2] = 1

\* A message that is sent when nothing is unread is shown, whatever was lost
\* before it and whatever follows it (send_msg_to_clien_b, listen_pthread).
AloneIsShown == \A n \in 1..MaxAsks : n \in alone ~> n \in ToSet(shown)
=============================================================================
