----------------------------- MODULE Admission -----------------------------
(***************************************************************************)
(* Both ends of getting in: the client's window and its connection threads *)
(* (crates/client/src/app.rs, net.rs) against the host of HostAccess, with *)
(* the messages between them and the connections that wait in the host's   *)
(* backlog while it serves another.                                        *)
(*                                                                         *)
(* The window runs one attempt at a time, each on a thread of its own.     *)
(* session() looks at its commands only once it is in: an attempt that the *)
(* user leaves while it connects goes on behind the window's back, and     *)
(* obeys the queued Disconnect when it gets in.                            *)
(*                                                                         *)
(* The handshake alternates, so each direction holds one message at most.  *)
(*                                                                         *)
(* For the size of the instance a behaviour is one of two kinds: strangers *)
(* connect, of whom only HostAccess speaks, or this client does, while the *)
(* clock stands still, the host has the PIN of --pin or none, and what it  *)
(* publishes, which no client sees, is written.                            *)
(***************************************************************************)
EXTENDS HostAccess, Sequences, SequencesExt

CONSTANTS Attempts      \* threads that may be connecting or in at a time

\* What the two ends say to each other.
Messages == {"Hello", "HelloAck", "Auth", "AuthConfirm", "AuthDenied"}

ASSUME AttemptsAssumption == None \notin Attempts /\ None \notin Messages

VARIABLES
    client,     \* per attempt: where session() is and what its line holds
    queue,      \* connections the host has not accepted: the attempt, its PIN
    served,     \* the attempt whose line the host holds, None if it is gone
    toHost,     \* the message under way to the host, None without one
    strangers   \* the kind of this behaviour

attemptVars == <<client, queue, served, toHost, strangers>>
admissionVars == <<vars, attemptVars>>

Connecting == {"connecting", "hello", "auth", "confirm"}

Idle == [at |-> "idle", left |-> FALSE, silent |-> FALSE,
         inbox |-> None, ended |-> FALSE]

\* What each read of session() and authenticate() expects, what it is answered
\* with, and what comes after it.
Expected == [hello |-> "HelloAck", auth |-> "Auth", confirm |-> "AuthConfirm"]
Answer == [hello |-> "Auth", auth |-> "AuthConfirm", confirm |-> None]
Following == [hello |-> "auth", auth |-> "confirm", confirm |-> "in"]

\* The attempt the window shows.
Shown(a) == client[a].at # "idle" /\ ~ client[a].left

-----------------------------------------------------------------------------
(* The client: HostAccess stays as it is *)

\* The form: a thread connects.  Without a host the connection is refused.
Open(a) ==
    /\ client[a] = Idle
    /\ \A b \in Attempts : ~ Shown(b)
    /\ client' = [client EXCEPT ![a].at = IF running THEN "connecting" ELSE "over"]
    /\ IF running THEN \E p \in Pins : queue' = Append(queue, [attempt |-> a, pin |-> p])
                   ELSE UNCHANGED queue
    /\ UNCHANGED <<vars, served, toHost>>

\* The host accepted: TLS, then Hello.
Greet(a) ==
    /\ client[a].at = "connecting"
    /\ ~ client[a].silent
    /\ served = a
    /\ client' = [client EXCEPT ![a].at = "hello"]
    /\ toHost' = "Hello"
    /\ UNCHANGED <<vars, queue, served>>

\* session() returned.  The window goes on showing why; of an attempt it no
\* longer shows nothing is left.
Over(a) ==
    client' = [client EXCEPT ![a] =
                 IF @.left THEN Idle ELSE [Idle EXCEPT !.at = "over"]]

\* The bytes the client wrote last still reach the host.
LetGo(a) == served' = IF served = a THEN None ELSE served

\* Mutant of Proceed: the client takes part before the host proved the PIN.
ProceedUnproved(a) ==
    /\ client[a].at \in DOMAIN Expected
    /\ client[a].inbox = Expected[client[a].at]
    /\ client' = [client EXCEPT ![a].at = IF @ = "hello" THEN "auth" ELSE "in",
                                ![a].inbox = None]
    /\ toHost' = IF served = a THEN Answer[client[a].at] ELSE toHost
    /\ UNCHANGED <<vars, queue, served>>

\* The expected message: its answer is written, if there is still a line.
Proceed(a) ==
    /\ client[a].at \in DOMAIN Expected
    /\ client[a].inbox = Expected[client[a].at]
    /\ client' = [client EXCEPT ![a].at = Following[@], ![a].inbox = None]
    /\ toHost' = IF served = a THEN Answer[client[a].at] ELSE toHost
    /\ UNCHANGED <<vars, queue, served>>

\* AuthDenied: its reason becomes the form's error.
Refused(a) ==
    /\ client[a].at \in DOMAIN Expected
    /\ client[a].inbox = "AuthDenied"
    /\ Over(a)
    /\ LetGo(a)
    /\ UNCHANGED <<vars, queue, toHost>>

\* The host hung up, and everything it said before is read.
Lost(a) ==
    /\ client[a].at \in Connecting \cup {"in"}
    /\ client[a].inbox = None
    /\ client[a].ended
    /\ Over(a)
    /\ UNCHANGED <<vars, queue, served, toHost>>

\* The command the window left behind is the first that the session reads.
ObeyDisconnect(a) ==
    /\ client[a].at = "in"
    /\ client[a].left
    /\ Over(a)
    /\ LetGo(a)
    /\ UNCHANGED <<vars, queue, toHost>>

\* A step of the thread of an attempt whose network still carries it.
Thread(a) ==
    /\ ~ client[a].silent
    /\ Proceed(a) \/ Refused(a) \/ Lost(a) \/ ObeyDisconnect(a)

\* "Change host", or the form that comes back by itself after a refusal.
Leave(a) ==
    /\ Shown(a)
    /\ client' = [client EXCEPT ![a] =
                    IF @.at = "over" THEN Idle ELSE [@ EXCEPT !.left = TRUE]]
    /\ UNCHANGED <<vars, queue, served, toHost>>

\* The network under an attempt is gone, and neither end is told.
FallSilent(a) ==
    /\ client[a].at \in Connecting \cup {"in"}
    /\ ~ client[a].silent
    /\ client' = [client EXCEPT ![a].silent = TRUE, ![a].inbox = None]
    /\ UNCHANGED <<vars, queue, served, toHost>>

\* The program is closed: every thread ends with it.  A connection that was
\* not accepted yet will fail as soon as it is, so it is taken off here.
Quit ==
    /\ \E a \in Attempts : client[a] # Idle
    /\ client' = [a \in Attempts |-> Idle]
    /\ queue' = <<>>
    /\ served' = None
    /\ UNCHANGED <<vars, toHost>>

-----------------------------------------------------------------------------
(* The host: the actions of HostAccess with their messages *)

\* What a client is sent is lost when its network is.
Sent(a, new) == IF client[a].silent THEN client[a] ELSE new

\* The lines of lost end; the host says last to the one it served.
HangUp(lost, last) ==
    /\ client' = [a \in Attempts |->
         IF a = served THEN Sent(a, [client[a] EXCEPT !.ended = TRUE,
                                      !.inbox = IF last = None THEN @ ELSE last])
         ELSE IF a \in lost THEN Sent(a, [client[a] EXCEPT !.ended = TRUE])
         ELSE client[a]]
    /\ served' = None
    /\ toHost' = None

Take(message) == toHost = message /\ toHost' = None

Say(message) ==
    /\ client' = IF served = None THEN client
                 ELSE [client EXCEPT ![served] = Sent(served, [@ EXCEPT !.inbox = message])]
    /\ UNCHANGED <<queue, served>>

Accept ==
    /\ queue # <<>>
    /\ Connect
    /\ guess' = Head(queue).pin
    /\ served' = Head(queue).attempt
    /\ queue' = Tail(queue)
    /\ UNCHANGED <<client, toHost>>

Acknowledge == ReadPin /\ Take("Hello") /\ Say("HelloAck")

Turn == Deny /\ toHost = "Auth" /\ HangUp({}, "AuthDenied") /\ UNCHANGED queue

Exchange == StartExchange /\ Take("Auth") /\ Say("Auth")

Judge ==
    /\ WrongPin \/ RightPin
    /\ Take("AuthConfirm")
    /\ UNCHANGED <<client, queue, served>>

TurnWrongPin == DenyWrongPin /\ HangUp({}, "AuthDenied") /\ UNCHANGED queue

Confirm == Admit /\ Say("AuthConfirm") /\ UNCHANGED toHost

GiveUp == (HandshakeFails \/ SessionEnds) /\ HangUp({}, None) /\ UNCHANGED queue

\* With the process its listener goes, and every connection to it.
GoDown ==
    /\ Stop \/ Crash
    /\ HangUp({line.attempt : line \in ToSet(queue)}, None)
    /\ queue' = <<>>

Apart ==
    /\ CaptureOpens \/ Disconnect \/ AskToStop \/ Start
    /\ UNCHANGED <<client, queue, served, toHost>>

-----------------------------------------------------------------------------

AdmissionInit ==
    /\ Init
    /\ client = [a \in Attempts |-> Idle]
    /\ queue = <<>>
    /\ served = None
    /\ toHost = None
    /\ strangers \in BOOLEAN
    /\ ~ strangers => settings.pin = None /\ unwritten = 0

\* A step of a behaviour in which this client connects.
Ours(A) == ~ strangers /\ A /\ UNCHANGED <<strangers, unwritten>>

Strangers == strangers /\ Next /\ UNCHANGED attemptVars

Clients ==
    \/ \E a \in Attempts :
         \/ Open(a) \/ Greet(a) \/ Thread(a) \/ Leave(a) \/ FallSilent(a)
    \/ Quit
    \/ Accept \/ Acknowledge \/ Turn \/ Exchange \/ Judge \/ TurnWrongPin
    \/ Confirm \/ GiveUp \/ GoDown \/ Apart

AdmissionNext == Strangers \/ Ours(Clients)

\* The host's timeout runs whatever the client does; a session ends whose
\* client is gone or whose token fired (SessionTasks!DisconnectEndsSession);
\* accept and its token are picked at random; and a client's thread runs.
AdmissionFairness ==
    /\ WF_admissionVars(Ours(Accept))
    /\ WF_admissionVars(Ours(GiveUp /\ HandshakeFails))
    /\ WF_admissionVars((served = None \/ cancelled) /\ Ours(GiveUp))
    /\ SF_admissionVars(Ours(GoDown /\ Stop))
    /\ \A a \in Attempts : WF_admissionVars(Ours(Greet(a) \/ Thread(a)))

AdmissionSpec == AdmissionInit /\ [][AdmissionNext]_admissionVars /\ AdmissionFairness

-----------------------------------------------------------------------------
(* Properties *)

\* A client takes part only in a session that the host has begun with it,
\* after the PIN was proved; and the host begins none with a client that has
\* not said all the handshake asks of it.
EndsAgree ==
    /\ \A a \in Attempts :
         client[a].at = "in" /\ served = a => phase \in Session /\ guess = pinRead
    /\ served # None /\ phase \in Session =>
         \/ client[served].at = "in"
         \/ /\ client[served].at = "confirm"
            /\ client[served].inbox = "AuthConfirm" \/ client[served].silent

\* The client sets no timeout to any step of the handshake, and does not look
\* at its commands meanwhile.  Still every attempt gets in or is told why not,
\* and one that the user left gets out again, unless its own network went
\* away or another's session holds the host: nobody waits for a client that
\* stalls in front of him.
Waiting(a) ==
    \/ client[a].at \in Connecting
    \/ client[a].at = "in" /\ client[a].left

AttemptsEnd ==
    \A a \in Attempts :
      Waiting(a) ~> \/ ~ Waiting(a)
                    \/ client[a].silent
                    \/ phase \in Session /\ served # a

=============================================================================
