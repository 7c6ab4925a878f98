----------------------------- MODULE Connection -----------------------------
(* serve_connection and Dispatcher::dispatch: the life of client           *)
(* connections.  A reader takes frames off the socket and starts a task    *)
(* for each, as permits allow; a writer joins the tasks in the order the   *)
(* frames came and puts their answers on the wire; the tasks themselves    *)
(* run side by side, authenticate the one session they share, and hold a   *)
(* place in the quota of the principal they act for, which every           *)
(* connection of that principal shares.  Ending a connection stops reader  *)
(* and writer and leaves the tasks running.                                *)
EXTENDS Integers, FiniteSets, SequencesExt

CONSTANTS
    Conn,
    User,           \* principals of the credentials table
    Nameless,       \* no principal
    Configured,     \* PlainCredentials is not empty
    Terminated,     \* the listener terminates TLS
    Grants,         \* what each principal may touch: <<principal, name>>
    FramesOf,       \* the frames each client sends, one behind the other
    MAX_IN_FLIGHT,  \* ConnectionLimits.max_in_flight
    QUOTA,          \* PrincipalQuota.max_in_flight
    MaxEnds,        \* bound: connections that end before their frames do
    MaxPanics       \* bound: handlers that panic

ASSUME ConnAssumption ==
    /\ QUOTA \in Nat
    /\ \A c \in Conn :
           /\ Len(FramesOf[c]) \in Nat
           /\ \A n \in 1 .. Len(FramesOf[c]) :
                  FramesOf[c][n].user \in User /\ FramesOf[c][n].limit \in Int

VARIABLES
    sock,       \* each connection: reader, writer, frames read, channel, wire, ending
    session,    \* each connection's principal
    hand,       \* the handler tasks, per connection and frame
    quota,      \* in_flight, and the overrides, per principal
    acts,       \* what was done: <<connection, frame, who was charged, who acted>>
    ends        \* connections ended early, handlers panicked

connVars == <<sock, session, hand, quota, acts, ends>>

Unborn == [pc |-> "unborn", charged |-> Nameless, told |-> Nameless, out |-> "none"]
NoLimit == -1

ConnInit ==
    /\ sock = [c \in Conn |-> [reader |-> "reading", writer |-> "recv", read |-> 0, join |-> 0,
                               channel |-> <<>>, wire |-> <<>>, ended |-> "open"]]
    /\ session = [c \in Conn |-> Nameless]
    /\ hand = [c \in Conn |-> [n \in 1 .. Len(FramesOf[c]) |-> Unborn]]
    /\ quota = [u \in User |-> [in_flight |-> 0, limit |-> NoLimit, most |-> QUOTA]]
    /\ acts = {}
    /\ ends = [early |-> 0, panics |-> 0]

Running(c) == {n \in DOMAIN hand[c] : hand[c][n].pc \in {"begin", "handle"}}
Frame(c, n) == FramesOf[c][n]
Open(c) == sock[c].ended = "open"

-----------------------------------------------------------------------------
(* read_frames: a frame, a permit, a task, and the task's handle to the    *)
(* writer; each wait is its own step.                                      *)
ReadFrame(c) ==
    /\ sock[c].reader = "reading" /\ sock[c].read < Len(FramesOf[c])
    /\ sock' = IF Frame(c, sock[c].read + 1).kind = "too_large"
               THEN [sock EXCEPT ![c].reader = "FrameTooLarge"]
               ELSE [sock EXCEPT ![c].reader = "permit", ![c].read = @ + 1]
    /\ UNCHANGED <<session, hand, quota, acts, ends>>

(* The peer closes, or is idle past the limit, whatever is in flight.      *)
ReadEnds(c) ==
    /\ sock[c].reader = "reading"
    /\ sock[c].read < Len(FramesOf[c]) => ends.early < MaxEnds
    /\ ends' = [ends EXCEPT !.early = IF sock[c].read < Len(FramesOf[c]) THEN @ + 1 ELSE @]
    /\ sock' = [sock EXCEPT ![c].reader = "ended"]
    /\ UNCHANGED <<session, hand, quota, acts>>

Spawn(c) ==
    /\ sock[c].reader = "permit" /\ Cardinality(Running(c)) < MAX_IN_FLIGHT
    /\ sock' = [sock EXCEPT ![c].reader = "sending"]
    /\ hand' = [hand EXCEPT ![c][sock[c].read].pc = "begin"]
    /\ UNCHANGED <<session, quota, acts, ends>>

SendHandle(c) ==
    /\ sock[c].reader = "sending" /\ Len(sock[c].channel) < MAX_IN_FLIGHT
    /\ sock' = [sock EXCEPT ![c].reader = "reading", ![c].channel = Append(@, sock[c].read)]
    /\ UNCHANGED <<session, hand, quota, acts, ends>>

-----------------------------------------------------------------------------
(* write_in_order.                                                         *)
Receive(c) ==
    /\ sock[c].writer = "recv" /\ sock[c].channel # <<>>
    /\ sock' = [sock EXCEPT ![c].writer = "join", ![c].join = Head(sock[c].channel),
                            ![c].channel = Tail(@)]
    /\ UNCHANGED <<session, hand, quota, acts, ends>>

Joined(c) == sock[c].writer = "join" /\ hand[c][sock[c].join].pc = "done"
JoinedOut(c) == hand[c][sock[c].join].out

WriteReply(c) ==
    /\ Joined(c) /\ JoinedOut(c) = "Reply"
    /\ sock' = [sock EXCEPT ![c].writer = "recv", ![c].wire = Append(@, sock[c].join)]
    /\ UNCHANGED <<session, hand, quota, acts, ends>>

SkipSilent(c) ==
    /\ Joined(c) /\ JoinedOut(c) = "Silent"
    /\ sock' = [sock EXCEPT ![c].writer = "recv"]
    /\ UNCHANGED <<session, hand, quota, acts, ends>>

(* The writer ends: a handler closed or panicked, the peer stopped reading *)
(* (WriteFails), or the reader has ended and nothing is left (Drains).     *)
(* serve_connection then ends the connection, the reader with it.          *)
Stops(c, why) ==
    sock' = [sock EXCEPT ![c].writer = "over", ![c].ended = why,
                         ![c].reader = IF @ \in {"reading", "permit", "sending"} THEN "aborted" ELSE @]

WriterCloses(c) ==
    /\ Joined(c) /\ JoinedOut(c) \in {"Close", "Panic"}
    /\ Stops(c, IF JoinedOut(c) = "Close" THEN "HandlerClosed" ELSE "HandlerPanicked")
    /\ UNCHANGED <<session, hand, quota, acts, ends>>

WriteFails(c) ==
    /\ Joined(c) /\ JoinedOut(c) = "Reply" /\ ends.early < MaxEnds
    /\ Stops(c, "TimedOut")
    /\ ends' = [ends EXCEPT !.early = @ + 1]
    /\ UNCHANGED <<session, hand, quota, acts>>

(* Mutant of MayDrain: the end of the reading ends the connection.         *)
MayDrainAtOnce(c) == sock[c].reader \notin {"reading", "permit", "sending"}

MayDrain(c) ==
    /\ sock[c].reader \notin {"reading", "permit", "sending"}
    /\ sock[c].writer = "recv" /\ sock[c].channel = <<>>

Drains(c) ==
    /\ Open(c) /\ MayDrain(c)
    /\ Stops(c, "Drained")
    /\ UNCHANGED <<session, hand, quota, acts, ends>>

(* The connection's future is dropped: AbortOnDrop.                        *)
ConnDropped(c) ==
    /\ Open(c) /\ ends.early < MaxEnds
    /\ Stops(c, "Dropped")
    /\ ends' = [ends EXCEPT !.early = @ + 1]
    /\ UNCHANGED <<session, hand, quota, acts>>

-----------------------------------------------------------------------------
(* dispatch, up to the first wait: refusals, then the quota.               *)
HandlerEnds(c, n, out) == hand' = [hand EXCEPT ![c][n].pc = "done", ![c][n].out = out]

(* unauthorized: only the two SASL requests pass without a principal.      *)
Unauthorized(c, n) ==
    /\ Frame(c, n).kind # "sasl"
    /\ Configured /\ session[c] = Nameless

LimitOf(u) == IF quota[u].limit = NoLimit THEN QUOTA ELSE quota[u].limit

(* PrincipalQuota::admit.                                                  *)
PlaceLeft(u) == u \in User => quota[u].in_flight < LimitOf(u)

(* A key the role does not serve or a version it does not speak, no        *)
(* authority, or no place left: the request closes the connection.         *)
MayRun(c, n) ==
    Frame(c, n).kind # "unknown" /\ ~Unauthorized(c, n) /\ PlaceLeft(session[c])

BeginVersions(c, n) ==
    /\ hand[c][n].pc = "begin" /\ Frame(c, n).kind = "api_versions"
    /\ HandlerEnds(c, n, "Reply")
    /\ UNCHANGED <<sock, session, quota, acts, ends>>

BeginRefused(c, n) ==
    /\ hand[c][n].pc = "begin" /\ Frame(c, n).kind # "api_versions" /\ ~MayRun(c, n)
    /\ HandlerEnds(c, n, "Close")
    /\ UNCHANGED <<sock, session, quota, acts, ends>>

BeginAdmitted(c, n) ==
    /\ hand[c][n].pc = "begin" /\ Frame(c, n).kind # "api_versions" /\ MayRun(c, n)
    /\ hand' = [hand EXCEPT ![c][n].pc = "handle", ![c][n].charged = session[c]]
    /\ quota' = [u \in User |-> IF u = session[c] THEN [quota[u] EXCEPT !.in_flight = @ + 1]
                                ELSE quota[u]]
    /\ UNCHANGED <<sock, session, acts, ends>>

(* The InFlight guard is dropped with the task, however it ends.           *)
Release(c, n, out) ==
    [u \in User |-> IF u = hand[c][n].charged THEN [quota[u] EXCEPT !.in_flight = @ - 1]
                    ELSE quota[u]]

(* topic_authorized, group_authorized, admin_authorized: everything is     *)
(* allowed where no credentials are configured, and what is granted where  *)
(* they are.                                                               *)
Authorized(who, name) == Configured => <<who, name>> \in Grants

(* ... and after it, the handler, which reads the session again and leaves *)
(* out of its work what that principal may not touch.                      *)
Act(c, n) ==
    IF Authorized(session[c], Frame(c, n).name)
    THEN {[conn |-> c, frame |-> n, charged |-> hand[c][n].charged, as |-> session[c]]}
    ELSE {}

HandleData(c, n) ==
    /\ hand[c][n].pc = "handle" /\ Frame(c, n).kind \in {"data", "acks0"}
    /\ acts' = acts \cup Act(c, n)
    /\ quota' = Release(c, n, "Reply")
    /\ HandlerEnds(c, n, IF Frame(c, n).kind = "data" THEN "Reply" ELSE "Silent")
    /\ UNCHANGED <<sock, session, ends>>

(* PlainCredentials::verify, and only under TLS.                           *)
Verified(f) == Terminated /\ Configured /\ f.good

(* Mutant of Authenticate: a session may authenticate again.               *)
AuthenticateAgain(c, user) == TRUE

(* Session::authenticate: the first wins, under one lock.                  *)
Authenticate(c, user) == session[c] = Nameless

(* sasl_authenticate::handle: a verified credential that comes second is   *)
(* refused as one that never matched; a refusal is an answer.              *)
HandleSasl(c, n) ==
    LET f == Frame(c, n)
        won == Verified(f) /\ Authenticate(c, f.user)
    IN  /\ hand[c][n].pc = "handle" /\ f.kind = "sasl"
        /\ session' = IF won THEN [session EXCEPT ![c] = f.user] ELSE session
        /\ hand' = [hand EXCEPT ![c][n].pc = "done", ![c][n].out = "Reply",
                                ![c][n].told = IF won THEN f.user ELSE @]
        /\ quota' = Release(c, n, "Reply")
        /\ UNCHANGED <<sock, acts, ends>>

(* alter_one: only a well-formed change by one who may, and not under      *)
(* validate_only, is in force, and at once (set_override).                 *)
SetOverride(q, f) ==
    [q EXCEPT ![f.user].limit = f.limit,
              ![f.user].most = IF f.limit > @ THEN f.limit ELSE @]

HandleAlter(c, n) ==
    LET f == Frame(c, n)
        freed == Release(c, n, "Reply")
    IN  /\ hand[c][n].pc = "handle" /\ f.kind = "alter"
        /\ acts' = acts \cup Act(c, n)
        /\ quota' = IF f.good /\ Act(c, n) # {} THEN SetOverride(freed, f) ELSE freed
        /\ HandlerEnds(c, n, "Reply")
        /\ UNCHANGED <<sock, session, ends>>

HandlePanics(c, n) ==
    /\ hand[c][n].pc = "handle" /\ ends.panics < MaxPanics
    /\ ends' = [ends EXCEPT !.panics = @ + 1]
    /\ quota' = Release(c, n, "Panic")
    /\ HandlerEnds(c, n, "Panic")
    /\ UNCHANGED <<sock, session, acts>>

ConnNext ==
    \E c \in Conn :
        \/ ReadFrame(c) \/ Spawn(c) \/ SendHandle(c) \/ Receive(c) \/ WriteReply(c)
        \/ SkipSilent(c) \/ WriterCloses(c) \/ WriteFails(c) \/ Drains(c) \/ ConnDropped(c)
        \/ ReadEnds(c)
        \/ \E n \in DOMAIN hand[c] :
               \/ BeginRefused(c, n) \/ BeginVersions(c, n) \/ BeginAdmitted(c, n)
               \/ HandleData(c, n) \/ HandleSasl(c, n) \/ HandleAlter(c, n) \/ HandlePanics(c, n)

ConnSpec == ConnInit /\ [][ConnNext]_connVars

-----------------------------------------------------------------------------
(* Answers reach the wire in the order of the requests and none is left    *)
(* out: before an answer, every earlier request was answered or wants no   *)
(* answer; and a connection that drained has answered all it read, though  *)
(* the peer closed or timed out with requests still running.               *)
AnsweredInOrder ==
    \A c \in Conn :
        LET wire == sock[c].wire
            told(n) == n \in ToSet(wire) \/ hand[c][n].out = "Silent"
        IN  /\ \A i \in 1 .. Len(wire) - 1 : wire[i] < wire[i + 1]
            /\ \A i \in 1 .. Len(wire) : \A n \in 1 .. wire[i] - 1 : told(n)
            /\ sock[c].ended = "Drained" => \A n \in 1 .. sock[c].read : told(n)

(* What a request does it does as the principal it was charged to, one     *)
(* that may do it, whatever other requests of the connection authenticate  *)
(* meanwhile; and a client told that it authenticated is who the           *)
(* connection acts for from then on.                                       *)
ActsAsCharged ==
    /\ \A a \in acts :
           /\ a.charged = a.as
           /\ Configured => <<a.as, Frame(a.conn, a.frame).name>> \in Grants
    /\ \A c \in Conn : \A n \in DOMAIN hand[c] :
           hand[c][n].told # Nameless => hand[c][n].told = session[c]

(* The requests of all connections that run, charged to u.                 *)
HeldBy(tasks, u) ==
    {h \in UNION {{c} \X DOMAIN tasks[c] : c \in Conn} :
        tasks[h[1]][h[2]].pc = "handle" /\ tasks[h[1]][h[2]].charged = u}

(* A principal's places are held by requests really running for it, over   *)
(* all its connections and however those ended, and were never more than   *)
(* the largest limit that has been in force.                               *)
QuotaExact ==
    \A u \in User :
        /\ quota[u].in_flight = Cardinality(HeldBy(hand, u))
        /\ quota[u].in_flight <= quota[u].most

(* A request acts for the principal it is charged to, and is charged once. *)
ChargedOnce == ActsAsCharged /\ QuotaExact
=============================================================================
